----------------------------- MODULE CmpProofs -----------------------------
(***************************************************************************)
(* What Cmp guarantees of any number of transactions, certificates,        *)
(* threads and approvers, whatever messages are repeated, whatever answers *)
(* are lost and whatever decisions overlap.                                *)
(***************************************************************************)
EXTENDS Cmp, TLAPS

USE NoneAssumption

-----------------------------------------------------------------------------
(* The inductive invariant *)

NoneFor(t) == \A c \in Cert : cert[c].of # t

\* c is for t, and is alone unless t was decided twice.
OnlyFor(t, c) ==
  /\ c \in Cert /\ cert[c].of = t
  /\ t \notin twice => \A d \in Cert : cert[d].of = t => d = c

Revoked(t) == \A c \in Cert : cert[c].of = t => cert[c].status = "revoked"

\* A certificate that is not issued is no transaction's.
Unissued == \A c \in Cert : cert[c].status = "none" => cert[c].of = None

\* The rows of a transaction say how many certificates it has, and which.
RowsFit(t) ==
  /\ txn[t].status = "none" => approval[t].status = "none" /\ NoneFor(t)
  /\ approval[t].status = "none" => deciding[t] = {}
  /\ approval[t].status \in {"none", "pending"} => t \notin twice
  /\ approval[t].status = "pending" => NoneFor(t)
  /\ approval[t].status = "rejected" /\ t \notin twice => NoneFor(t)
  /\ txn[t].status # "none" /\ approval[t].status = "none" => OnlyFor(t, txn[t].cert)
  /\ approval[t].status = "approved" => OnlyFor(t, approval[t].cert)
  /\ txn[t].status = "waiting_conf" => OnlyFor(t, txn[t].cert)
  /\ old[t] = "superseded" => ~NoneFor(t)

\* A device judges once, and only what it was granted; nothing else is revoked.
DeviceFit(t) ==
  /\ device[t].at \in {"new", "request", "poll", "granted"} =>
       "accept" \notin device[t].sent /\ "refuse" \notin device[t].sent
  /\ ~("accept" \in device[t].sent /\ "refuse" \in device[t].sent)
  /\ device[t].at = "told" => "refuse" \in device[t].sent
  /\ "refuse" \in device[t].sent => device[t].at \in {"refuse", "told"}
  /\ device[t].at = "granted" \/ "accept" \in device[t].sent \/ "refuse" \in device[t].sent =>
       t \notin implicit /\ OnlyFor(t, device[t].cert)
  /\ \A c \in Cert : cert[c].of = t /\ cert[c].status = "revoked" => "refuse" \in device[t].sent

\* While the device makes up its mind the transaction waits; after it refused it
\* still does, or the certificate is revoked.
RefusalFit(t) ==
  t \notin late \cup twice =>
    /\ device[t].at = "granted" => txn[t].status = "waiting_conf"
    /\ "refuse" \in device[t].sent /\ txn[t].status # "waiting_conf" => Revoked(t)
    /\ device[t].at = "told" => Revoked(t)

\* What a thread has loaded still holds as far as it never changes.
ThreadFit(h) ==
  LET t == thread[h].of
  IN  thread[h] # Free =>
        /\ t \in Txn
        /\ thread[h].msg \in device[t].sent
        /\ thread[h].approval.status = "approved" => OnlyFor(t, thread[h].approval.cert)
        /\ thread[h].approval.status \in {"approved", "rejected"} /\ t \notin twice =>
             approval[t] = thread[h].approval
        /\ thread[h].txn.status = "waiting_conf" => OnlyFor(t, thread[h].txn.cert)
        /\ t \notin late \cup twice /\ thread[h].msg = "refuse"
             /\ thread[h].txn.status # "waiting_conf" => Revoked(t)

\* Housekeeping finds transactions that are there and are late.
SweepLate == sweep \subseteq late /\ \A t \in late : txn[t].status # "none"

CmpInv ==
  /\ CmpTypeOK /\ Unissued /\ SweepLate
  /\ \A t \in Txn : RowsFit(t) /\ DeviceFit(t) /\ RefusalFit(t)
  /\ \A h \in Thread : ThreadFit(h)

-----------------------------------------------------------------------------
(* A step of one transaction *)

\* The other transactions are as they were, and no certificate leaves its own.
OnlyTouches(t) ==
  /\ implicit' = implicit
  /\ \A s \in Txn \ {t} :
       /\ device'[s] = device[s] /\ txn'[s] = txn[s] /\ approval'[s] = approval[s]
       /\ deciding'[s] = deciding[s] /\ old'[s] = old[s]
       /\ s \in twice' <=> s \in twice
       /\ s \in late' <=> s \in late
  /\ \A c \in Cert : \/ cert'[c] = cert[c]
                     \/ cert[c].of \in {None, t} /\ cert'[c].of = t

\* What a thread has loaded of the transaction stays true.
Carries(t) ==
  /\ \A m \in device[t].sent : m \in device'[t].sent
  /\ t \in twice => t \in twice'
  /\ t \in late => t \in late'
  /\ \A c \in Cert : OnlyFor(t, c) => OnlyFor(t, c)'
  /\ t \notin twice' /\ approval[t].status \in {"approved", "rejected"} =>
       approval'[t] = approval[t]
  /\ "refuse" \in device[t].sent /\ t \notin late' \cup twice' /\ Revoked(t) => Revoked(t)'

\* Another transaction has the same certificates.
LEMMA OthersKeep ==
  ASSUME NEW t \in Txn, OnlyTouches(t), NEW s \in Txn, s # t
  PROVE  /\ NoneFor(s)' <=> NoneFor(s)
         /\ \A c : OnlyFor(s, c)' <=> OnlyFor(s, c)
         /\ Revoked(s)' <=> Revoked(s)
<1>1. \A c \in Cert : cert'[c] = cert[c] \/ (cert[c].of # s /\ cert'[c].of # s)
  BY DEF OnlyTouches
<1>2. s \in twice' <=> s \in twice
  BY DEF OnlyTouches
<1> QED
  BY <1>1, <1>2 DEF NoneFor, OnlyFor, Revoked

\* So a step of t keeps the invariant if it does for t and for what threads load.
LEMMA StepOfOne ==
  ASSUME CmpInv, NEW t \in Txn, OnlyTouches(t), Carries(t),
         CmpTypeOK', Unissued', SweepLate', RowsFit(t)', DeviceFit(t)', RefusalFit(t)',
         \A g \in Thread : thread'[g] = thread[g] \/ ThreadFit(g)'
  PROVE  CmpInv'
<1>1. ASSUME NEW s \in Txn, s # t PROVE RowsFit(s)' /\ DeviceFit(s)' /\ RefusalFit(s)'
  <2>1. RowsFit(s) /\ DeviceFit(s) /\ RefusalFit(s)
    BY DEF CmpInv
  <2>2. /\ device'[s] = device[s] /\ txn'[s] = txn[s] /\ approval'[s] = approval[s]
        /\ deciding'[s] = deciding[s] /\ old'[s] = old[s] /\ implicit' = implicit
        /\ s \in twice' <=> s \in twice
        /\ s \in late' <=> s \in late
    BY <1>1 DEF OnlyTouches
  <2>3. /\ NoneFor(s)' <=> NoneFor(s)
        /\ \A c : OnlyFor(s, c)' <=> OnlyFor(s, c)
        /\ Revoked(s)' <=> Revoked(s)
    BY <1>1, OthersKeep
  <2>4. \A c \in Cert : cert'[c].of = s => cert'[c] = cert[c]
    BY <1>1 DEF OnlyTouches
  <2>5. RowsFit(s)'
    BY <2>1, <2>2, <2>3 DEF RowsFit
  <2>6. DeviceFit(s)'
    BY <2>1, <2>2, <2>3, <2>4 DEF DeviceFit
  <2>7. RefusalFit(s)'
    BY <2>1, <2>2, <2>3 DEF RefusalFit
  <2> QED
    BY <2>5, <2>6, <2>7
<1>2. ASSUME NEW g \in Thread, thread'[g] = thread[g] PROVE ThreadFit(g)'
  <2>1. CASE thread[g] = Free
    BY <1>2, <2>1 DEF ThreadFit
  <2>2. CASE thread[g] # Free
    <3>. PICK s \in Txn : s = thread[g].of
      BY <2>2 DEF CmpInv, ThreadFit
    <3>. PICK c, d : c = thread[g].approval.cert /\ d = thread[g].txn.cert
      OBVIOUS
    <3>1. ThreadFit(g)
      BY DEF CmpInv
    <3>2. /\ thread[g].msg \in device'[s].sent
          /\ s \in twice => s \in twice'
          /\ s \in late => s \in late'
          /\ OnlyFor(s, c) => OnlyFor(s, c)'
          /\ OnlyFor(s, d) => OnlyFor(s, d)'
          /\ s \notin twice' /\ approval[s].status \in {"approved", "rejected"} =>
               approval'[s] = approval[s]
          /\ thread[g].msg = "refuse" /\ s \notin late' \cup twice' /\ Revoked(s) => Revoked(s)'
      <4>1. CASE s = t
        BY <2>2, <3>1, <4>1 DEF ThreadFit, Carries, OnlyFor
      <4>2. CASE s # t
        BY <2>2, <3>1, <4>2, OthersKeep DEF ThreadFit, OnlyTouches
      <4> QED
        BY <4>1, <4>2
    <3>3. thread[g].approval.status = "approved" => OnlyFor(s, c)'
      BY <2>2, <3>1, <3>2 DEF ThreadFit
    <3>4. thread[g].txn.status = "waiting_conf" => OnlyFor(s, d)'
      BY <2>2, <3>1, <3>2 DEF ThreadFit
    <3>5. thread[g].approval.status \in {"approved", "rejected"} /\ s \notin twice' =>
            approval'[s] = thread[g].approval
      BY <2>2, <3>1, <3>2 DEF ThreadFit
    <3>6. s \notin late' \cup twice' /\ thread[g].msg = "refuse"
            /\ thread[g].txn.status # "waiting_conf" => Revoked(s)'
      BY <2>2, <3>1, <3>2 DEF ThreadFit
    <3> QED
      BY <1>2, <3>2, <3>3, <3>4, <3>5, <3>6 DEF ThreadFit
  <2> QED
    BY <2>1, <2>2
<1> QED
  BY <1>1, <1>2 DEF CmpInv

-----------------------------------------------------------------------------
(* An answer *)

ThreadRow == [of : Txn \cup {None}, msg : Message \cup {"none"}, txn : TxnRow,
              approval : ApprovalRow, old : {"none", "active", "superseded"}]
DeviceRow == [at : At, cert : Cert \cup {None}, sent : SUBSET Message]

\* Where an answer can bring a device.
Reached == {"poll", "granted", "done", "told", "failed"}

\* The device of t still waited for the answer of h, and it judges nothing.
MovesOn(h, t, at, c) ==
  /\ device[t].at = thread[h].msg /\ device'[t].at = at /\ device'[t].cert = c
  /\ "accept" \in device'[t].sent <=> "accept" \in device[t].sent
  /\ "refuse" \in device'[t].sent <=> "refuse" \in device[t].sent

Delivered(t) == IF t \in implicit THEN "confirmed" ELSE "waiting_conf"

\* What an answer changes: the thread is free, and a device that still waited for it
\* moves on; no certificate is judged.
LEMMA AnswerEffect ==
  ASSUME CmpTypeOK, NEW h \in Thread, NEW t \in Txn, t = thread[h].of,
         NEW at \in Reached, NEW c \in Cert \cup {None}, AnswerWith(h, at, c)
  PROVE  /\ device' \in [Txn -> DeviceRow]
         /\ thread' \in [Thread -> ThreadRow]
         /\ \A g \in Thread : thread'[g] = IF g = h THEN Free ELSE thread[g]
         /\ \A s \in Txn : device'[s] = device[s] \/ (s = t /\ MovesOn(h, t, at, c))
         /\ \A s \in Txn : \A m \in device[s].sent : m \in device'[s].sent
<1> USE DEF Message, At, ThreadRow, DeviceRow, Reached
<1>1. Free \in ThreadRow
  BY DEF Free, NoRow, TxnRow, ApprovalRow
<1>2. thread' \in [Thread -> ThreadRow]
  BY <1>1 DEF CmpTypeOK, AnswerWith
<1>3. \A g \in Thread : thread'[g] = IF g = h THEN Free ELSE thread[g]
  BY DEF CmpTypeOK, AnswerWith
<1>4. CASE device' = device
  BY <1>2, <1>3, <1>4 DEF CmpTypeOK
<1>5. CASE device[t].at = thread[h].msg /\ Send(t, at, c)
  <2>1. device' = [device EXCEPT ![t] =
          [at |-> at, cert |-> c, sent |-> device[t].sent \cup ({at} \cap Message)]]
    BY <1>5 DEF Send
  <2>2. [at |-> at, cert |-> c, sent |-> device[t].sent \cup ({at} \cap Message)] \in DeviceRow
    BY DEF CmpTypeOK
  <2>3. device' \in [Txn -> DeviceRow]
    BY <2>1, <2>2 DEF CmpTypeOK
  <2>4. \A s \in Txn : s # t => device'[s] = device[s]
    BY <2>1 DEF CmpTypeOK
  <2>5. /\ device'[t].at = at /\ device'[t].cert = c
        /\ device'[t].sent = device[t].sent \cup ({at} \cap Message)
    BY <2>1 DEF CmpTypeOK
  <2>6. /\ "accept" \in device'[t].sent <=> "accept" \in device[t].sent
        /\ "refuse" \in device'[t].sent <=> "refuse" \in device[t].sent
        /\ \A m \in device[t].sent : m \in device'[t].sent
    BY <2>5
  <2> QED BY <1>2, <1>3, <1>5, <2>3, <2>4, <2>5, <2>6 DEF MovesOn
<1> QED BY <1>4, <1>5 DEF AnswerWith

\* What a handler writes to the certificates: one for a transaction that had none,
\* or the end of one that was refused.
WritesCerts(t) ==
  \A d \in Cert :
    \/ cert'[d] = cert[d]
    \/ cert[d].of = None /\ NoneFor(t) /\ cert'[d].of = t /\ cert'[d].status = "active"
    \/ /\ cert[d].of = t /\ cert'[d].of = t /\ cert'[d].status = "revoked"
       /\ "refuse" \in device[t].sent

\* What it writes to its transaction's rows, and to no other.
WritesRows(t) ==
  /\ txn' \in [Txn -> TxnRow] /\ approval' \in [Txn -> ApprovalRow]
  /\ old' \in [Txn -> {"none", "active", "superseded"}]
  /\ \A s \in Txn \ {t} : txn'[s] = txn[s] /\ approval'[s] = approval[s] /\ old'[s] = old[s]
  /\ approval[t].status \in {"approved", "rejected"} => approval'[t] = approval[t]
  /\ txn'[t].status = "none" => txn[t].status = "none"

\* What it owes the device, if it still waits for the answer, and if it has judged.
Owes(t, h, at, c) ==
  /\ at = "granted" => t \notin implicit /\ OnlyFor(t, c)'
  /\ at = "told" <=> thread[h].msg = "refuse"
  /\ t \notin late \cup twice =>
       /\ at = "told" => Revoked(t)'
       /\ at = "granted" \/ device[t].at = "granted" => txn'[t].status = "waiting_conf"
       /\ "refuse" \in device[t].sent => txn'[t].status = "waiting_conf" \/ Revoked(t)'
  /\ thread[h].msg \in {"accept", "refuse"} =>
       c = device[t].cert /\ at \in {"done", "told", "failed"}

\* A handler that writes so and answers keeps the invariant.
LEMMA HandlerStep ==
  ASSUME CmpInv, NEW h \in Thread, NEW t \in Txn, t = thread[h].of,
         thread[h].msg \in device[t].sent,
         NEW at \in Reached, NEW c \in Cert \cup {None}, AnswerWith(h, at, c),
         UNCHANGED <<updates, implicit, deciding, twice, late, sweep>>,
         cert' \in [Cert -> [status : {"none", "active", "revoked"}, of : Txn \cup {None}]],
         WritesCerts(t), WritesRows(t), Owes(t, h, at, c), RowsFit(t)'
  PROVE  CmpInv'
<1>1. /\ device' \in [Txn -> DeviceRow]
      /\ thread' \in [Thread -> ThreadRow]
      /\ \A g \in Thread : thread'[g] = IF g = h THEN Free ELSE thread[g]
      /\ \A s \in Txn : device'[s] = device[s] \/ (s = t /\ MovesOn(h, t, at, c))
      /\ \A s \in Txn : \A m \in device[s].sent : m \in device'[s].sent
  BY AnswerEffect DEF CmpInv
<1>2. CmpTypeOK'
  BY <1>1 DEF CmpInv, CmpTypeOK, ThreadRow, DeviceRow, WritesRows
<1>3. OnlyTouches(t)
  BY <1>1 DEF OnlyTouches, WritesRows, WritesCerts
<1>4. ASSUME NEW d, OnlyFor(t, d) PROVE OnlyFor(t, d)'
  BY <1>4 DEF OnlyFor, NoneFor, WritesCerts
<1>5. "refuse" \in device[t].sent /\ Revoked(t) => Revoked(t)'
  BY DEF CmpInv, DeviceFit, OnlyFor, NoneFor, Revoked, WritesCerts
<1>6. Carries(t)
  BY <1>1, <1>4, <1>5 DEF Carries, WritesRows
<1>7. Unissued' /\ SweepLate'
  <2>1. Unissued'
    BY DEF CmpInv, Unissued, WritesCerts
  <2>2. ASSUME NEW s \in late PROVE s \in Txn /\ txn'[s].status # "none"
    BY <2>2 DEF CmpInv, CmpTypeOK, SweepLate, WritesRows
  <2> QED
    BY <2>1, <2>2 DEF CmpInv, SweepLate
<1>8. DeviceFit(t) /\ RefusalFit(t)
  BY DEF CmpInv
<1>9. ASSUME NEW d \in Cert, cert'[d].of = t, cert'[d].status = "revoked"
      PROVE  "refuse" \in device'[t].sent
  BY <1>1, <1>8, <1>9 DEF WritesCerts, DeviceFit
<1>10. DeviceFit(t)'
  <2>1. CASE device'[t] = device[t]
    BY <1>4, <1>8, <1>9, <2>1 DEF DeviceFit
  <2>2. CASE MovesOn(h, t, at, c)
    <3>0. device[t].at = thread[h].msg /\ thread[h].msg \in Message
      BY <2>2 DEF MovesOn, CmpInv, CmpTypeOK
    <3>1. \/ thread[h].msg \in {"accept", "refuse"}
          \/ "accept" \notin device[t].sent /\ "refuse" \notin device[t].sent
      BY <1>8, <3>0 DEF DeviceFit, Message
    <3>2. "accept" \in device[t].sent \/ "refuse" \in device[t].sent => OnlyFor(t, c)'
      BY <1>4, <1>8, <3>1 DEF Owes, DeviceFit
    <3>3. "refuse" \in device[t].sent => at = "told"
      BY <1>8, <3>0 DEF DeviceFit, Owes, Message
    <3>4. at = "told" => "refuse" \in device[t].sent
      BY DEF Owes
    <3>5. at \in {"poll", "granted"} => "accept" \notin device[t].sent
      BY <1>8, <3>0, <3>1 DEF DeviceFit, Owes
    <3>6. at = "granted" \/ "accept" \in device[t].sent \/ "refuse" \in device[t].sent =>
            t \notin implicit'
      BY <1>8 DEF DeviceFit, Owes
    <3> QED
      BY <1>8, <1>9, <2>2, <3>2, <3>3, <3>4, <3>5, <3>6 DEF DeviceFit, MovesOn, Owes, Reached
  <2> QED
    BY <1>1, <2>1, <2>2
<1>11. RefusalFit(t)'
  <2>1. CASE device'[t] = device[t]
    BY <1>5, <1>8, <2>1 DEF RefusalFit, DeviceFit, Owes
  <2>2. CASE MovesOn(h, t, at, c)
    BY <2>2 DEF RefusalFit, MovesOn, Owes
  <2> QED
    BY <1>1, <2>1, <2>2
<1>12. \A g \in Thread : thread'[g] = thread[g] \/ ThreadFit(g)'
  BY <1>1 DEF ThreadFit, Free
<1> QED
  BY <1>2, <1>3, <1>6, <1>7, <1>10, <1>11, <1>12, StepOfOne

-----------------------------------------------------------------------------
(* Every handler keeps the invariant *)

\* What a busy thread has loaded is of a transaction that has sent its message.
LEMMA Busy ==
  ASSUME CmpInv, NEW h \in Thread, thread[h].msg # "none"
  PROVE  /\ thread[h].of \in Txn /\ ThreadFit(h) /\ thread[h] # Free
         /\ thread[h].msg \in device[thread[h].of].sent
BY DEF CmpInv, ThreadFit, Free

\* A new certificate for a transaction that had none.
LEMMA Certified ==
  ASSUME CmpInv, NEW t \in Txn, NEW c \in Cert, Certify(t, c)
  PROVE  /\ cert[c].of = None
         /\ \A d \in Cert : cert'[d] = IF d = c THEN [status |-> "active", of |-> t] ELSE cert[d]
         /\ cert' \in [Cert -> [status : {"none", "active", "revoked"}, of : Txn \cup {None}]]
         /\ old' \in [Txn -> {"none", "active", "superseded"}]
         /\ \A s \in Txn \ {t} : old'[s] = old[s]
<1>1. cert[c].of = None
  BY DEF Certify, CmpInv, Unissued
<1>2. [status |-> "active", of |-> t] \in [status : {"none", "active", "revoked"},
                                         of : Txn \cup {None}]
  OBVIOUS
<1>3. /\ \A d \in Cert : cert'[d] = IF d = c THEN [status |-> "active", of |-> t] ELSE cert[d]
      /\ cert' \in [Cert -> [status : {"none", "active", "revoked"}, of : Txn \cup {None}]]
  BY <1>2 DEF Certify, CmpInv, CmpTypeOK
<1>4. /\ old' \in [Txn -> {"none", "active", "superseded"}]
      /\ \A s \in Txn \ {t} : old'[s] = old[s]
  BY DEF Certify, CmpInv, CmpTypeOK
<1> QED
  BY <1>1, <1>3, <1>4

\* The transaction's row, and where the answer brings the device.
LEMMA DeliverEffect ==
  ASSUME CmpInv, NEW h \in Thread, NEW t \in Txn, t = thread[h].of, NEW c \in Cert,
         Deliver(h, c)
  PROVE  /\ txn' \in [Txn -> TxnRow]
         /\ txn'[t] = [status |-> Delivered(t), cert |-> c]
         /\ \A s \in Txn \ {t} : txn'[s] = txn[s]
         /\ AnswerWith(h, IF t \in implicit THEN "done" ELSE "granted", c)
<1>1. [status |-> Delivered(t), cert |-> c] \in TxnRow
  BY DEF TxnRow, Delivered
<1>2. txn' = [txn EXCEPT ![t] = [status |-> Delivered(t), cert |-> c]]
  BY DEF Deliver, Delivered
<1>3. AnswerWith(h, IF t \in implicit THEN "done" ELSE "granted", c)
  BY DEF Deliver
<1> QED
  BY <1>1, <1>2, <1>3 DEF CmpInv, CmpTypeOK

\* The certificate is issued at once.
LEMMA EnrollStep ==
  ASSUME CmpInv, NEW h \in Thread, NEW c \in Cert, Enroll(h, c)
  PROVE  CmpInv'
<1>1. PICK t \in Txn : /\ t = thread[h].of /\ thread[h].msg \in device[t].sent
                       /\ thread[h].msg = "request"
  BY Busy DEF Enroll, MayAsk
<1>2. PICK at \in Reached : at = IF t \in implicit THEN "done" ELSE "granted"
  BY DEF Reached
<1>3. /\ txn[t].status = "none" /\ Certify(t, c) /\ Deliver(h, c)
      /\ UNCHANGED <<updates, implicit, deciding, twice, approval, late, sweep>>
  BY <1>1 DEF Enroll, NewRow, decisionVars
<1>4. /\ approval[t].status = "none" /\ NoneFor(t) /\ deciding[t] = {} /\ t \notin twice
      /\ RowsFit(t) /\ DeviceFit(t) /\ RefusalFit(t)
  BY <1>3 DEF CmpInv, RowsFit
<1>5. /\ txn' \in [Txn -> TxnRow]
      /\ txn'[t] = [status |-> Delivered(t), cert |-> c]
      /\ \A s \in Txn \ {t} : txn'[s] = txn[s]
      /\ AnswerWith(h, at, c)
  BY <1>1, <1>2, <1>3, DeliverEffect
<1>6. /\ cert[c].of = None
      /\ \A d \in Cert : cert'[d] = IF d = c THEN [status |-> "active", of |-> t] ELSE cert[d]
      /\ cert' \in [Cert -> [status : {"none", "active", "revoked"}, of : Txn \cup {None}]]
      /\ old' \in [Txn -> {"none", "active", "superseded"}]
      /\ \A s \in Txn \ {t} : old'[s] = old[s]
  BY <1>3, Certified
<1>7. OnlyFor(t, c)' /\ ~NoneFor(t)'
  BY <1>4, <1>6 DEF OnlyFor, NoneFor
<1>8. WritesCerts(t)
  BY <1>4, <1>6 DEF WritesCerts
<1>9. WritesRows(t)
  BY <1>3, <1>4, <1>5, <1>6 DEF WritesRows, CmpInv, CmpTypeOK, Delivered
<1>10. Owes(t, h, at, c)
  BY <1>1, <1>2, <1>4, <1>5, <1>7 DEF Owes, Delivered, DeviceFit, OnlyFor, NoneFor
<1>11. RowsFit(t)'
  BY <1>3, <1>4, <1>5, <1>7 DEF RowsFit, Delivered
<1> QED
  BY <1>1, <1>3, <1>5, <1>6, <1>8, <1>9, <1>10, <1>11, HandlerStep

\* A second person has to decide.
LEMMA AskApprovalStep ==
  ASSUME CmpInv, NEW h \in Thread, AskApproval(h)
  PROVE  CmpInv'
<1>1. PICK t \in Txn : /\ t = thread[h].of /\ thread[h].msg \in device[t].sent
                       /\ thread[h].msg = "request"
  BY Busy DEF AskApproval, MayAsk
<1>2. PICK c \in Cert \cup {None} : c = device[t].cert
  BY DEF CmpInv, CmpTypeOK
<1>. DEFINE new == [status |-> "pending", cert |-> None]
<1>3. /\ txn[t].status = "none"
      /\ txn' = [txn EXCEPT ![t] = new]
      /\ approval' = [approval EXCEPT ![t] = new]
      /\ AnswerWith(h, "poll", c)
      /\ UNCHANGED <<updates, implicit, deciding, twice, old, cert, late, sweep>>
  BY <1>1, <1>2 DEF AskApproval, NewRow, Answer, decisionVars
<1>4. /\ approval[t].status = "none" /\ NoneFor(t) /\ deciding[t] = {} /\ t \notin twice
      /\ RowsFit(t) /\ DeviceFit(t) /\ RefusalFit(t)
  BY <1>3 DEF CmpInv, RowsFit
<1>5. new \in TxnRow /\ new \in ApprovalRow
  BY DEF TxnRow, ApprovalRow
<1>6. /\ txn' \in [Txn -> TxnRow] /\ approval' \in [Txn -> ApprovalRow]
      /\ txn'[t].status = "pending" /\ approval'[t].status = "pending"
      /\ \A s \in Txn \ {t} : txn'[s] = txn[s] /\ approval'[s] = approval[s]
  BY <1>3, <1>5 DEF CmpInv, CmpTypeOK
<1>7. NoneFor(t)'
  BY <1>3, <1>4 DEF NoneFor
<1>8. WritesCerts(t)
  BY <1>3 DEF WritesCerts
<1>9. WritesRows(t)
  BY <1>3, <1>4, <1>6 DEF WritesRows, CmpInv, CmpTypeOK
<1>10. Owes(t, h, "poll", c)
  BY <1>1, <1>4 DEF Owes, DeviceFit, OnlyFor, NoneFor
<1>11. RowsFit(t)'
  BY <1>3, <1>4, <1>6, <1>7 DEF RowsFit
<1>12. "poll" \in Reached /\ cert' \in [Cert -> [status : {"none", "active", "revoked"},
                                               of : Txn \cup {None}]]
  BY <1>3 DEF Reached, CmpInv, CmpTypeOK
<1> QED
  BY <1>1, <1>3, <1>8, <1>9, <1>10, <1>11, <1>12, HandlerStep

\* A handler that writes nothing, and does not grant anything.
LEMMA AnswersOnly ==
  ASSUME CmpInv, NEW h \in Thread, NEW t \in Txn, t = thread[h].of,
         thread[h].msg \in device[t].sent, NEW at \in {"poll", "failed", "told"},
         Answer(h, at), at = "told" <=> thread[h].msg = "refuse",
         at = "poll" => thread[h].msg \notin {"accept", "refuse"},
         at = "told" /\ t \notin late \cup twice => Revoked(t),
         UNCHANGED <<updates, implicit, decisionVars, old, txn, approval, cert, late, sweep>>
  PROVE  CmpInv'
<1>1. PICK c \in Cert \cup {None} : c = device[t].cert
  BY DEF CmpInv, CmpTypeOK
<1>2. /\ txn' = txn /\ approval' = approval /\ old' = old /\ cert' = cert
      /\ UNCHANGED <<updates, implicit, deciding, twice, late, sweep>>
  BY DEF decisionVars
<1>3. AnswerWith(h, at, c) /\ at \in Reached
  BY <1>1 DEF Answer, Reached
<1>4. WritesCerts(t)
  BY <1>2 DEF WritesCerts
<1>5. WritesRows(t)
  BY <1>2 DEF WritesRows, CmpInv, CmpTypeOK
<1>6. Revoked(t)' <=> Revoked(t)
  BY <1>2 DEF Revoked
<1>7. Owes(t, h, at, c)
  BY <1>1, <1>2, <1>6 DEF Owes, CmpInv, RefusalFit
<1>8. RowsFit(t)'
  BY <1>2 DEF CmpInv, RowsFit, NoneFor, OnlyFor
<1>9. cert' \in [Cert -> [status : {"none", "active", "revoked"}, of : Txn \cup {None}]]
  BY <1>2 DEF CmpInv, CmpTypeOK
<1> QED
  BY <1>2, <1>3, <1>4, <1>5, <1>7, <1>8, <1>9, HandlerStep

\* The request is refused.
LEMMA RequestFailsStep ==
  ASSUME CmpInv, NEW h \in Thread, RequestFails(h)
  PROVE  CmpInv'
<1>1. PICK t \in Txn : /\ t = thread[h].of /\ thread[h].msg \in device[t].sent
                       /\ thread[h].msg = "request"
  BY Busy DEF RequestFails
<1> QED
  BY <1>1, AnswersOnly DEF RequestFails

\* A handler that writes its transaction's row, and issues nothing.
LEMMA RowWritten ==
  ASSUME CmpInv, NEW t \in Txn, NEW row \in TxnRow, row.status # "none",
         txn' = [txn EXCEPT ![t] = row], UNCHANGED <<approval, old>>
  PROVE  WritesRows(t) /\ txn'[t] = row
<1>1. txn' \in [Txn -> TxnRow] /\ txn'[t] = row /\ \A s \in Txn \ {t} : txn'[s] = txn[s]
  BY DEF CmpInv, CmpTypeOK
<1> QED
  BY <1>1 DEF WritesRows, CmpInv, CmpTypeOK

\* A poll, after the request was rejected,
LEMMA PollRejected ==
  ASSUME CmpInv, NEW h \in Thread, Poll(h), thread[h].approval.status = "rejected"
  PROVE  CmpInv'
<1>1. PICK t \in Txn : /\ t = thread[h].of /\ thread[h].msg \in device[t].sent
                       /\ thread[h].msg = "poll" /\ ThreadFit(h) /\ thread[h] # Free
  BY Busy DEF Poll
<1>2. PICK c \in Cert \cup {None} : c = device[t].cert
  BY DEF CmpInv, CmpTypeOK
<1>3. PICK row \in TxnRow : row.status = "rejected" /\ txn' = [txn EXCEPT ![t] = row]
  <2>1. txn' = [txn EXCEPT ![t] = [txn[t] EXCEPT !.status = "rejected"]]
    BY <1>1 DEF Poll
  <2>2. [txn[t] EXCEPT !.status = "rejected"] \in TxnRow
    BY DEF TxnRow, CmpInv, CmpTypeOK
  <2>3. [txn[t] EXCEPT !.status = "rejected"].status = "rejected"
    BY DEF TxnRow, CmpInv, CmpTypeOK
  <2> QED
    BY <2>1, <2>2, <2>3
<1>4. /\ UNCHANGED <<updates, implicit, deciding, twice, old, approval, cert, late, sweep>>
      /\ AnswerWith(h, "failed", c) /\ "failed" \in Reached
  BY <1>1, <1>2 DEF Poll, Answer, decisionVars, Reached
<1>5. WritesRows(t) /\ txn'[t].status = "rejected"
  BY <1>3, <1>4, RowWritten
<1>6. WritesCerts(t)
  BY <1>4 DEF WritesCerts
<1>7. RowsFit(t) /\ DeviceFit(t)
  BY DEF CmpInv
<1>8. t \in twice \/ (NoneFor(t) /\ approval[t].status = "rejected")
  BY <1>1, <1>7 DEF ThreadFit, RowsFit
<1>9. RowsFit(t)'
  BY <1>4, <1>5, <1>7, <1>8 DEF RowsFit, NoneFor, OnlyFor
<1>10. Owes(t, h, "failed", c)
  BY <1>1, <1>7, <1>8 DEF Owes, DeviceFit, OnlyFor, NoneFor
<1>11. cert' \in [Cert -> [status : {"none", "active", "revoked"}, of : Txn \cup {None}]]
  BY <1>4 DEF CmpInv, CmpTypeOK
<1> QED
  BY <1>1, <1>4, <1>5, <1>6, <1>9, <1>10, <1>11, HandlerStep

\* and after it was approved.
LEMMA PollDelivers ==
  ASSUME CmpInv, NEW h \in Thread, Poll(h), thread[h].approval.status = "approved"
  PROVE  CmpInv'
<1>1. PICK t \in Txn : /\ t = thread[h].of /\ thread[h].msg \in device[t].sent
                       /\ thread[h].msg = "poll" /\ ThreadFit(h) /\ thread[h] # Free
  BY Busy DEF Poll
<1>2. PICK c \in Cert : c = thread[h].approval.cert /\ OnlyFor(t, c)
  BY <1>1 DEF ThreadFit, OnlyFor
<1>3. PICK at \in Reached : at = IF t \in implicit THEN "done" ELSE "granted"
  BY DEF Reached
<1>4. /\ UNCHANGED <<updates, implicit, deciding, twice, old, approval, cert, late, sweep>>
      /\ Deliver(h, c)
  BY <1>1, <1>2 DEF Poll, decisionVars
<1>5. /\ txn' \in [Txn -> TxnRow]
      /\ txn'[t] = [status |-> Delivered(t), cert |-> c]
      /\ \A s \in Txn \ {t} : txn'[s] = txn[s]
      /\ AnswerWith(h, at, c)
  BY <1>1, <1>3, <1>4, DeliverEffect
<1>6. OnlyFor(t, c)'
  BY <1>2, <1>4 DEF OnlyFor
<1>7. RowsFit(t) /\ DeviceFit(t)
  BY DEF CmpInv
<1>8. WritesCerts(t) /\ WritesRows(t)
  BY <1>4, <1>5 DEF WritesCerts, WritesRows, CmpInv, CmpTypeOK, Delivered
<1>9. t \in twice \/ approval[t].status = "approved"
  BY <1>1 DEF ThreadFit
<1>10. RowsFit(t)'
  BY <1>4, <1>5, <1>6, <1>7, <1>9 DEF RowsFit, NoneFor, OnlyFor, Delivered
<1>11. Owes(t, h, at, c)
  BY <1>1, <1>3, <1>5, <1>6, <1>7 DEF Owes, DeviceFit, Delivered
<1>12. cert' \in [Cert -> [status : {"none", "active", "revoked"}, of : Txn \cup {None}]]
  BY <1>4 DEF CmpInv, CmpTypeOK
<1> QED
  BY <1>1, <1>4, <1>5, <1>8, <1>10, <1>11, <1>12, HandlerStep

\* handle_poll, from its cases; while nobody has decided it writes nothing.
LEMMA PollStep ==
  ASSUME CmpInv, NEW h \in Thread, Poll(h)
  PROVE  CmpInv'
<1>1. PICK t \in Txn : /\ t = thread[h].of /\ thread[h].msg \in device[t].sent
                       /\ thread[h].msg = "poll"
  BY Busy DEF Poll
<1>2. CASE thread[h].approval.status = "pending"
  <2>1. /\ Answer(h, "poll")
        /\ UNCHANGED <<updates, implicit, decisionVars, old, txn, approval, cert, late, sweep>>
    BY <1>2 DEF Poll
  <2> QED
    BY <1>1, <2>1, AnswersOnly
<1> QED
  BY <1>2, PollRejected, PollDelivers DEF Poll

\* certConf: what the thread has loaded is of this transaction.
LEMMA ConfirmLoads ==
  ASSUME CmpInv, NEW h \in Thread, thread[h].txn.status = "waiting_conf",
         thread[h].msg \in {"accept", "refuse"}
  PROVE  \E t \in Txn, c \in Cert :
           /\ t = thread[h].of /\ c = thread[h].txn.cert
           /\ thread[h].msg \in device[t].sent /\ OnlyFor(t, c)
BY Busy DEF ThreadFit, OnlyFor

\* The device accepts,
LEMMA Accepts ==
  ASSUME CmpInv, NEW h \in Thread, Confirm(h), thread[h].msg = "accept"
  PROVE  CmpInv'
<1>1. PICK t \in Txn, c \in Cert :
        /\ t = thread[h].of /\ c = thread[h].txn.cert
        /\ thread[h].msg \in device[t].sent /\ OnlyFor(t, c)
  BY ConfirmLoads DEF Confirm
<1>2. PICK row \in TxnRow : /\ row.status = "confirmed" /\ row.cert = txn[t].cert
                            /\ txn' = [txn EXCEPT ![t] = row]
  <2>1. txn' = [txn EXCEPT ![t] = [txn[t] EXCEPT !.status = "confirmed"]]
    BY <1>1 DEF Confirm
  <2>2. /\ [txn[t] EXCEPT !.status = "confirmed"] \in TxnRow
        /\ [txn[t] EXCEPT !.status = "confirmed"].status = "confirmed"
        /\ [txn[t] EXCEPT !.status = "confirmed"].cert = txn[t].cert
    BY SMTT(60) DEF TxnRow, CmpInv, CmpTypeOK
  <2> QED
    BY <2>1, <2>2
<1>3. /\ UNCHANGED <<updates, implicit, deciding, twice, old, approval, cert, late, sweep>>
      /\ AnswerWith(h, "done", c) /\ "done" \in Reached /\ c = device[t].cert
  BY <1>1 DEF Confirm, Answer, decisionVars, Reached
<1>4. WritesRows(t) /\ txn'[t].status = "confirmed" /\ txn'[t].cert = txn[t].cert
  BY <1>2, <1>3, RowWritten
<1>5. WritesCerts(t)
  BY <1>3 DEF WritesCerts
<1>6. RowsFit(t) /\ DeviceFit(t)
  BY DEF CmpInv
<1>7. txn[t].status # "none"
  BY <1>1, <1>6 DEF RowsFit, OnlyFor, NoneFor
<1>8. RowsFit(t)'
  BY <1>3, <1>4, <1>6, <1>7 DEF RowsFit, NoneFor, OnlyFor
<1>9. Owes(t, h, "done", c)
  BY <1>1, <1>3, <1>6 DEF Owes, DeviceFit
<1>10. cert' \in [Cert -> [status : {"none", "active", "revoked"}, of : Txn \cup {None}]]
  BY <1>3 DEF CmpInv, CmpTypeOK
<1> QED
  BY <1>1, <1>3, <1>4, <1>5, <1>8, <1>9, <1>10, HandlerStep

\* or refuses.
LEMMA Refuses ==
  ASSUME CmpInv, NEW h \in Thread, Confirm(h), thread[h].msg = "refuse",
         cert[thread[h].txn.cert].status = "active"
  PROVE  CmpInv'
<1>1. PICK t \in Txn, c \in Cert :
        /\ t = thread[h].of /\ c = thread[h].txn.cert
        /\ thread[h].msg \in device[t].sent /\ OnlyFor(t, c)
  BY ConfirmLoads DEF Confirm
<1>2. PICK row \in TxnRow : /\ row.status = "rejected" /\ row.cert = txn[t].cert
                            /\ txn' = [txn EXCEPT ![t] = row]
  <2>1. txn' = [txn EXCEPT ![t] = [txn[t] EXCEPT !.status = "rejected"]]
    BY <1>1 DEF Confirm
  <2>2. /\ [txn[t] EXCEPT !.status = "rejected"] \in TxnRow
        /\ [txn[t] EXCEPT !.status = "rejected"].status = "rejected"
        /\ [txn[t] EXCEPT !.status = "rejected"].cert = txn[t].cert
    BY DEF TxnRow, CmpInv, CmpTypeOK
  <2> QED
    BY <2>1, <2>2
<1>3. PICK d \in Cert \cup {None} : d = device[t].cert
  BY DEF CmpInv, CmpTypeOK
<1>4. /\ UNCHANGED <<updates, implicit, deciding, twice, old, approval, late, sweep>>
      /\ AnswerWith(h, "told", d) /\ "told" \in Reached
      /\ cert' = [cert EXCEPT ![c].status = "revoked"]
  BY <1>1, <1>3 DEF Confirm, Answer, decisionVars, Reached
<1>5. /\ \A e \in Cert : /\ cert'[e].of = cert[e].of
                         /\ e = c => cert'[e].status = "revoked"
                         /\ e # c => cert'[e] = cert[e]
      /\ cert' \in [Cert -> [status : {"none", "active", "revoked"}, of : Txn \cup {None}]]
  BY <1>4 DEF CmpInv, CmpTypeOK
<1>6. WritesRows(t) /\ txn'[t].status = "rejected" /\ txn'[t].cert = txn[t].cert
  BY <1>2, <1>4, RowWritten
<1>7. WritesCerts(t)
  BY <1>1, <1>5 DEF WritesCerts, OnlyFor
<1>8. RowsFit(t) /\ DeviceFit(t)
  BY DEF CmpInv
<1>9. txn[t].status # "none"
  BY <1>1, <1>8, SMTT(60) DEF RowsFit, OnlyFor, NoneFor
<1>10. /\ NoneFor(t)' <=> NoneFor(t)
       /\ \A e : OnlyFor(t, e) => OnlyFor(t, e)'
       /\ t \notin twice => Revoked(t)'
  BY <1>1, <1>4, <1>5 DEF OnlyFor, NoneFor, Revoked
<1>11. RowsFit(t)'
  BY <1>4, <1>6, <1>8, <1>9, <1>10 DEF RowsFit
<1>12. Owes(t, h, "told", d)
  BY <1>1, <1>3, <1>8, <1>10, SMTT(60) DEF Owes, DeviceFit
<1> QED
  BY <1>1, <1>4, <1>5, <1>6, <1>7, <1>11, <1>12, HandlerStep

\* handle_cert_conf, from its cases; what is revoked already it leaves alone.
LEMMA ConfirmStep ==
  ASSUME CmpInv, NEW h \in Thread, Confirm(h)
  PROVE  CmpInv'
<1>1. CASE thread[h].msg = "refuse" /\ cert[thread[h].txn.cert].status = "revoked"
  <2>1. PICK t \in Txn, c \in Cert :
          /\ t = thread[h].of /\ c = thread[h].txn.cert
          /\ thread[h].msg \in device[t].sent /\ OnlyFor(t, c)
    BY <1>1, ConfirmLoads DEF Confirm
  <2>2. /\ Answer(h, "told")
        /\ UNCHANGED <<updates, implicit, decisionVars, old, txn, approval, cert, late, sweep>>
    BY <1>1 DEF Confirm
  <2>3. t \notin twice => Revoked(t)
    BY <1>1, <2>1 DEF OnlyFor, Revoked
  <2> QED
    BY <1>1, <2>1, <2>2, <2>3, AnswersOnly
<1> QED
  BY <1>1, Accepts, Refuses DEF Confirm

\* A hash of another certificate: the transaction was decided twice.
LEMMA OtherHashStep ==
  ASSUME CmpInv, NEW h \in Thread, OtherHash(h)
  PROVE  CmpInv'
<1>1. PICK t \in Txn, c \in Cert :
        /\ t = thread[h].of /\ c = thread[h].txn.cert
        /\ thread[h].msg \in device[t].sent /\ OnlyFor(t, c)
  BY ConfirmLoads DEF OtherHash
<1>2. OnlyFor(t, device[t].cert) /\ device[t].cert # c
  BY <1>1 DEF OtherHash, CmpInv, DeviceFit
<1>3. t \in twice
  BY <1>1, <1>2 DEF OnlyFor
<1>4. Error(h) \in {"failed", "told"} /\ (Error(h) = "told" <=> thread[h].msg = "refuse")
  BY DEF Error
<1> QED
  BY <1>1, <1>3, <1>4, AnswersOnly DEF OtherHash

\* Nothing is pending, or waits for confirmation.
LEMMA OutOfPlaceStep ==
  ASSUME CmpInv, NEW h \in Thread, OutOfPlace(h)
  PROVE  CmpInv'
<1>1. PICK t \in Txn : /\ t = thread[h].of /\ thread[h].msg \in device[t].sent
                       /\ ThreadFit(h) /\ thread[h] # Free
  BY Busy DEF OutOfPlace
<1>2. Error(h) \in {"failed", "told"} /\ (Error(h) = "told" <=> thread[h].msg = "refuse")
  BY DEF Error
<1>3. thread[h].msg = "refuse" /\ t \notin late \cup twice => Revoked(t)
  BY <1>1 DEF OutOfPlace, ThreadFit
<1> QED
  BY <1>1, <1>2, <1>3, AnswersOnly DEF OutOfPlace

-----------------------------------------------------------------------------
(* So do devices, threads, approvers, housekeeping and the clock *)

\* A device sends something.
LEMMA SendStep ==
  ASSUME CmpInv, NEW t \in Txn, NEW m \in Message, NEW c \in Cert \cup {None}, Send(t, m, c),
         \/ device[t].at = "new" /\ m = "request"
         \/ device[t].at = "granted" /\ m \in {"accept", "refuse"} /\ c = device[t].cert,
         UNCHANGED <<updates, implicit, decisionVars, old, txn, approval, cert, late, thread, sweep>>
  PROVE  CmpInv'
<1>1. /\ device' \in [Txn -> DeviceRow]
      /\ device'[t] = [at |-> m, cert |-> c, sent |-> device[t].sent \cup {m}]
      /\ \A s \in Txn \ {t} : device'[s] = device[s]
  <2>1. device' = [device EXCEPT ![t] =
          [at |-> m, cert |-> c, sent |-> device[t].sent \cup ({m} \cap Message)]]
    BY DEF Send
  <2>2. {m} \cap Message = {m}
    OBVIOUS
  <2>3. [at |-> m, cert |-> c, sent |-> device[t].sent \cup {m}] \in DeviceRow
    BY DEF DeviceRow, At, CmpInv, CmpTypeOK
  <2> QED
    BY <2>1, <2>2, <2>3 DEF CmpInv, CmpTypeOK, DeviceRow
<1>2. /\ UNCHANGED <<updates, implicit, deciding, twice>>
      /\ UNCHANGED <<old, txn, approval, cert, late, thread, sweep>>
  BY DEF decisionVars
<1>3. CmpTypeOK' /\ Unissued' /\ SweepLate'
  BY <1>1, <1>2 DEF CmpInv, CmpTypeOK, DeviceRow, Unissued, SweepLate
<1>4. /\ NoneFor(t)' <=> NoneFor(t)
      /\ \A d : OnlyFor(t, d)' <=> OnlyFor(t, d)
      /\ Revoked(t)' <=> Revoked(t)
  BY <1>2 DEF NoneFor, OnlyFor, Revoked
<1>5. OnlyTouches(t) /\ Carries(t)
  BY <1>1, <1>2, <1>4 DEF OnlyTouches, Carries
<1>6. RowsFit(t) /\ DeviceFit(t) /\ RefusalFit(t)
  BY DEF CmpInv
<1>7. RowsFit(t)'
  BY <1>2, <1>4, <1>6 DEF RowsFit
<1>8. DeviceFit(t)'
  BY <1>1, <1>2, <1>4, <1>6 DEF DeviceFit
<1>9. RefusalFit(t)'
  BY <1>1, <1>2, <1>4, <1>6 DEF RefusalFit, DeviceFit
<1> QED
  BY <1>2, <1>3, <1>5, <1>7, <1>8, <1>9, StepOfOne

LEMMA DeviceStep ==
  ASSUME CmpInv, NEW t \in Txn, Device(t)
  PROVE  CmpInv'
<1>1. device[t].cert \in Cert \cup {None}
  BY DEF CmpInv, CmpTypeOK
<1>2. CASE Start(t)
  BY <1>1, <1>2, SendStep DEF Start, Message
<1>3. ASSUME NEW m \in Message, Judge(t, m) PROVE CmpInv'
  BY <1>1, <1>3, SendStep DEF Judge
<1> QED
  BY <1>2, <1>3 DEF Device

\* What nobody has written is as it was.
LEMMA Rests ==
  ASSUME CmpInv, NEW t \in Txn,
         UNCHANGED <<implicit, device, old, txn, approval, decisionVars, cert, late>>
  PROVE  /\ OnlyTouches(t) /\ Carries(t)
         /\ RowsFit(t)' /\ DeviceFit(t)' /\ RefusalFit(t)'
<1>1. UNCHANGED <<implicit, device, old, txn, approval, deciding, twice, cert, late>>
  BY DEF decisionVars
<1>2. /\ NoneFor(t)' <=> NoneFor(t)
      /\ \A d : OnlyFor(t, d)' <=> OnlyFor(t, d)
      /\ Revoked(t)' <=> Revoked(t)
  BY <1>1 DEF NoneFor, OnlyFor, Revoked
<1>3. RowsFit(t) /\ DeviceFit(t) /\ RefusalFit(t)
  BY DEF CmpInv
<1> QED
  BY <1>1, <1>2, <1>3 DEF OnlyTouches, Carries, RowsFit, DeviceFit, RefusalFit

LEMMA LoadStep ==
  ASSUME CmpInv, NEW h \in Thread, NEW t \in Txn, NEW m \in Message, Load(h, t, m)
  PROVE  CmpInv'
<1>1. UNCHANGED <<updates, implicit, decisionVars, device, old, txn, approval, cert, late, sweep>>
  BY DEF Load
<1>2. OnlyTouches(t) /\ Carries(t) /\ RowsFit(t)' /\ DeviceFit(t)' /\ RefusalFit(t)'
  BY <1>1, Rests
<1>3. PICK row \in ThreadRow :
        /\ row = [of |-> t, msg |-> m, txn |-> txn[t], approval |-> approval[t], old |-> old[t]]
        /\ thread' = [thread EXCEPT ![h] = row]
  BY DEF Load, ThreadRow, CmpInv, CmpTypeOK
<1>4. thread' \in [Thread -> ThreadRow] /\ thread'[h] = row
      /\ \A g \in Thread \ {h} : thread'[g] = thread[g]
  BY <1>3 DEF CmpInv, CmpTypeOK, ThreadRow
<1>5. CmpTypeOK' /\ Unissued' /\ SweepLate'
  BY <1>1, <1>4 DEF CmpInv, CmpTypeOK, ThreadRow, decisionVars, Unissued, SweepLate
<1>6. m \in device'[t].sent
  BY <1>1 DEF Load
<1>7. ThreadFit(h)'
  BY <1>1, <1>2, <1>3, <1>4, <1>6 DEF ThreadFit, RowsFit, RefusalFit
<1> QED
  BY <1>2, <1>4, <1>5, <1>7, StepOfOne

LEMMA CrashStep ==
  ASSUME CmpInv, NEW h \in Thread, Crash(h)
  PROVE  CmpInv'
<1>1. UNCHANGED <<updates, implicit, decisionVars, device, old, txn, approval, cert, late, sweep>>
  BY DEF Crash
<1>2. PICK t \in Txn : t = thread[h].of
  BY DEF Crash, CmpInv, ThreadFit
<1>3. OnlyTouches(t) /\ Carries(t) /\ RowsFit(t)' /\ DeviceFit(t)' /\ RefusalFit(t)'
  BY <1>1, Rests
<1>4. Free \in ThreadRow
  BY DEF ThreadRow, Free, NoRow, TxnRow, ApprovalRow
<1>5. thread' \in [Thread -> ThreadRow] /\ thread'[h] = Free
      /\ \A g \in Thread \ {h} : thread'[g] = thread[g]
  BY <1>4 DEF Crash, CmpInv, CmpTypeOK, ThreadRow
<1>6. CmpTypeOK' /\ Unissued' /\ SweepLate'
  BY <1>1, <1>5 DEF CmpInv, CmpTypeOK, ThreadRow, decisionVars, Unissued, SweepLate
<1>7. ThreadFit(h)'
  BY <1>5 DEF ThreadFit
<1> QED
  BY <1>3, <1>5, <1>6, <1>7, StepOfOne

\* A call of decide loads the approval, or fails.
LEMMA DecidingStep ==
  ASSUME CmpInv, NEW t \in Txn, NEW a \in Decider, Decide(t, a) \/ DecisionFails(t, a)
  PROVE  CmpInv'
<1>1. /\ UNCHANGED <<updates, implicit, device, old, txn, approval, twice>>
      /\ UNCHANGED <<cert, late, thread, sweep>>
  BY DEF Decide, DecisionFails
<1>2. /\ deciding' \in [Txn -> SUBSET Decider]
      /\ \A s \in Txn \ {t} : deciding'[s] = deciding[s]
      /\ deciding[t] = {} => approval[t].status # "none"
  BY DEF Decide, DecisionFails, CmpInv, CmpTypeOK
<1>3. CmpTypeOK' /\ Unissued' /\ SweepLate'
  BY <1>1, <1>2 DEF CmpInv, CmpTypeOK, Unissued, SweepLate
<1>4. /\ NoneFor(t)' <=> NoneFor(t)
      /\ \A d : OnlyFor(t, d)' <=> OnlyFor(t, d)
      /\ Revoked(t)' <=> Revoked(t)
  BY <1>1 DEF NoneFor, OnlyFor, Revoked
<1>5. OnlyTouches(t) /\ Carries(t)
  BY <1>1, <1>2, <1>4 DEF OnlyTouches, Carries
<1>6. RowsFit(t) /\ DeviceFit(t) /\ RefusalFit(t)
  BY DEF CmpInv
<1>7. RowsFit(t)'
  BY <1>1, <1>2, <1>4, <1>6 DEF RowsFit
<1>8. DeviceFit(t)' /\ RefusalFit(t)'
  BY <1>1, <1>4, <1>6 DEF DeviceFit, RefusalFit
<1> QED
  BY <1>1, <1>3, <1>5, <1>7, <1>8, StepOfOne

\* What a decision writes; one of a transaction that is not decided twice is its first.
LEMMA DecidedEffect ==
  ASSUME CmpInv, NEW t \in Txn, NEW a, NEW row \in ApprovalRow, Decided(t, a, row)
  PROVE  /\ approval' \in [Txn -> ApprovalRow] /\ approval'[t] = row
         /\ deciding' \in [Txn -> SUBSET Decider]
         /\ \A s \in Txn \ {t} : approval'[s] = approval[s] /\ deciding'[s] = deciding[s]
         /\ twice' \in {twice, twice \cup {t}}
         /\ t \notin twice' => /\ approval[t].status = "pending"
                               /\ t \notin twice /\ NoneFor(t) /\ "refuse" \notin device[t].sent
         /\ txn[t].status # "none" /\ approval[t].status # "none"
<1>1. /\ approval' \in [Txn -> ApprovalRow] /\ approval'[t] = row
      /\ deciding' \in [Txn -> SUBSET Decider]
      /\ \A s \in Txn \ {t} : approval'[s] = approval[s] /\ deciding'[s] = deciding[s]
  BY DEF Decided, CmpInv, CmpTypeOK
<1>2. RowsFit(t) /\ DeviceFit(t)
  BY DEF CmpInv
<1>3. /\ twice' \in {twice, twice \cup {t}}
      /\ t \notin twice' => t \notin twice /\ approval[t].status = "pending"
  BY DEF Decided
<1>4. txn[t].status # "none" /\ approval[t].status # "none"
  BY <1>2 DEF Decided, RowsFit
<1>5. approval[t].status = "pending" => NoneFor(t) /\ "refuse" \notin device[t].sent
  BY <1>2 DEF RowsFit, DeviceFit, OnlyFor, NoneFor
<1> QED
  BY <1>1, <1>3, <1>4, <1>5

\* The certificate is issued; nothing that a thread knows of the transaction ends.
LEMMA ApproveStep ==
  ASSUME CmpInv, NEW t \in Txn, NEW a \in Decider, NEW c \in Cert, Approve(t, a, c)
  PROVE  CmpInv'
<1>. DEFINE row == [status |-> "approved", cert |-> c]
<1>1. /\ Decided(t, a, row) /\ Certify(t, c) /\ row \in ApprovalRow
      /\ UNCHANGED <<updates, implicit, device, txn, late, thread, sweep>>
  BY DEF Approve, ApprovalRow
<1>2. /\ approval' \in [Txn -> ApprovalRow] /\ approval'[t] = row
      /\ deciding' \in [Txn -> SUBSET Decider]
      /\ \A s \in Txn \ {t} : approval'[s] = approval[s] /\ deciding'[s] = deciding[s]
      /\ twice' \in {twice, twice \cup {t}}
      /\ t \notin twice' => /\ approval[t].status = "pending"
                            /\ t \notin twice /\ NoneFor(t) /\ "refuse" \notin device[t].sent
      /\ txn[t].status # "none"
  BY <1>1, DecidedEffect
<1>3. /\ cert[c].of = None
      /\ \A d \in Cert : cert'[d] = IF d = c THEN [status |-> "active", of |-> t] ELSE cert[d]
      /\ cert' \in [Cert -> [status : {"none", "active", "revoked"}, of : Txn \cup {None}]]
      /\ old' \in [Txn -> {"none", "active", "superseded"}]
      /\ \A s \in Txn \ {t} : old'[s] = old[s]
  BY <1>1, Certified
<1>4. /\ OnlyFor(t, c)' /\ ~NoneFor(t)'
      /\ \A d \in Cert : OnlyFor(t, d) => OnlyFor(t, d)'
  BY <1>2, <1>3 DEF OnlyFor, NoneFor
<1>5. CmpTypeOK'
  BY <1>1, <1>2, <1>3 DEF CmpInv, CmpTypeOK
<1>6. Unissued' /\ SweepLate'
  BY <1>1, <1>3 DEF CmpInv, Unissued, SweepLate
<1>7. OnlyTouches(t)
  BY <1>1, <1>2, <1>3 DEF OnlyTouches
<1>8. Carries(t)
  BY <1>1, <1>2, <1>4 DEF Carries
<1>9. RowsFit(t) /\ DeviceFit(t) /\ RefusalFit(t)
  BY DEF CmpInv
<1>10. RowsFit(t)'
  BY <1>1, <1>2, <1>4, <1>9 DEF RowsFit, OnlyFor
<1>11. DeviceFit(t)'
  BY <1>1, <1>3, <1>4, <1>9 DEF DeviceFit, OnlyFor
<1>12. RefusalFit(t)'
  BY <1>1, <1>2, <1>9 DEF RefusalFit, DeviceFit
<1> QED
  BY <1>1, <1>5, <1>6, <1>7, <1>8, <1>10, <1>11, <1>12, StepOfOne

LEMMA DisapproveStep ==
  ASSUME CmpInv, NEW t \in Txn, NEW a \in Decider, Disapprove(t, a)
  PROVE  CmpInv'
<1>1. PICK row \in ApprovalRow : row.status = "rejected" /\ Decided(t, a, row)
  <2>1. /\ [status |-> "rejected", cert |-> approval[t].cert] \in ApprovalRow
        /\ [status |-> "rejected", cert |-> approval[t].cert].status = "rejected"
    BY DEF ApprovalRow, CmpInv, CmpTypeOK
  <2> QED
    BY <2>1 DEF Disapprove
<1>2. UNCHANGED <<updates, implicit, device, old, txn, cert, late, thread, sweep>>
  BY DEF Disapprove
<1>3. /\ approval' \in [Txn -> ApprovalRow] /\ approval'[t] = row
      /\ deciding' \in [Txn -> SUBSET Decider]
      /\ \A s \in Txn \ {t} : approval'[s] = approval[s] /\ deciding'[s] = deciding[s]
      /\ twice' \in {twice, twice \cup {t}}
      /\ t \notin twice' => /\ approval[t].status = "pending"
                            /\ t \notin twice /\ NoneFor(t) /\ "refuse" \notin device[t].sent
      /\ txn[t].status # "none"
  BY <1>1, DecidedEffect
<1>4. /\ NoneFor(t)' <=> NoneFor(t)
      /\ \A d : OnlyFor(t, d) => OnlyFor(t, d)'
      /\ Revoked(t)' <=> Revoked(t)
  BY <1>2, <1>3 DEF NoneFor, OnlyFor, Revoked
<1>5. CmpTypeOK'
  BY <1>2, <1>3 DEF CmpInv, CmpTypeOK
<1>6. Unissued' /\ SweepLate'
  BY <1>2 DEF CmpInv, Unissued, SweepLate
<1>7. OnlyTouches(t) /\ Carries(t)
  BY <1>2, <1>3, <1>4 DEF OnlyTouches, Carries
<1>8. RowsFit(t) /\ DeviceFit(t) /\ RefusalFit(t)
  BY DEF CmpInv
<1>9. RowsFit(t)'
  BY <1>1, <1>2, <1>3, <1>4, <1>8 DEF RowsFit
<1>10. DeviceFit(t)'
  BY <1>2, <1>4, <1>8 DEF DeviceFit
<1>11. RefusalFit(t)'
  BY <1>2, <1>3, <1>4, <1>8 DEF RefusalFit
<1> QED
  BY <1>2, <1>5, <1>6, <1>7, <1>9, <1>10, <1>11, StepOfOne

LEMMA DecisionStep ==
  ASSUME CmpInv, NEW t \in Txn, NEW a \in Decider, Decision(t, a)
  PROVE  CmpInv'
BY DecidingStep, ApproveStep, DisapproveStep DEF Decision

LEMMA QuarterHourStep ==
  ASSUME CmpInv, NEW t \in Txn, QuarterHour(t)
  PROVE  CmpInv'
<1>1. /\ UNCHANGED <<updates, implicit, device, old, txn, approval, deciding, twice>>
      /\ UNCHANGED <<cert, thread, sweep>>
      /\ late' = late \cup {t} /\ txn[t].status # "none"
  BY DEF QuarterHour, decisionVars
<1>2. CmpTypeOK' /\ Unissued' /\ SweepLate'
  BY <1>1 DEF CmpInv, CmpTypeOK, Unissued, SweepLate
<1>3. /\ NoneFor(t)' <=> NoneFor(t)
      /\ \A d : OnlyFor(t, d)' <=> OnlyFor(t, d)
      /\ Revoked(t)' <=> Revoked(t)
  BY <1>1 DEF NoneFor, OnlyFor, Revoked
<1>4. OnlyTouches(t) /\ Carries(t)
  BY <1>1, <1>3 DEF OnlyTouches, Carries
<1>5. RowsFit(t) /\ DeviceFit(t) /\ RefusalFit(t)
  BY DEF CmpInv
<1>6. RowsFit(t)' /\ DeviceFit(t)' /\ RefusalFit(t)'
  BY <1>1, <1>3, <1>5 DEF RowsFit, DeviceFit, RefusalFit
<1> QED
  BY <1>1, <1>2, <1>4, <1>6, StepOfOne

LEMMA FindStep ==
  ASSUME CmpInv, Find
  PROVE  CmpInv'
<1>1. UNCHANGED <<updates, implicit, decisionVars, device, old, txn, approval, cert, late, thread>>
  BY DEF Find
<1>2. CmpTypeOK' /\ Unissued' /\ SweepLate'
  BY <1>1 DEF CmpInv, CmpTypeOK, decisionVars, Unissued, SweepLate, Find, Unconfirmed
<1>3. \A t \in Txn : RowsFit(t)' /\ DeviceFit(t)' /\ RefusalFit(t)'
  BY <1>1, Rests
<1>4. ASSUME NEW g \in Thread PROVE ThreadFit(g)'
  BY <1>1 DEF CmpInv, ThreadFit, OnlyFor, Revoked, decisionVars
<1> QED
  BY <1>2, <1>3, <1>4 DEF CmpInv

\* Only transactions that are late are found, and only those that still waited.
LEMMA ExpireFoundStep ==
  ASSUME CmpInv, ExpireFound
  PROVE  CmpInv'
<1>0. CmpTypeOK
  BY DEF CmpInv
<1>1. /\ UNCHANGED <<updates, implicit, device, old, approval, deciding, twice>>
      /\ UNCHANGED <<cert, late, thread>> /\ sweep' = {}
  BY DEF ExpireFound, decisionVars
<1>2. txn' \in [Txn -> TxnRow]
  <2>1. CASE UNCHANGED txn
    BY <1>0, <2>1 DEF CmpTypeOK
  <2>2. CASE txn' = [t \in Txn |-> IF t \in sweep THEN [txn[t] EXCEPT !.status = "expired"]
                                   ELSE txn[t]]
    <3>1. ASSUME NEW t \in Txn PROVE [txn[t] EXCEPT !.status = "expired"] \in TxnRow
      BY <1>0, SMTT(60) DEF CmpTypeOK, TxnRow
    <3> QED BY <1>0, <2>2, <3>1 DEF CmpTypeOK
  <2> QED BY <2>1, <2>2 DEF ExpireFound
<1>3. \A s \in Txn : \/ txn'[s] = txn[s]
                     \/ s \in sweep /\ txn'[s].status = "expired" /\ txn'[s].cert = txn[s].cert
  BY <1>0 DEF ExpireFound, CmpTypeOK, TxnRow
<1>4. CmpTypeOK'
  BY <1>0, <1>1, <1>2 DEF CmpTypeOK
<1>5. Unissued' /\ SweepLate'
  BY <1>0, <1>1, <1>3 DEF CmpInv, CmpTypeOK, Unissued, SweepLate
<1>6. ASSUME NEW s \in Txn PROVE RowsFit(s)'
  BY <1>0, <1>1, <1>3 DEF CmpInv, CmpTypeOK, SweepLate, RowsFit, NoneFor, OnlyFor
<1>7. ASSUME NEW s \in Txn PROVE DeviceFit(s)'
  BY <1>1 DEF CmpInv, DeviceFit, OnlyFor
<1>8. ASSUME NEW s \in Txn PROVE RefusalFit(s)'
  BY <1>1, <1>3 DEF CmpInv, SweepLate, RefusalFit, Revoked
<1>9. ASSUME NEW g \in Thread PROVE ThreadFit(g)'
  BY <1>1 DEF CmpInv, ThreadFit, OnlyFor, Revoked
<1> QED BY <1>4, <1>5, <1>6, <1>7, <1>8, <1>9 DEF CmpInv

LEMMA HandlerKeeps ==
  ASSUME CmpInv, NEW h \in Thread, Handler(h)
  PROVE  CmpInv'
BY LoadStep, EnrollStep, AskApprovalStep, RequestFailsStep, PollStep, ConfirmStep,
   OtherHashStep, OutOfPlaceStep, CrashStep DEF Handler

-----------------------------------------------------------------------------
(* The specification *)

\* The initial states, and every step.
LEMMA InitCmpInv == CmpInit => CmpInv
<1> USE DEF Message, At, TxnRow, ApprovalRow, NoRow, Free
<1> SUFFICES ASSUME CmpInit PROVE CmpInv
  OBVIOUS
<1>1. CmpTypeOK
  BY DEF CmpInit, CmpTypeOK
<1>2. Unissued /\ SweepLate
  BY DEF CmpInit, Unissued, SweepLate
<1>3. \A t \in Txn : RowsFit(t)
  BY DEF CmpInit, RowsFit, NoneFor, OnlyFor
<1>4. \A t \in Txn : DeviceFit(t)
  BY DEF CmpInit, DeviceFit
<1>5. \A t \in Txn : RefusalFit(t)
  BY DEF CmpInit, RefusalFit
<1>6. \A h \in Thread : ThreadFit(h)
  BY DEF CmpInit, ThreadFit
<1> QED BY <1>1, <1>2, <1>3, <1>4, <1>5, <1>6 DEF CmpInv

LEMMA NextCmpInv == CmpInv /\ [CmpNext]_cmpVars => CmpInv'
<1> SUFFICES ASSUME CmpInv, [CmpNext]_cmpVars PROVE CmpInv'
  OBVIOUS
<1>1. CASE UNCHANGED cmpVars
  BY <1>1 DEF cmpVars, decisionVars, CmpInv, CmpTypeOK, Unissued, SweepLate, RowsFit,
     DeviceFit, RefusalFit, ThreadFit, NoneFor, OnlyFor, Revoked
<1> QED
  BY <1>1, DeviceStep, QuarterHourStep, DecisionStep, HandlerKeeps, FindStep, ExpireFoundStep
     DEF CmpNext

\* CmpInv holds in every state of every behaviour: the rows, the devices and the
\* threads of enrollment/cmp.py stay in step, and the calls of decide with them.
THEOREM CmpCorrect == CmpSpec => []CmpInv
BY InitCmpInv, NextCmpInv, PTL DEF CmpSpec

\* Every variable of Cmp keeps its type (enrollment/cmp.py).
THEOREM CmpTypeCorrect == CmpSpec => []CmpTypeOK
<1>1. CmpInv => CmpTypeOK
  BY DEF CmpInv
<1> QED BY <1>1, CmpCorrect, PTL

\* handle_request, handle_poll and _execute give a transaction one certificate
\* between them, however often its messages are sent and whatever is handled at the
\* same time, unless overlapping calls of decide decided it twice; and a key update
\* ends the old certificate only with a new one, also then.
THEOREM OneCertificateAlways == CmpSpec => []OneCertificate
<1>1. ASSUME CmpInv, NEW t \in Txn
      PROVE  /\ t \notin twice => \A c, d \in Issued(t) : c = d
             /\ old[t] = "superseded" => Issued(t) # {}
  <2>1. RowsFit(t) /\ CmpTypeOK
    BY <1>1 DEF CmpInv
  <2>2. t \in twice \/ NoneFor(t) \/ \E c \in Cert : OnlyFor(t, c)
    BY <2>1 DEF RowsFit, CmpTypeOK, TxnRow, ApprovalRow, OnlyFor
  <2>3. t \notin twice => \A c, d \in Issued(t) : c = d
    BY <2>2 DEF Issued, NoneFor, OnlyFor
  <2>4. old[t] = "superseded" => Issued(t) # {}
    BY <2>1 DEF RowsFit, Issued, NoneFor
  <2> QED BY <2>3, <2>4
<1>2. CmpInv => OneCertificate
  BY <1>1 DEF OneCertificate
<1> QED BY <1>2, CmpCorrect, PTL

\* handle_cert_conf: once a device's refusal is answered, and its transaction is not
\* too old and was not decided twice, the certificate it refused is revoked, whichever
\* of its messages, and whichever answer, was lost or handled twice.
THEOREM RefusedIsRevokedAlways == CmpSpec => []RefusedIsRevoked
<1>1. CmpInv => RefusedIsRevoked
  BY DEF CmpInv, RefusalFit, Revoked, RefusedIsRevoked, Issued
<1> QED BY <1>1, CmpCorrect, PTL

-----------------------------------------------------------------------------
(* What the enrolments of Enrolment see of a step *)

IssuedIn(k) == [t \in Txn |-> {c \in Cert : k[c].of = t}]
ValidIn(k) == {c \in Cert : k[c].status = "active"}
HasBy(d) == [t \in Txn |-> d[t].cert]
KnowsAt(at) ==
  CASE at \in {"new", "request", "poll"} -> "nothing"
    [] at \in {"granted", "accept"} -> "granted"
    [] at = "refuse" -> "refused"
    [] at = "done" -> "kept"
    [] OTHER -> at
KnownBy(d) == [t \in Txn |-> KnowsAt(d[t].at)]

\* No certificate is issued or revoked, and the device's part is as it was.
SameCerts == IssuedIn(cert') = IssuedIn(cert) /\ ValidIn(cert') = ValidIn(cert)
SameDevices == KnownBy(device') = KnownBy(device) /\ HasBy(device') = HasBy(device)
SameTimes == late' = late /\ twice' = twice

\* The enrolments see nothing of it.
Unseen == SameCerts /\ SameDevices /\ SameTimes

SeenGranted(t, c) ==
  /\ KnownBy(device)[t] = "nothing"
  /\ \E k \in {"granted", "kept"} : KnownBy(device') = [KnownBy(device) EXCEPT ![t] = k]
  /\ HasBy(device') = [HasBy(device) EXCEPT ![t] = c]

\* The device learns k, if anything: what it knew was one of S.
SeenLearns(t, S, k) ==
  /\ SameCerts /\ SameTimes /\ HasBy(device') = HasBy(device)
  /\ \/ KnownBy(device') = KnownBy(device)
     \/ KnownBy(device)[t] \in S /\ KnownBy(device') = [KnownBy(device) EXCEPT ![t] = k]

SeenIssue(t, c) ==
  /\ \A s \in Txn : c \notin IssuedIn(cert)[s]
  /\ twice' \in {twice, twice \cup {t}}
  /\ IssuedIn(cert)[t] = {} \/ t \in twice'
  /\ IssuedIn(cert') = [IssuedIn(cert) EXCEPT ![t] = @ \cup {c}]
  /\ ValidIn(cert') = ValidIn(cert) \cup {c}
  /\ SeenGranted(t, c) \/ SameDevices
  /\ late' = late

SeenGrant(t, c) ==
  /\ c \in IssuedIn(cert)[t] \cap ValidIn(cert)
  /\ SeenGranted(t, c)
  /\ SameCerts /\ SameTimes

SeenRevoke(t, c) ==
  /\ c \in IssuedIn(cert)[t]
  /\ KnownBy(device)[t] \in {"refused", "told"}
  /\ IssuedIn(cert') = IssuedIn(cert) /\ ValidIn(cert') = ValidIn(cert) \ {c} /\ SameTimes
  /\ HasBy(device') = HasBy(device)
  /\ \/ KnownBy(device') = KnownBy(device)
     \/ /\ KnownBy(device)[t] = "refused"
        /\ KnownBy(device') = [KnownBy(device) EXCEPT ![t] = "told"]

NothingValid(t) == IssuedIn(cert)[t] \cap ValidIn(cert) = {} \/ t \in late \cup twice

SeenTime(t) ==
  /\ SameCerts /\ SameDevices
  /\ \/ late' = late \cup {t} /\ twice' = twice
     \/ late' = late /\ twice' = twice \cup {t}

SeenStep(t) ==
  \/ \E c \in Cert : SeenIssue(t, c) \/ SeenGrant(t, c) \/ SeenRevoke(t, c)
  \/ HasBy(device)[t] \in ValidIn(cert) /\ SeenLearns(t, {"granted"}, "kept")
  \/ SeenLearns(t, {"granted"}, "refused")
  \/ NothingValid(t) /\ SeenLearns(t, {"refused"}, "told")
  \/ SeenLearns(t, {"nothing", "granted"}, "failed")
  \/ SeenTime(t)

\* A step of Cmp that is seen so is one of the abstract enrolments, or is not seen.
LEMMA SeenIsPromised ==
  ASSUME NEW t \in Txn, SeenStep(t)
  PROVE  [\E s \in Txn : Promise!Step(s)]_(Promise!enrolmentVars)
<1>. DEFINE issued == [s \in Txn |-> Issued(s)]
            has == [s \in Txn |-> device[s].cert]
            valid == {c \in Cert : cert[c].status = "active"}
            knows == [s \in Txn |-> Knows(s)]
<1>1. /\ issued = IssuedIn(cert) /\ issued' = IssuedIn(cert')
      /\ has = HasBy(device) /\ has' = HasBy(device')
      /\ valid = ValidIn(cert) /\ valid' = ValidIn(cert')
      /\ knows = KnownBy(device) /\ knows' = KnownBy(device')
  BY DEF IssuedIn, HasBy, ValidIn, KnownBy, KnowsAt, Knows, Issued
<1>. HIDE DEF issued, has, valid, knows
<1>2. ASSUME NEW S, NEW k, SeenLearns(t, S, k)
      PROVE  /\ UNCHANGED <<issued, has, valid, late, twice>>
             /\ knows' = knows \/ \E from \in S : Promise!Learns(t, from, k)
  BY <1>1, <1>2 DEF SeenLearns, SameCerts, SameTimes, Promise!Learns, knows
<1>3. ASSUME UNCHANGED <<issued, has, valid, knows, late, twice>>
      PROVE  UNCHANGED Promise!enrolmentVars
  BY <1>3 DEF Promise!enrolmentVars, issued, has, valid, knows
<1>4. ASSUME NEW c \in Cert, SeenGranted(t, c) PROVE Promise!Granted(t, c)
  BY <1>1, <1>4 DEF SeenGranted, Promise!Granted, Promise!Learns, has, knows
<1>5. ASSUME SameDevices PROVE UNCHANGED <<knows, has>>
  BY <1>1, <1>5 DEF SameDevices
<1>6. ASSUME NEW c \in Cert, SeenIssue(t, c) PROVE Promise!Issue(t, c)
  BY <1>1, <1>4, <1>5, <1>6 DEF SeenIssue, Promise!Issue, issued, has, valid, knows
<1>7. ASSUME NEW c \in Cert, SeenGrant(t, c) PROVE Promise!Grant(t, c)
  BY <1>1, <1>4, <1>7 DEF SeenGrant, SameCerts, SameTimes, Promise!Grant, issued, valid
<1>8. ASSUME NEW c \in Cert, SeenRevoke(t, c) PROVE Promise!Revoke(t, c)
  BY <1>1, <1>8 DEF SeenRevoke, SameTimes, Promise!Revoke, Promise!Learns, issued, has, valid, knows
<1>9. CASE HasBy(device)[t] \in ValidIn(cert) /\ SeenLearns(t, {"granted"}, "kept")
  <2>1. knows' = knows \/ Promise!Keep(t)
    BY <1>1, <1>2, <1>9 DEF Promise!Keep, issued, has, valid
  <2> QED
    BY <1>2, <1>3, <1>9, <2>1 DEF Promise!Step
<1>10. CASE SeenLearns(t, {"granted"}, "refused")
  <2>1. knows' = knows \/ Promise!Refuse(t)
    BY <1>2, <1>10 DEF Promise!Refuse, issued, has, valid
  <2> QED
    BY <1>2, <1>3, <1>10, <2>1 DEF Promise!Step
<1>11. CASE NothingValid(t) /\ SeenLearns(t, {"refused"}, "told")
  <2>1. knows' = knows \/ Promise!Tell(t)
    BY <1>1, <1>2, <1>11 DEF NothingValid, Promise!Tell, issued, has, valid
  <2> QED
    BY <1>2, <1>3, <1>11, <2>1 DEF Promise!Step
<1>12. CASE SeenLearns(t, {"nothing", "granted"}, "failed")
  <2>1. knows' = knows \/ Promise!Fail(t)
    BY <1>2, <1>12 DEF Promise!Fail, issued, has, valid
  <2> QED
    BY <1>2, <1>3, <1>12, <2>1 DEF Promise!Step
<1>13. CASE SeenTime(t)
  <2>1. Promise!Age(t) \/ Promise!DecideAgain(t)
    BY <1>1, <1>5, <1>13 DEF SeenTime, SameCerts, Promise!Age, Promise!DecideAgain,
       issued, has, valid, knows
  <2> QED
    BY <2>1 DEF Promise!Step
<1>14. CASE \E c \in Cert : SeenIssue(t, c) \/ SeenGrant(t, c) \/ SeenRevoke(t, c)
  BY <1>6, <1>7, <1>8, <1>14 DEF Promise!Step
<1> QED
  BY <1>9, <1>10, <1>11, <1>12, <1>13, <1>14 DEF SeenStep

LEMMA UnseenStutters == Unseen => UNCHANGED Promise!enrolmentVars
BY DEF Unseen, SameCerts, SameDevices, SameTimes, Promise!enrolmentVars,
   IssuedIn, HasBy, ValidIn, KnownBy, KnowsAt, Knows, Issued

-----------------------------------------------------------------------------
(* Every step of Cmp is seen as one of theirs *)

\* What an answer brings the device, if it arrives and is waited for.
LEMMA AnswerKnows ==
  ASSUME CmpInv, NEW h \in Thread, NEW t \in Txn, t = thread[h].of,
         NEW at \in Reached, NEW c \in Cert \cup {None}, AnswerWith(h, at, c)
  PROVE  \/ SameDevices
         \/ /\ device[t].at = thread[h].msg
            /\ KnownBy(device)[t] = KnowsAt(thread[h].msg)
            /\ KnownBy(device') = [KnownBy(device) EXCEPT ![t] = KnowsAt(at)]
            /\ HasBy(device') = [HasBy(device) EXCEPT ![t] = c]
<1>1. \A s \in Txn : device'[s] = device[s] \/ (s = t /\ MovesOn(h, t, at, c))
  BY AnswerEffect DEF CmpInv
<1>2. CASE device'[t] = device[t]
  BY <1>1, <1>2 DEF KnownBy, HasBy, SameDevices
<1>3. CASE MovesOn(h, t, at, c) /\ \A s \in Txn \ {t} : device'[s] = device[s]
  BY <1>3 DEF KnownBy, HasBy, MovesOn
<1> QED
  BY <1>1, <1>2, <1>3

\* An answer without a certificate, from what the device has sent to what it is told.
LEMMA LearnsSeen ==
  ASSUME CmpInv, NEW h \in Thread, NEW t \in Txn, t = thread[h].of,
         NEW at \in Reached, Answer(h, at), cert' = cert, SameTimes,
         NEW S, KnowsAt(thread[h].msg) \in S
  PROVE  SeenLearns(t, S, KnowsAt(at))
<1>1. PICK c \in Cert \cup {None} : c = device[t].cert
  BY DEF CmpInv, CmpTypeOK
<1>2. [HasBy(device) EXCEPT ![t] = c] = HasBy(device)
  BY <1>1 DEF HasBy
<1>3. SameCerts
  BY DEF SameCerts
<1>4. AnswerWith(h, at, c)
  BY <1>1 DEF Answer
<1> QED
  BY <1>2, <1>3, <1>4, AnswerKnows DEF SeenLearns, SameDevices

\* One with a certificate, to a device that waits for it.
LEMMA GrantSeen ==
  ASSUME CmpInv, NEW h \in Thread, NEW t \in Txn, t = thread[h].of,
         NEW at \in {"granted", "done"}, NEW c \in Cert, AnswerWith(h, at, c),
         thread[h].msg \in {"request", "poll"}
  PROVE  SeenGranted(t, c) \/ SameDevices
<1>1. at \in Reached /\ KnowsAt(at) \in {"granted", "kept"} /\ KnowsAt(thread[h].msg) = "nothing"
  BY DEF Reached, KnowsAt
<1> QED
  BY <1>1, AnswerKnows DEF SeenGranted

\* A transaction that has no certificate is issued one, or is decided twice.
LEMMA CertifySeen ==
  ASSUME CmpInv, NEW t \in Txn, NEW c \in Cert, Certify(t, c)
  PROVE  /\ \A s \in Txn : c \notin IssuedIn(cert)[s]
         /\ IssuedIn(cert') = [IssuedIn(cert) EXCEPT ![t] = @ \cup {c}]
         /\ ValidIn(cert') = ValidIn(cert) \cup {c}
         /\ NoneFor(t) => IssuedIn(cert)[t] = {}
<1>1. /\ cert[c].of = None
      /\ \A d \in Cert : cert'[d] = IF d = c THEN [status |-> "active", of |-> t] ELSE cert[d]
  BY Certified
<1>2. \A s \in Txn : c \notin IssuedIn(cert)[s]
  BY <1>1 DEF IssuedIn
<1>3. ASSUME NEW s \in Txn
      PROVE  {d \in Cert : cert'[d].of = s} =
               IF s = t THEN {d \in Cert : cert[d].of = t} \cup {c} ELSE {d \in Cert : cert[d].of = s}
  BY <1>1
<1>4. IssuedIn(cert') = [IssuedIn(cert) EXCEPT ![t] = @ \cup {c}]
  BY <1>3 DEF IssuedIn
<1>5. ValidIn(cert') = ValidIn(cert) \cup {c}
  BY <1>1 DEF ValidIn
<1>6. NoneFor(t) => IssuedIn(cert)[t] = {}
  BY DEF NoneFor, IssuedIn
<1> QED
  BY <1>2, <1>4, <1>5, <1>6

LEMMA EnrollSeen ==
  ASSUME CmpInv, NEW h \in Thread, NEW c \in Cert, Enroll(h, c)
  PROVE  \E t \in Txn : SeenStep(t)
<1>1. PICK t \in Txn : t = thread[h].of /\ thread[h].msg = "request"
  BY Busy DEF Enroll, MayAsk
<1>2. PICK at \in {"granted", "done"} : at = IF t \in implicit THEN "done" ELSE "granted"
  OBVIOUS
<1>3. NoneFor(t) /\ Certify(t, c) /\ SameTimes /\ AnswerWith(h, at, c)
  BY <1>1, <1>2 DEF Enroll, NewRow, Deliver, CmpInv, RowsFit, SameTimes, decisionVars
<1>4. SeenGranted(t, c) \/ SameDevices
  BY <1>1, <1>3, GrantSeen
<1>5. SeenIssue(t, c)
  BY <1>3, <1>4, CertifySeen DEF SeenIssue, SameTimes
<1> QED
  BY <1>5 DEF SeenStep

\* The first decision, or one more.
LEMMA DecisionSeen ==
  ASSUME CmpInv, NEW t \in Txn, NEW a \in Decider, Decision(t, a)
  PROVE  Unseen \/ SeenStep(t)
<1>1. CASE Decide(t, a) \/ DecisionFails(t, a)
  BY <1>1 DEF Decide, DecisionFails, Unseen, SameCerts, SameDevices, SameTimes
<1>2. ASSUME NEW c \in Cert, Approve(t, a, c) PROVE SeenStep(t)
  <2>1. /\ Certify(t, c) /\ device' = device /\ late' = late
        /\ twice' \in {twice, twice \cup {t}}
    BY <1>2 DEF Approve, Decided
  <2>2. NoneFor(t) \/ t \in twice'
    BY <1>2 DEF Approve, Decided, CmpInv, RowsFit
  <2>3. SameDevices
    BY <2>1 DEF SameDevices
  <2>4. SeenIssue(t, c)
    BY <2>1, <2>2, <2>3, CertifySeen DEF SeenIssue
  <2> QED
    BY <2>4 DEF SeenStep
<1>3. CASE Disapprove(t, a)
  <2>1. /\ cert' = cert /\ device' = device /\ late' = late
        /\ twice' \in {twice, twice \cup {t}}
    BY <1>3 DEF Disapprove, Decided
  <2>2. SameCerts /\ SameDevices
    BY <2>1 DEF SameCerts, SameDevices
  <2> QED
    BY <2>1, <2>2 DEF Unseen, SameTimes, SeenTime, SeenStep
<1> QED
  BY <1>1, <1>2, <1>3 DEF Decision

\* The device still knows nothing, or hears that it gets nothing.
LEMMA RequestSeen ==
  ASSUME CmpInv, NEW h \in Thread, AskApproval(h) \/ RequestFails(h)
  PROVE  Unseen \/ \E t \in Txn : SeenStep(t)
<1>1. PICK t \in Txn : t = thread[h].of /\ thread[h].msg = "request"
  BY Busy DEF AskApproval, RequestFails, MayAsk
<1>2. cert' = cert /\ SameTimes
  BY DEF AskApproval, RequestFails, SameTimes, decisionVars
<1>3. KnowsAt(thread[h].msg) = "nothing" /\ KnowsAt("poll") = "nothing" /\ KnowsAt("failed") = "failed"
  BY <1>1 DEF KnowsAt
<1>4. CASE AskApproval(h)
  <2>1. SeenLearns(t, {"nothing"}, "nothing")
    BY <1>1, <1>2, <1>3, <1>4, LearnsSeen DEF AskApproval, Reached
  <2> QED
    BY <2>1 DEF SeenLearns, Unseen, SameDevices, KnownBy
<1>5. CASE RequestFails(h)
  <2>1. SeenLearns(t, {"nothing", "granted"}, "failed")
    BY <1>1, <1>2, <1>3, <1>5, LearnsSeen DEF RequestFails, Reached
  <2> QED
    BY <2>1 DEF SeenStep
<1> QED
  BY <1>4, <1>5

\* A certificate of a transaction that was not refused is valid.
LEMMA GrantedValid ==
  ASSUME CmpInv, NEW t \in Txn, NEW c, OnlyFor(t, c), "refuse" \notin device[t].sent
  PROVE  c \in IssuedIn(cert)[t] \cap ValidIn(cert)
<1>1. c \in Cert /\ cert[c].of = t
  BY DEF OnlyFor
<1>2. cert[c].status \in {"none", "active", "revoked"}
  BY <1>1 DEF CmpInv, CmpTypeOK
<1>3. cert[c].status = "active"
  BY <1>1, <1>2 DEF CmpInv, Unissued, DeviceFit
<1> QED
  BY <1>1, <1>3 DEF IssuedIn, ValidIn

LEMMA PollSeen ==
  ASSUME CmpInv, NEW h \in Thread, Poll(h)
  PROVE  Unseen \/ \E t \in Txn : SeenStep(t)
<1>1. PICK t \in Txn : /\ t = thread[h].of /\ thread[h].msg \in device[t].sent
                       /\ thread[h].msg = "poll" /\ ThreadFit(h) /\ thread[h] # Free
  BY Busy DEF Poll
<1>2. cert' = cert /\ SameTimes
  BY DEF Poll, SameTimes, decisionVars
<1>3. KnowsAt(thread[h].msg) = "nothing" /\ KnowsAt("poll") = "nothing" /\ KnowsAt("failed") = "failed"
  BY <1>1 DEF KnowsAt
<1>4. CASE thread[h].approval.status = "pending"
  <2>1. SeenLearns(t, {"nothing"}, "nothing")
    BY <1>1, <1>2, <1>3, <1>4, LearnsSeen DEF Poll, Reached
  <2> QED
    BY <2>1 DEF SeenLearns, Unseen, SameDevices, KnownBy
<1>5. CASE thread[h].approval.status = "rejected"
  <2>1. SeenLearns(t, {"nothing", "granted"}, "failed")
    BY <1>1, <1>2, <1>3, <1>5, LearnsSeen DEF Poll, Reached
  <2> QED
    BY <2>1 DEF SeenStep
<1>6. CASE thread[h].approval.status = "approved"
  <2>1. PICK at \in {"granted", "done"} : at = IF t \in implicit THEN "done" ELSE "granted"
    OBVIOUS
  <2>2. PICK c \in Cert : c = thread[h].approval.cert /\ OnlyFor(t, c)
    BY <1>1, <1>6 DEF ThreadFit, OnlyFor
  <2>3. AnswerWith(h, at, c)
    BY <1>1, <1>6, <2>1, <2>2 DEF Poll, Deliver
  <2>4. SameCerts
    BY <1>2 DEF SameCerts
  <2>5. CASE "refuse" \notin device[t].sent
    BY <1>1, <1>2, <2>2, <2>3, <2>4, <2>5, GrantSeen, GrantedValid DEF Unseen, SeenGrant, SeenStep
  <2>6. CASE "refuse" \in device[t].sent
    <3>1. device[t].at # thread[h].msg
      BY <1>1, <2>6 DEF CmpInv, DeviceFit
    <3>2. SameDevices
      BY <1>1, <2>3, <3>1, AnswerKnows DEF Reached
    <3> QED
      BY <1>2, <2>4, <3>2 DEF Unseen
  <2> QED
    BY <2>5, <2>6
<1> QED
  BY <1>4, <1>5, <1>6 DEF Poll

\* A device that refused knows it, whatever it was told since.
LEMMA RefuserKnows ==
  ASSUME CmpInv, NEW t \in Txn, "refuse" \in device[t].sent
  PROVE  KnownBy(device)[t] \in {"refused", "told"}
BY DEF CmpInv, DeviceFit, KnownBy, KnowsAt

\* An error for a device that judged: there is nothing left of what it refused.
LEMMA ErrorSeen ==
  ASSUME CmpInv, NEW h \in Thread, NEW t \in Txn, t = thread[h].of,
         thread[h].msg \in {"poll", "accept", "refuse"}, Answer(h, Error(h)),
         cert' = cert, SameTimes,
         thread[h].msg = "refuse" => t \in late \cup twice \/ Revoked(t)
  PROVE  SeenStep(t)
<1>1. CASE thread[h].msg \in {"poll", "accept"}
  <2>1. Error(h) = "failed" /\ "failed" \in Reached /\ KnowsAt("failed") = "failed"
    BY <1>1 DEF Error, Reached, KnowsAt
  <2>2. KnowsAt(thread[h].msg) \in {"nothing", "granted"}
    BY <1>1 DEF KnowsAt
  <2>3. SeenLearns(t, {"nothing", "granted"}, "failed")
    BY <2>1, <2>2, LearnsSeen
  <2> QED
    BY <2>3 DEF SeenStep
<1>2. CASE thread[h].msg = "refuse"
  <2>1. Error(h) = "told" /\ "told" \in Reached /\ KnowsAt("told") = "told"
    BY <1>2 DEF Error, Reached, KnowsAt
  <2>2. KnowsAt(thread[h].msg) \in {"refused"}
    BY <1>2 DEF KnowsAt
  <2>3. SeenLearns(t, {"refused"}, "told")
    BY <2>1, <2>2, LearnsSeen
  <2>4. NothingValid(t)
    BY <1>2 DEF NothingValid, IssuedIn, ValidIn, Revoked
  <2> QED
    BY <2>3, <2>4 DEF SeenStep
<1> QED
  BY <1>1, <1>2

LEMMA ConfirmSeen ==
  ASSUME CmpInv, NEW h \in Thread, Confirm(h)
  PROVE  \E t \in Txn : SeenStep(t)
<1>1. PICK t \in Txn, c \in Cert :
        /\ t = thread[h].of /\ c = thread[h].txn.cert
        /\ thread[h].msg \in device[t].sent /\ OnlyFor(t, c)
  BY ConfirmLoads DEF Confirm
<1>2. SameTimes
  BY DEF Confirm, SameTimes, decisionVars
<1>3. CASE thread[h].msg = "accept"
  <2>1. Answer(h, "done") /\ cert' = cert /\ device[t].cert = c
    BY <1>1, <1>3 DEF Confirm
  <2>2. "refuse" \notin device[t].sent
    BY <1>1, <1>3 DEF CmpInv, DeviceFit
  <2>3. HasBy(device)[t] \in ValidIn(cert)
    BY <1>1, <2>1, <2>2, GrantedValid DEF HasBy
  <2>4. KnowsAt(thread[h].msg) \in {"granted"} /\ KnowsAt("done") = "kept" /\ "done" \in Reached
    BY <1>3 DEF KnowsAt, Reached
  <2>5. SeenLearns(t, {"granted"}, "kept")
    BY <1>1, <1>2, <2>1, <2>4, LearnsSeen
  <2> QED
    BY <2>3, <2>5 DEF SeenStep
<1>4. CASE thread[h].msg = "refuse" /\ cert[c].status = "active"
  <2>1. PICK d \in Cert \cup {None} : d = device[t].cert
    BY DEF CmpInv, CmpTypeOK
  <2>2. AnswerWith(h, "told", d) /\ cert' = [cert EXCEPT ![c].status = "revoked"]
    BY <1>1, <1>4, <2>1 DEF Confirm, Answer
  <2>3. KnowsAt(thread[h].msg) = "refused" /\ KnowsAt("told") = "told" /\ "told" \in Reached
    BY <1>4 DEF KnowsAt, Reached
  <2>4. [HasBy(device) EXCEPT ![t] = d] = HasBy(device)
    BY <2>1 DEF HasBy
  <2>5. /\ HasBy(device') = HasBy(device)
        /\ \/ KnownBy(device') = KnownBy(device)
           \/ /\ KnownBy(device)[t] = "refused"
              /\ KnownBy(device') = [KnownBy(device) EXCEPT ![t] = "told"]
    BY <1>1, <2>2, <2>3, <2>4, AnswerKnows DEF SameDevices
  <2>6. \A e \in Cert : /\ cert'[e].of = cert[e].of
                        /\ cert'[e].status = IF e = c THEN "revoked" ELSE cert[e].status
    BY <2>2 DEF CmpInv, CmpTypeOK
  <2>7. IssuedIn(cert') = IssuedIn(cert)
    BY <2>6 DEF IssuedIn
  <2>8. ValidIn(cert') = ValidIn(cert) \ {c}
    BY <2>6 DEF ValidIn
  <2>9. c \in IssuedIn(cert)[t]
    BY <1>1 DEF IssuedIn, OnlyFor
  <2>10. SeenRevoke(t, c)
    BY <1>1, <1>2, <1>4, <2>5, <2>7, <2>8, <2>9, RefuserKnows DEF SeenRevoke
  <2> QED
    BY <2>10 DEF SeenStep
<1>5. CASE thread[h].msg = "refuse" /\ cert[c].status = "revoked"
  <2>1. Answer(h, Error(h)) /\ cert' = cert
    BY <1>1, <1>5 DEF Confirm, Error
  <2>2. t \in twice \/ Revoked(t)
    BY <1>1, <1>5 DEF OnlyFor, Revoked
  <2> QED
    BY <1>1, <1>2, <1>5, <2>1, <2>2, ErrorSeen
<1> QED
  BY <1>1, <1>3, <1>4, <1>5 DEF Confirm

LEMMA OutOfPlaceSeen ==
  ASSUME CmpInv, NEW h \in Thread, OutOfPlace(h)
  PROVE  \E t \in Txn : SeenStep(t)
<1>1. PICK t \in Txn : t = thread[h].of /\ ThreadFit(h) /\ thread[h] # Free
  BY Busy DEF OutOfPlace
<1>2. thread[h].msg = "refuse" => t \in late \cup twice \/ Revoked(t)
  BY <1>1 DEF OutOfPlace, ThreadFit
<1>3. /\ cert' = cert /\ SameTimes /\ Answer(h, Error(h))
      /\ thread[h].msg \in {"poll", "accept", "refuse"}
  BY DEF OutOfPlace, SameTimes, decisionVars
<1> QED
  BY <1>1, <1>2, <1>3, ErrorSeen

\* Only what was decided twice has another certificate.
LEMMA OtherHashSeen ==
  ASSUME CmpInv, NEW h \in Thread, OtherHash(h)
  PROVE  \E t \in Txn : SeenStep(t)
<1>1. PICK t \in Txn, c \in Cert :
        /\ t = thread[h].of /\ c = thread[h].txn.cert
        /\ thread[h].msg \in device[t].sent /\ OnlyFor(t, c)
  BY ConfirmLoads DEF OtherHash
<1>2. t \in twice
  BY <1>1 DEF OtherHash, CmpInv, DeviceFit, OnlyFor
<1>3. /\ cert' = cert /\ SameTimes /\ Answer(h, Error(h))
      /\ thread[h].msg \in {"poll", "accept", "refuse"}
  BY DEF OtherHash, SameTimes, decisionVars
<1> QED
  BY <1>1, <1>2, <1>3, ErrorSeen

LEMMA DeviceSeen ==
  ASSUME CmpInv, NEW t \in Txn, Device(t)
  PROVE  Unseen \/ SeenStep(t)
<1>1. PICK at \in Message : /\ \/ device[t].at = "new" /\ at = "request"
                               \/ device[t].at = "granted" /\ at \in {"accept", "refuse"}
                            /\ Send(t, at, device[t].cert) /\ cert' = cert /\ SameTimes
  BY DEF Device, Start, Judge, Message, SameTimes, decisionVars
<1>2. /\ device'[t].at = at /\ device'[t].cert = device[t].cert
      /\ \A s \in Txn \ {t} : device'[s] = device[s]
  BY <1>1 DEF Send, CmpInv, CmpTypeOK
<1>3. KnownBy(device') = [KnownBy(device) EXCEPT ![t] = KnowsAt(at)]
  BY <1>2 DEF KnownBy
<1>4. HasBy(device') = HasBy(device)
  BY <1>2 DEF HasBy
<1>5. KnownBy(device)[t] = KnowsAt(device[t].at)
  BY DEF KnownBy
<1>6. SameCerts
  BY <1>1 DEF SameCerts
<1>7. CASE at = "refuse"
  <2>1. SeenLearns(t, {"granted"}, "refused")
    BY <1>1, <1>3, <1>4, <1>5, <1>6, <1>7 DEF SeenLearns, KnowsAt
  <2> QED
    BY <2>1 DEF SeenStep
<1>8. CASE at # "refuse"
  <2>1. KnowsAt(at) = KnownBy(device)[t]
    BY <1>1, <1>5, <1>8 DEF KnowsAt
  <2>2. KnownBy(device') = KnownBy(device)
    BY <1>3, <2>1 DEF KnownBy
  <2> QED
    BY <1>1, <1>4, <1>6, <2>2 DEF Unseen, SameDevices
<1> QED
  BY <1>7, <1>8

LEMMA HandlerSeen ==
  ASSUME CmpInv, NEW h \in Thread, Handler(h)
  PROVE  Unseen \/ \E t \in Txn : SeenStep(t)
<1>1. CASE (\E t \in Txn, m \in Message : Load(h, t, m)) \/ Crash(h)
  BY <1>1 DEF Load, Crash, decisionVars, Unseen, SameCerts, SameDevices, SameTimes
<1> QED
  BY <1>1, EnrollSeen, RequestSeen, PollSeen, ConfirmSeen, OtherHashSeen, OutOfPlaceSeen
     DEF Handler

LEMMA NextPromised ==
  CmpInv /\ [CmpNext]_cmpVars => [\E t \in Txn : Promise!Step(t)]_(Promise!enrolmentVars)
<1> SUFFICES ASSUME CmpInv, [CmpNext]_cmpVars
             PROVE  Unseen \/ \E t \in Txn : SeenStep(t)
  BY SeenIsPromised, UnseenStutters
<1>1. CASE UNCHANGED <<device, cert, late, twice>>
  BY <1>1 DEF Unseen, SameCerts, SameDevices, SameTimes
<1>2. ASSUME NEW t \in Txn, QuarterHour(t) PROVE SeenStep(t)
  BY <1>2 DEF QuarterHour, decisionVars, SeenStep, SeenTime, SameCerts, SameDevices
<1> QED
  BY <1>1, <1>2, DeviceSeen, DecisionSeen, HandlerSeen
     DEF CmpNext, cmpVars, decisionVars, Find, ExpireFound

\* enrollment/cmp.py, its devices and the calls of decide implement Enrolment: however
\* messages are repeated, handled at once or late, whatever answers are lost and
\* whatever decisions overlap, every step is a step of enrolments that each issue one
\* certificate, more only when decided twice, or shows them nothing.
THEOREM EnrolledOnceAlways == CmpSpec => EnrolledOnce
<1>1. ASSUME CmpInit PROVE Promise!Init
  <2>1. ASSUME NEW t \in Txn
        PROVE  Issued(t) = {} /\ device[t].cert = None /\ Knows(t) = "nothing"
    BY <1>1 DEF CmpInit, Issued, Knows
  <2>2. late = {} /\ twice = {} /\ \A c \in Cert : cert[c].status # "active"
    BY <1>1 DEF CmpInit
  <2> QED
    BY <2>1, <2>2 DEF Promise!Init
<1> QED
  BY <1>1, NextPromised, CmpCorrect, PTL DEF CmpSpec, EnrolledOnce, Promise!Spec

=============================================================================
