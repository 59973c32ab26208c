-------------------------- MODULE CertStatusProofs --------------------------
(***************************************************************************)
(* What CertStatus guarantees for any number of certificates, apps and     *)
(* requests.  Local(t) is what holds of each open transaction; with the    *)
(* exclusion the CA row's lock gives it is inductive.                      *)
(***************************************************************************)
EXTENDS CertStatus, TLAPS

USE CertAssumption

-----------------------------------------------------------------------------
(* Types *)

LEMMA BlankType == Blank \in Tx /\ Ended \in Tx /\ NoRow \in Row
<1>1. NoRow \in Row
  BY DEF NoRow, NewRow, Row, Seal, Status
<1>2. Blank \in Tx
  BY <1>1 DEF Blank, Tx, Kind, Pc, Crl
<1>3. Ended \in Tx
  BY <1>2 DEF Ended, Tx, Pc
<1> QED
  BY <1>1, <1>2, <1>3

\* What a session writes to a row is a row.
LEMMA WrittenType ==
  ASSUME NEW cur \in Row, NEW seen \in Row, NEW new \in Row
  PROVE  Written(cur, seen, new) \in Row
BY DEF Written, Row, Seal, Sealed

LEMMA ViewType ==
  ASSUME TypeOK, NEW p \in Req
  PROVE  View(p) \in [Cert -> Row]
BY DEF TypeOK, View, Tx

LEMMA ChangedType ==
  ASSUME TypeOK, NEW p \in Req
  PROVE  Changed(p) \in Row
<1>1. /\ tx[p].seen \in Row
      /\ tx[p].to \in App
      /\ tx[p].new \in Cert \cup {NoCert}
  BY DEF TypeOK, Tx
<1> QED
  BY <1>1 DEF Changed, Row, Seal, Status

LEMMA ListedType ==
  ASSUME NEW p \in Req
  PROVE  Listed(p) \subseteq Cert
BY DEF Listed

\* Where a step uses the certificate at hand, there is one: TypeOK alone is
\* not inductive.
AtHand(t) ==
  /\ t.pc \in {"row", "ca", "log"} => t.cert \in Cert
  /\ t.pc = "crl" /\ t.kind # "crl" => t.cert \in Cert
  /\ t.kind = "renew" => t.new \in Cert

TypeInv == TypeOK /\ \A p \in Req : AtHand(tx[p])

LEMMA GoesType ==
  ASSUME TypeInv, NEW p \in Req, NEW t \in Tx, AtHand(t), Goes(p, t)
  PROVE  TypeInv'
BY DEF TypeInv, TypeOK, Goes

LEMMA InitType == Init => TypeInv
<1>1. NewRow("active", FirstApp) \in Row
  BY DEF NewRow, Row, Seal, Status
<1> QED
  BY <1>1, BlankType DEF Init, TypeInv, TypeOK, AtHand, Blank, Crl

\* The transaction a handler starts.
LEMMA StartType ==
  ASSUME TypeInv, NEW p \in Req, Start(p)
  PROVE  TypeInv'
<1>. USE DEF TypeInv, TypeOK
<1>1. CASE \E c \in Cert : StartRevoke(p, c)
  <2>. PICK c \in Cert : StartRevoke(p, c)
    BY <1>1
  <2>. DEFINE t == [Blank EXCEPT !.kind = "revoke", !.cert = c, !.seen = row[c],
                     !.pc = IF row[c].status = "revoked" THEN "ca" ELSE "row"]
  <2>1. t \in Tx /\ AtHand(t)
    BY BlankType, ZenonT(60) DEF Blank, AtHand, Tx, Kind, Pc
  <2> QED
    BY <2>1, GoesType DEF StartRevoke
<1>2. CASE \E S \in SUBSET Cert, decided \in BOOLEAN : StartCutoff(p, S, decided)
  <2>. PICK S \in SUBSET Cert, decided \in BOOLEAN : StartCutoff(p, S, decided)
    BY <1>2
  <2>. DEFINE t == [Blank EXCEPT !.kind = "cutoff", !.todo = S,
                     !.log = decided, !.pc = "next"]
  <2>1. t \in Tx /\ AtHand(t)
    BY BlankType, ZenonT(60) DEF Blank, AtHand, Tx, Kind, Pc
  <2> QED
    BY <2>1, GoesType DEF StartCutoff
<1>3. CASE \E c, n \in Cert : StartRenew(p, c, n)
  <2>. PICK c \in Cert, n \in Cert : StartRenew(p, c, n)
    BY <1>3
  <2>. DEFINE t == [Blank EXCEPT !.kind = "renew", !.cert = c, !.seen = row[c],
                     !.new = n, !.pc = "log"]
  <2>1. t \in Tx /\ AtHand(t)
    BY BlankType, ZenonT(60) DEF Blank, AtHand, Tx, Kind, Pc
  <2> QED
    BY <2>1, GoesType DEF StartRenew
<1>4. CASE \E c \in Cert, a \in App : StartAssign(p, c, a)
  <2>. PICK c \in Cert, a \in App : StartAssign(p, c, a)
    BY <1>4
  <2>. DEFINE t == [Blank EXCEPT !.kind = "assign", !.cert = c, !.seen = row[c],
                     !.to = a, !.pc = "log"]
  <2>1. t \in Tx /\ AtHand(t)
    BY BlankType, ZenonT(60) DEF Blank, AtHand, Tx, Kind, Pc
  <2> QED
    BY <2>1, GoesType DEF StartAssign
<1>5. CASE StartCrl(p)
  <2>. DEFINE t == [Blank EXCEPT !.kind = "crl", !.number = crl.number,
                     !.pc = "crl"]
  <2>1. t \in Tx /\ AtHand(t)
    BY BlankType, ZenonT(60) DEF Blank, AtHand, Tx, Kind, Pc, Crl
  <2> QED
    BY <1>5, <2>1, GoesType DEF StartCrl
<1> QED
  BY <1>1, <1>2, <1>3, <1>4, <1>5 DEF Start

\* The steps that follow.
LEMMA StepType ==
  ASSUME TypeInv, NEW p \in Req, Step(p) \/ Rollback(p)
  PROVE  TypeInv'
<1>. DEFINE t == tx[p]
<1>0. /\ t \in Tx /\ AtHand(t)
      /\ row \in [Cert -> Row] /\ audit \subseteq Cert /\ crl \in Crl
  BY DEF TypeInv, TypeOK
<1>1. CASE \E c \in Cert : CutoffNext(p, c)
  <2>. PICK c \in Cert : CutoffNext(p, c)
    BY <1>1
  <2>. DEFINE left == [t EXCEPT !.todo = @ \ {c}]
              u == IF row[c].status = "revoked" THEN left
                   ELSE [left EXCEPT !.cert = c, !.seen = row[c], !.pc = "row"]
  <2>1. u \in Tx /\ AtHand(u)
    BY <1>0 DEF Tx, Pc, AtHand
  <2> QED
    BY <2>1, GoesType DEF CutoffNext
<1>2. CASE CutoffEnd(p)
  <2>. DEFINE u == [t EXCEPT !.pc = "commit"]
  <2>1. u \in Tx /\ AtHand(u)
    BY <1>0 DEF Tx, Pc, AtHand
  <2> QED
    BY <1>2, <2>1, GoesType DEF CutoffEnd
<1>3. CASE WriteRow(p)
  <2>. DEFINE w == Written(View(p)[t.cert], t.seen, Changed(p))
              u == [t EXCEPT !.rows = @ \cup {t.cert}, !.put[t.cert] = w,
                      !.pc = IF t.kind \in {"revoke", "cutoff"} THEN "ca"
                             ELSE "commit"]
  <2>1. t.cert \in Cert
    BY <1>0, <1>3 DEF WriteRow, AtHand
  <2>2. w \in Row
    BY <1>0, <2>1, WrittenType, ViewType, ChangedType DEF Tx, TypeInv
  <2>3. u \in Tx /\ AtHand(u)
    BY <1>0, <2>1, <2>2 DEF Tx, Pc, AtHand
  <2> QED
    BY <1>3, <2>3, GoesType DEF WriteRow
<1>4. CASE ReadCa(p)
  <2>. DEFINE u == [t EXCEPT !.pc = "crl",
                      !.number = IF t.ca THEN t.crl.number ELSE crl.number]
  <2>1. u \in Tx /\ AtHand(u)
    BY <1>0, <1>4 DEF Tx, Pc, Crl, AtHand, ReadCa
  <2> QED
    BY <1>4, <2>1, GoesType DEF ReadCa
<1>5. CASE GenerateCrl(p)
  <2>. DEFINE u == [t EXCEPT !.ca = TRUE,
                      !.crl = [number |-> t.number + 1, listed |-> Listed(p)],
                      !.pc = IF t.kind = "crl" THEN "commit" ELSE "log"]
  <2>1. [number |-> t.number + 1, listed |-> Listed(p)] \in Crl
    <3>1. t.number \in Nat
      BY <1>0 DEF Tx
    <3> QED
      BY <3>1, ListedType DEF Crl
  <2>2. u \in Tx
    BY <1>0, <2>1 DEF Tx, Pc
  <2>3. AtHand(u)
    BY <1>0, <1>5 DEF Tx, AtHand, GenerateCrl
  <2> QED
    BY <1>5, <2>2, <2>3, GoesType DEF GenerateCrl
<1>6. CASE LogRevoke(p)
  <2>. DEFINE u == [t EXCEPT !.log = TRUE, !.revoked = @ \cup {t.cert},
                      !.pc = IF t.kind = "cutoff" THEN "next" ELSE "commit"]
  <2>1. u \in Tx /\ AtHand(u)
    BY <1>0, <1>6 DEF Tx, Pc, AtHand, LogRevoke
  <2> QED
    BY <1>6, <2>1, GoesType DEF LogRevoke
<1>7. CASE Issue(p)
  <2>. DEFINE u == [t EXCEPT !.log = TRUE, !.rows = @ \cup {t.new},
                      !.put[t.new] = NewRow("active", t.seen.app), !.pc = "row"]
  <2>1. u \in Tx /\ AtHand(u)
    BY <1>0, <1>7, ZenonT(60) DEF Tx, Pc, NewRow, Row, Seal, Status, AtHand, Issue
  <2> QED
    BY <1>7, <2>1, GoesType DEF Issue
<1>8. CASE LogAssign(p)
  <2>. DEFINE u == [t EXCEPT !.log = TRUE, !.pc = "row"]
  <2>1. u \in Tx /\ AtHand(u)
    BY <1>0, <1>8 DEF Tx, Pc, AtHand, LogAssign
  <2> QED
    BY <1>8, <2>1, GoesType DEF LogAssign
<1>9. Ended \in Tx /\ AtHand(Ended)
  BY BlankType DEF Ended, Blank, AtHand
<1>10. CASE Commit(p)
  BY <1>0, <1>9, <1>10, ViewType DEF Commit, TypeInv, TypeOK, Tx
<1>11. CASE Rollback(p)
  BY <1>9, <1>11, GoesType DEF Rollback
<1> QED
  BY <1>1, <1>2, <1>3, <1>4, <1>5, <1>6, <1>7, <1>8, <1>10, <1>11 DEF Step

LEMMA NextType == TypeInv /\ [Next]_vars => TypeInv'
<1>1. CASE Next
  BY <1>1, StartType, StepType DEF Next
<1>2. CASE UNCHANGED vars
  BY <1>2 DEF vars, TypeInv, TypeOK, AtHand
<1> QED
  BY <1>1, <1>2

\* Rows, audit trail, CRL and open transactions keep their types, the first of
\* the facts every handler takes for granted of what it loads.
THEOREM TypeCorrect == Spec => []TypeOK
<1>1. Spec => []TypeInv
  BY InitType, NextType, PTL DEF Spec
<1>2. TypeInv => TypeOK
  BY DEF TypeInv
<1> QED
  BY <1>1, <1>2, PTL

-----------------------------------------------------------------------------
(* The inductive invariant.  The parts about a transaction t are stated over *)
(* the committed rows r and audit trail a.                                   *)

Issued(r) == {c \in Cert : r[c].status # "none"}

Revoker(t) == t.kind \in {"revoke", "cutoff"}

\* A transaction not begun, or ended, holds nothing.
HoldsNothing(t) ==
  t.pc \in {"idle", "done"} => t.rows = {} /\ ~t.ca /\ t.revoked = {}

\* Only a campaign's cutoff loops, housekeeping touches no certificate and a
\* renewal no CRL.
Course(t) ==
  /\ t.pc = "next" => t.kind = "cutoff"
  /\ t.kind = "crl" => t.pc \in {"crl", "commit"}
  /\ t.kind = "renew" => t.pc \in {"log", "row", "commit"}

\* The certificates a transaction works on have been issued.
WorksOnIssued(t, r) ==
  /\ t.revoked \subseteq Issued(r)
  /\ t.todo \subseteq Issued(r)
  /\ t.pc \in {"row", "ca", "crl", "log"} /\ t.kind # "crl" =>
       t.cert \in Issued(r)
  /\ \A c \in t.rows : t.put[c].status # "none"

\* A row written as revoked has its event, but for the one being revoked.
RevokedRowsLogged(t, a) ==
  /\ \A c \in t.rows : t.put[c].status = "revoked" =>
       \/ c \in a \cup t.revoked
       \/ Revoker(t) /\ t.pc \in {"ca", "crl", "log"} /\ c = t.cert
  /\ Revoker(t) /\ t.pc = "row" => t.seen.status # "revoked"

\* When the CRL is drawn up, the certificate being revoked is seen as such.
RevokedInView(t, a) ==
  Revoker(t) /\ t.pc \in {"ca", "crl"} =>
    \/ t.cert \in a
    \/ t.cert \in t.rows /\ t.put[t.cert].status = "revoked"

\* A CRL that is written lists all there is to list until it is committed: no
\* other revocation gets past the CA row's lock.
CrlCovers(t, a) ==
  /\ t.revoked # {} => t.ca
  /\ t.ca => a \cup t.revoked \subseteq t.crl.listed
  /\ Revoker(t) /\ t.pc = "log" => t.ca /\ t.cert \in t.crl.listed

\* A row written as superseded names a certificate this transaction issues or
\* another one did; an active one names none.
Replaces(t, r) ==
  /\ \A c \in t.rows :
       /\ t.put[c].status = "superseded" =>
            t.put[c].next \in (Issued(r) \cup t.rows) \ {c}
       /\ t.put[c].status = "active" => t.put[c].next = NoCert
  /\ t.kind = "renew" /\ t.pc \in {"log", "row"} =>
       /\ t.seen.status = "active" /\ t.seen.next = NoCert
       /\ t.cert # t.new
       /\ t.pc = "row" => t.new \in t.rows

Local(t, r, a) ==
  /\ HoldsNothing(t)
  /\ Course(t)
  /\ WorksOnIssued(t, r)
  /\ RevokedRowsLogged(t, a)
  /\ RevokedInView(t, a)
  /\ CrlCovers(t, a)
  /\ Replaces(t, r)

CaExclusive == \A p, q \in Req : tx[p].ca /\ tx[q].ca => p = q

\* The committed state.
Committed ==
  /\ audit \subseteq Issued(row)
  /\ audit \subseteq crl.listed
  /\ RevocationRecorded
  /\ SupersededReplaced
  /\ \A c \in Cert : row[c].status = "active" => row[c].next = NoCert

IInv ==
  /\ TypeInv
  /\ CaExclusive
  /\ Committed
  /\ \A p \in Req : Local(tx[p], row, audit)

LEMMA InitInv == Init => IInv
<1>. SUFFICES ASSUME Init PROVE IInv
  OBVIOUS
<1>1. TypeInv
  BY InitType
<1>2. CaExclusive
  BY DEF Init, CaExclusive, Blank
<1>3. Committed
  BY DEF Init, Committed, RevocationRecorded, SupersededReplaced, Issued,
         NewRow, NoRow
<1>4. \A p \in Req : Local(tx[p], row, audit)
  BY DEF Init, Blank, Local, HoldsNothing, Course, WorksOnIssued, RevokedRowsLogged,
         RevokedInView, CrlCovers, Replaces, Revoker
<1> QED
  BY <1>1, <1>2, <1>3, <1>4 DEF IInv

\* A step inside one transaction has to keep that transaction's part only.
LEMMA GoesInv ==
  ASSUME IInv, TypeInv', NEW p \in Req, NEW u, Goes(p, u),
         Local(u, row, audit), u.ca => CaFree(p)
  PROVE  IInv'
<1>1. /\ row' = row /\ audit' = audit /\ crl' = crl
      /\ \A q \in Req : tx'[q] = IF q = p THEN u ELSE tx[q]
  BY DEF Goes, IInv, TypeInv, TypeOK
<1>2. CaExclusive'
  BY <1>1 DEF IInv, CaExclusive, CaFree
<1>3. Committed'
  BY <1>1 DEF IInv, Committed, RevocationRecorded, SupersededReplaced, Issued
<1>4. \A q \in Req : Local(tx'[q], row', audit')
  BY <1>1 DEF IInv
<1> QED
  BY <1>2, <1>3, <1>4 DEF IInv

\* What makes the first step of a transaction keep its part.
LEMMA FreshLocal ==
  ASSUME NEW u, NEW r, NEW a,
         u.rows = {}, u.ca = FALSE, u.revoked = {}, u.todo \subseteq Issued(r),
         u.pc \in {"row", "ca", "crl", "log"} /\ u.kind # "crl" =>
           u.cert \in Issued(r),
         Revoker(u) => /\ u.pc # "log"
                       /\ u.pc = "row" => u.seen.status # "revoked"
                       /\ u.pc \in {"ca", "crl"} => u.cert \in a,
         u.pc = "next" => u.kind = "cutoff",
         u.kind = "crl" => u.pc = "crl",
         u.kind = "renew" => /\ u.pc = "log" /\ u.cert # u.new
                             /\ u.seen.status = "active"
                             /\ u.seen.next = NoCert
  PROVE  Local(u, r, a)
BY DEF Local, HoldsNothing, Course, WorksOnIssued, RevokedRowsLogged, RevokedInView,
       CrlCovers, Replaces

LEMMA StartInv ==
  ASSUME IInv, TypeInv', NEW p \in Req, Start(p)
  PROVE  IInv'
<1>. USE DEF Blank
<1>1. CASE \E c \in Cert : StartRevoke(p, c)
  <2>. PICK c \in Cert : StartRevoke(p, c)
    BY <1>1
  <2>. DEFINE u == [Blank EXCEPT !.kind = "revoke", !.cert = c, !.seen = row[c],
                     !.pc = IF row[c].status = "revoked" THEN "ca" ELSE "row"]
  <2>1. /\ u.kind = "revoke" /\ u.rows = {} /\ u.ca = FALSE /\ u.revoked = {}
        /\ u.todo = {} /\ u.cert = c /\ u.seen = row[c]
        /\ u.pc = IF row[c].status = "revoked" THEN "ca" ELSE "row"
    OBVIOUS
  <2>2. Local(u, row, audit)
    BY <2>1, FreshLocal, ZenonT(60) DEF StartRevoke, Issued, Revoker, IInv, Committed, RevocationRecorded
  <2> QED
    BY <2>1, <2>2, GoesInv DEF StartRevoke
<1>2. CASE \E S \in SUBSET Cert, decided \in BOOLEAN : StartCutoff(p, S, decided)
  <2>. PICK S \in SUBSET Cert, decided \in BOOLEAN : StartCutoff(p, S, decided)
    BY <1>2
  <2>. DEFINE u == [Blank EXCEPT !.kind = "cutoff", !.todo = S,
                     !.log = decided, !.pc = "next"]
  <2>1. /\ u.kind = "cutoff" /\ u.rows = {} /\ u.ca = FALSE /\ u.revoked = {}
        /\ u.todo = S /\ u.pc = "next"
    OBVIOUS
  <2>2. Local(u, row, audit)
    BY <2>1, FreshLocal DEF StartCutoff, Issued, Revoker
  <2> QED
    BY <2>1, <2>2, GoesInv DEF StartCutoff
<1>3. CASE \E c, n \in Cert : StartRenew(p, c, n)
  <2>. PICK c \in Cert, n \in Cert : StartRenew(p, c, n)
    BY <1>3
  <2>. DEFINE u == [Blank EXCEPT !.kind = "renew", !.cert = c, !.seen = row[c],
                     !.new = n, !.pc = "log"]
  <2>1. /\ u.kind = "renew" /\ u.rows = {} /\ u.ca = FALSE /\ u.revoked = {}
        /\ u.todo = {} /\ u.cert = c /\ u.seen = row[c] /\ u.new = n
        /\ u.pc = "log"
    OBVIOUS
  <2>2. Local(u, row, audit)
    BY <2>1, FreshLocal DEF StartRenew, Issued, Revoker, IInv, Committed
  <2> QED
    BY <2>1, <2>2, GoesInv DEF StartRenew
<1>4. CASE \E c \in Cert, a \in App : StartAssign(p, c, a)
  <2>. PICK c \in Cert, a \in App : StartAssign(p, c, a)
    BY <1>4
  <2>. DEFINE u == [Blank EXCEPT !.kind = "assign", !.cert = c, !.seen = row[c],
                     !.to = a, !.pc = "log"]
  <2>1. /\ u.kind = "assign" /\ u.rows = {} /\ u.ca = FALSE /\ u.revoked = {}
        /\ u.todo = {} /\ u.cert = c /\ u.pc = "log"
    OBVIOUS
  <2>2. Local(u, row, audit)
    BY <2>1, FreshLocal DEF StartAssign, Issued, Revoker
  <2> QED
    BY <2>1, <2>2, GoesInv DEF StartAssign
<1>5. CASE StartCrl(p)
  <2>. DEFINE u == [Blank EXCEPT !.kind = "crl", !.number = crl.number,
                     !.pc = "crl"]
  <2>1. /\ u.kind = "crl" /\ u.rows = {} /\ u.ca = FALSE /\ u.revoked = {}
        /\ u.todo = {} /\ u.pc = "crl"
    OBVIOUS
  <2>2. Local(u, row, audit)
    BY <2>1, FreshLocal DEF Revoker
  <2> QED
    BY <1>5, <2>1, <2>2, GoesInv DEF StartCrl
<1> QED
  BY <1>1, <1>2, <1>3, <1>4, <1>5 DEF Start

LEMMA CutoffInv ==
  ASSUME IInv, TypeInv', NEW p \in Req,
         (\E c \in Cert : CutoffNext(p, c)) \/ CutoffEnd(p)
  PROVE  IInv'
<1>. DEFINE t == tx[p]
<1>0. t \in Tx /\ Local(t, row, audit) /\ (t.ca => CaFree(p))
  BY DEF IInv, TypeInv, TypeOK, CaExclusive, CaFree
<1>1. CASE \E c \in Cert : CutoffNext(p, c)
  <2>. PICK c \in Cert : CutoffNext(p, c)
    BY <1>1
  <2>. DEFINE left == [t EXCEPT !.todo = @ \ {c}]
              u == IF row[c].status = "revoked" THEN left
                   ELSE [left EXCEPT !.cert = c, !.seen = row[c], !.pc = "row"]
  <2>1. /\ u.kind = t.kind /\ u.rows = t.rows /\ u.put = t.put
        /\ u.ca = t.ca /\ u.crl = t.crl /\ u.revoked = t.revoked
        /\ u.todo = t.todo \ {c}
        /\ \/ u.pc = "next"
           \/ u.pc = "row" /\ u.cert = c /\ u.seen.status # "revoked"
    BY <1>0 DEF CutoffNext, Tx
  <2>2. c \in Issued(row) /\ t.kind = "cutoff"
    BY <1>0 DEF CutoffNext, Local, Course, WorksOnIssued
  <2>3. Local(u, row, audit)
    <3>. HIDE DEF u, t
    <3>1. HoldsNothing(u) /\ Course(u)
      BY <2>1, <2>2 DEF HoldsNothing, Course
    <3>2. WorksOnIssued(u, row)
      BY <1>0, <2>1, <2>2 DEF Local, WorksOnIssued
    <3>3. RevokedRowsLogged(u, audit)
      BY <1>0, <2>1 DEF Local, RevokedRowsLogged, t, CutoffNext
    <3>4. RevokedInView(u, audit) /\ CrlCovers(u, audit)
      BY <1>0, <2>1 DEF Local, RevokedInView, CrlCovers
    <3>5. Replaces(u, row)
      BY <1>0, <2>1, <2>2 DEF Local, Replaces
    <3> QED
      BY <3>1, <3>2, <3>3, <3>4, <3>5 DEF Local
  <2> QED
    BY <1>0, <2>1, <2>3, GoesInv DEF CutoffNext
<1>2. CASE CutoffEnd(p)
  <2>. DEFINE u == [t EXCEPT !.pc = "commit"]
  <2>1. /\ u.kind = t.kind /\ u.rows = t.rows /\ u.put = t.put
        /\ u.ca = t.ca /\ u.crl = t.crl /\ u.revoked = t.revoked
        /\ u.todo = t.todo /\ u.pc = "commit" /\ t.pc = "next"
    BY <1>0, <1>2 DEF CutoffEnd, Tx
  <2>2. Local(u, row, audit)
    BY <1>0, <2>1 DEF Local, HoldsNothing, Course, WorksOnIssued,
         RevokedRowsLogged, RevokedInView, CrlCovers, Replaces, Revoker
  <2> QED
    BY <1>0, <1>2, <2>1, <2>2, GoesInv DEF CutoffEnd
<1> QED
  BY <1>1, <1>2

\* The row a handler leaves: the revoker's reads revoked, the renewal's names
\* its successor, and an assignment keeps both columns as the row has them.
LEMMA WrittenRow ==
  ASSUME TypeInv, NEW p \in Req, NEW cur \in Row, tx[p].pc = "row",
         Local(tx[p], row, audit)
  PROVE  LET w == Written(cur, tx[p].seen, Changed(p))
         IN  /\ Revoker(tx[p]) => w.status = "revoked"
             /\ tx[p].kind = "renew" => /\ w.status = "superseded"
                                        /\ w.next = tx[p].new
             /\ ~Revoker(tx[p]) /\ tx[p].kind # "renew" =>
                  w.status = cur.status /\ w.next = cur.next
<1>. DEFINE t == tx[p]
            w == Written(cur, t.seen, Changed(p))
<1>1. t.seen \in Row /\ t.to \in App /\ (t.kind = "renew" => t.new \in Cert)
  BY DEF TypeInv, TypeOK, Tx, AtHand
<1>2. CASE Revoker(t)
  <2>1. Changed(p).status = "revoked" /\ t.seen.status # "revoked"
    BY <1>1, <1>2 DEF Changed, Revoker, Row, Local, RevokedRowsLogged
  <2> QED
    BY <1>2, <2>1 DEF Written, Revoker
<1>3. CASE t.kind = "renew"
  <2>1. /\ Changed(p).status = "superseded" /\ Changed(p).next = t.new
        /\ t.seen.status = "active" /\ t.seen.next = NoCert
    BY <1>1, <1>3 DEF Changed, Row, Local, Replaces
  <2>2. t.new # NoCert
    BY <1>1, <1>3
  <2> QED
    BY <1>3, <2>1, <2>2 DEF Written, Revoker
<1>4. CASE ~Revoker(t) /\ t.kind # "renew"
  <2>1. /\ Changed(p).status = t.seen.status
        /\ Changed(p).next = t.seen.next
    BY <1>1, <1>4 DEF Changed, Revoker, Row
  <2> QED
    BY <1>4, <2>1 DEF Written
<1> QED
  BY <1>2, <1>3, <1>4

LEMMA WriteRowInv ==
  ASSUME IInv, TypeInv', NEW p \in Req, WriteRow(p)
  PROVE  IInv'
<1>. DEFINE t == tx[p]
            cur == View(p)[t.cert]
            w == Written(cur, t.seen, Changed(p))
            u == [t EXCEPT !.rows = @ \cup {t.cert}, !.put[t.cert] = w,
                    !.pc = IF t.kind \in {"revoke", "cutoff"} THEN "ca"
                           ELSE "commit"]
<1>1. t \in Tx /\ Local(t, row, audit) /\ (t.ca => CaFree(p)) /\ t.pc = "row"
  BY DEF IInv, TypeInv, TypeOK, CaExclusive, CaFree, WriteRow
<1>2. t.cert \in Issued(row) /\ t.kind # "crl" /\ t.cert \in Cert
  BY <1>1 DEF Local, WorksOnIssued, Course, Issued
<1>3. cur \in Row
  BY <1>2, ViewType DEF IInv, TypeInv
<1>4. /\ Revoker(t) => w.status = "revoked"
      /\ t.kind = "renew" => w.status = "superseded" /\ w.next = t.new
      /\ ~Revoker(t) /\ t.kind # "renew" =>
           w.status = cur.status /\ w.next = cur.next
  BY <1>1, <1>3, WrittenRow DEF IInv
<1>5. /\ u.kind = t.kind /\ u.cert = t.cert /\ u.new = t.new /\ u.seen = t.seen
      /\ u.rows = t.rows \cup {t.cert}
      /\ \A c \in Cert : u.put[c] = IF c = t.cert THEN w ELSE t.put[c]
      /\ u.ca = t.ca /\ u.crl = t.crl /\ u.revoked = t.revoked
      /\ u.todo = t.todo /\ u.pc = IF Revoker(t) THEN "ca" ELSE "commit"
      /\ t.rows \subseteq Cert
  BY <1>1, <1>2 DEF Tx, Revoker
<1>6. Local(u, row, audit)
  <2>. HIDE DEF u, w
  <2>1. HoldsNothing(u) /\ Course(u)
    BY <1>1, <1>2, <1>5 DEF HoldsNothing, Course, Revoker
  <2>2. cur = IF t.cert \in t.rows THEN t.put[t.cert] ELSE row[t.cert]
    BY <1>2 DEF View
  <2>3. WorksOnIssued(u, row)
    <3>1. cur.status # "none"
      BY <1>1, <1>2, <2>2 DEF Local, WorksOnIssued, Issued
    <3>2. w.status # "none"
      BY <1>4, <3>1
    <3> QED
      BY <1>1, <1>2, <1>5, <3>2 DEF Local, WorksOnIssued
  <2>4. RevokedRowsLogged(u, audit)
    <3>1. cur.status = "revoked" => t.cert \in audit \cup t.revoked
      BY <1>1, <1>2, <2>2 DEF Local, RevokedRowsLogged, IInv, Committed,
         RevocationRecorded
    <3>2. ASSUME NEW c \in u.rows, u.put[c].status = "revoked"
          PROVE  \/ c \in audit \cup t.revoked
                 \/ Revoker(t) /\ c = t.cert
      <4>1. CASE c = t.cert
        BY <1>2, <1>4, <1>5, <3>1, <3>2, <4>1
      <4>2. CASE c # t.cert
        BY <1>1, <1>5, <3>2, <4>2 DEF Local, RevokedRowsLogged
      <4> QED
        BY <4>1, <4>2
    <3>3. Revoker(u) => u.pc = "ca"
      BY <1>5 DEF Revoker
    <3> QED
      BY <1>5, <3>2, <3>3 DEF RevokedRowsLogged, Revoker
  <2>5. RevokedInView(u, audit)
    BY <1>2, <1>4, <1>5 DEF RevokedInView, Revoker
  <2>6. CrlCovers(u, audit)
    BY <1>1, <1>5 DEF Local, CrlCovers
  <2>7. Replaces(u, row)
    <3>1. /\ cur.status = "superseded" =>
                cur.next \in (Issued(row) \cup t.rows) \ {t.cert}
          /\ cur.status = "active" => cur.next = NoCert
      BY <1>1, <1>2, <2>2 DEF Local, Replaces, IInv, Committed,
         SupersededReplaced, Issued
    <3>2. /\ w.status = "superseded" =>
                w.next \in (Issued(row) \cup t.rows) \ {t.cert}
          /\ w.status = "active" => w.next = NoCert
      BY <1>1, <1>4, <3>1 DEF Local, Replaces
    <3>3. ASSUME NEW c \in u.rows
          PROVE  /\ u.put[c].status = "superseded" =>
                      u.put[c].next \in (Issued(row) \cup u.rows) \ {c}
                 /\ u.put[c].status = "active" => u.put[c].next = NoCert
      <4>1. CASE c = t.cert
        BY <1>2, <1>5, <3>2, <4>1
      <4>2. CASE c # t.cert
        BY <1>1, <1>5, <4>2 DEF Local, Replaces
      <4> QED
        BY <4>1, <4>2
    <3>4. u.pc \notin {"log", "row"}
      BY <1>5
    <3> QED
      BY <3>3, <3>4, SMTT(60) DEF Replaces
  <2> QED
    BY <2>1, <2>3, <2>4, <2>5, <2>6, <2>7 DEF Local
<1> QED
  BY <1>1, <1>5, <1>6, GoesInv DEF WriteRow

\* Everything on record, and the certificate being revoked, is on the new CRL.
LEMMA ListedAll ==
  ASSUME IInv, NEW p \in Req, tx[p].pc = "crl"
  PROVE  /\ audit \cup tx[p].revoked \subseteq Listed(p)
         /\ Revoker(tx[p]) => tx[p].cert \in Listed(p)
<1>. DEFINE t == tx[p]
<1>1. /\ t \in Tx /\ Local(t, row, audit)
      /\ audit \subseteq Issued(row) /\ t.revoked \subseteq Issued(row)
  BY DEF IInv, TypeInv, TypeOK, Committed, Local, WorksOnIssued
<1>2. ASSUME NEW c \in Issued(row) PROVE View(p)[c].status # "none"
  BY <1>1, <1>2 DEF View, Local, WorksOnIssued, Issued
<1>3. ASSUME NEW c \in audit \cup t.revoked PROVE c \in Listed(p)
  <2>1. c \in Issued(row) /\ c \in Cert
    BY <1>1, <1>3 DEF Issued
  <2> QED
    BY <1>2, <1>3, <2>1 DEF Listed, Trusted
<1>4. ASSUME Revoker(t) PROVE t.cert \in Listed(p)
  <2>1. t.cert \in Issued(row) /\ t.cert \in Cert
    BY <1>1, <1>4 DEF Local, WorksOnIssued, Issued, Revoker
  <2>2. CASE t.cert \in audit
    BY <1>3, <2>2
  <2>3. CASE t.cert \in t.rows /\ t.put[t.cert].status = "revoked"
    <3>1. View(p)[t.cert].status = "revoked"
      BY <2>1, <2>3 DEF View
    <3> QED
      BY <2>1, <3>1 DEF Listed, Trusted
  <2> QED
    BY <1>1, <1>4, <2>2, <2>3 DEF Local, RevokedInView
<1> QED
  BY <1>3, <1>4

LEMMA CrlInv ==
  ASSUME IInv, TypeInv', NEW p \in Req, ReadCa(p) \/ GenerateCrl(p)
  PROVE  IInv'
<1>. DEFINE t == tx[p]
<1>1. t \in Tx /\ Local(t, row, audit) /\ (t.ca => CaFree(p))
  BY DEF IInv, TypeInv, TypeOK, CaExclusive, CaFree
<1>2. CASE ReadCa(p)
  <2>. DEFINE u == [t EXCEPT !.pc = "crl",
                      !.number = IF t.ca THEN t.crl.number ELSE crl.number]
  <2>1. /\ u.kind = t.kind /\ u.cert = t.cert /\ u.new = t.new
        /\ u.rows = t.rows /\ u.put = t.put /\ u.ca = t.ca /\ u.crl = t.crl
        /\ u.revoked = t.revoked /\ u.todo = t.todo /\ u.seen = t.seen
        /\ u.pc = "crl" /\ t.pc = "ca"
    BY <1>1, <1>2 DEF Tx, ReadCa
  <2>2. Local(u, row, audit)
    <3>. HIDE DEF u
    <3>1. HoldsNothing(u) /\ Course(u) /\ WorksOnIssued(u, row)
      BY <1>1, <2>1 DEF Local, HoldsNothing, Course, WorksOnIssued
    <3>2. RevokedRowsLogged(u, audit) /\ RevokedInView(u, audit)
      BY <1>1, <2>1 DEF Local, RevokedRowsLogged, RevokedInView, Revoker
    <3>3. CrlCovers(u, audit) /\ Replaces(u, row)
      BY <1>1, <2>1 DEF Local, CrlCovers, Replaces
    <3> QED
      BY <3>1, <3>2, <3>3 DEF Local
  <2> QED
    BY <1>1, <1>2, <2>1, <2>2, GoesInv DEF ReadCa
<1>3. CASE GenerateCrl(p)
  <2>. DEFINE u == [t EXCEPT !.ca = TRUE,
                      !.crl = [number |-> t.number + 1, listed |-> Listed(p)],
                      !.pc = IF t.kind = "crl" THEN "commit" ELSE "log"]
  <2>1. /\ u.kind = t.kind /\ u.cert = t.cert /\ u.new = t.new
        /\ u.rows = t.rows /\ u.put = t.put /\ u.ca = TRUE
        /\ u.crl.listed = Listed(p) /\ u.seen = t.seen
        /\ u.revoked = t.revoked /\ u.todo = t.todo
        /\ u.pc = IF t.kind = "crl" THEN "commit" ELSE "log"
    BY <1>1 DEF Tx
  <2>2. t.pc = "crl" /\ CaFree(p)
    BY <1>3 DEF GenerateCrl
  <2>3. Local(u, row, audit)
    <3>. HIDE DEF u
    <3>1. HoldsNothing(u) /\ Course(u) /\ WorksOnIssued(u, row)
      BY <1>1, <2>1, <2>2 DEF Local, HoldsNothing, Course, WorksOnIssued
    <3>2. RevokedRowsLogged(u, audit) /\ RevokedInView(u, audit)
      BY <1>1, <2>1, <2>2 DEF Local, RevokedRowsLogged, RevokedInView, Revoker
    <3>3. CrlCovers(u, audit)
      BY <2>1, <2>2, ListedAll DEF CrlCovers, Revoker
    <3>4. Replaces(u, row)
      <4>1. t.kind # "renew"
        BY <1>1, <2>2 DEF Local, Course
      <4> QED
        BY <1>1, <2>1, <4>1 DEF Local, Replaces
    <3> QED
      BY <3>1, <3>2, <3>3, <3>4 DEF Local
  <2> QED
    BY <1>3, <2>2, <2>3, GoesInv DEF GenerateCrl
<1> QED
  BY <1>2, <1>3

LEMMA LogInv ==
  ASSUME IInv, TypeInv', NEW p \in Req,
         LogRevoke(p) \/ Issue(p) \/ LogAssign(p)
  PROVE  IInv'
<1>. DEFINE t == tx[p]
<1>1. t \in Tx /\ Local(t, row, audit) /\ (t.ca => CaFree(p)) /\ t.pc = "log"
  BY DEF IInv, TypeInv, TypeOK, CaExclusive, CaFree, LogRevoke, Issue, LogAssign
<1>2. CASE LogRevoke(p)
  <2>. DEFINE u == [t EXCEPT !.log = TRUE, !.revoked = @ \cup {t.cert},
                      !.pc = IF t.kind = "cutoff" THEN "next" ELSE "commit"]
  <2>1. /\ u.kind = t.kind /\ u.cert = t.cert /\ u.new = t.new
        /\ u.rows = t.rows /\ u.put = t.put /\ u.ca = t.ca /\ u.crl = t.crl
        /\ u.revoked = t.revoked \cup {t.cert} /\ u.todo = t.todo
        /\ u.pc = IF t.kind = "cutoff" THEN "next" ELSE "commit"
        /\ Revoker(t)
    BY <1>1, <1>2 DEF Tx, LogRevoke, Revoker
  <2>2. Local(u, row, audit)
    <3>. HIDE DEF u
    <3>1. HoldsNothing(u) /\ Course(u)
      BY <1>1, <2>1 DEF HoldsNothing, Course, Revoker
    <3>2. WorksOnIssued(u, row)
      BY <1>1, <2>1 DEF Local, WorksOnIssued, Revoker
    <3>3. RevokedRowsLogged(u, audit) /\ RevokedInView(u, audit)
      BY <1>1, <2>1 DEF Local, RevokedRowsLogged, RevokedInView
    <3>4. CrlCovers(u, audit)
      BY <1>1, <2>1 DEF Local, CrlCovers
    <3>5. Replaces(u, row)
      BY <1>1, <2>1 DEF Local, Replaces
    <3> QED
      BY <3>1, <3>2, <3>3, <3>4, <3>5 DEF Local
  <2> QED
    BY <1>1, <1>2, <2>1, <2>2, GoesInv DEF LogRevoke
<1>3. CASE Issue(p)
  <2>. DEFINE w == NewRow("active", t.seen.app)
              u == [t EXCEPT !.log = TRUE, !.rows = @ \cup {t.new},
                      !.put[t.new] = w, !.pc = "row"]
  <2>1. t.kind = "renew" /\ t.new \in Cert /\ t.rows \subseteq Cert
    BY <1>1, <1>3 DEF Issue, IInv, TypeInv, AtHand, Tx
  <2>2. /\ u.kind = t.kind /\ u.cert = t.cert /\ u.new = t.new
        /\ u.seen = t.seen /\ u.rows = t.rows \cup {t.new}
        /\ \A c \in Cert : u.put[c] = IF c = t.new THEN w ELSE t.put[c]
        /\ u.ca = t.ca /\ u.crl = t.crl /\ u.revoked = t.revoked
        /\ u.todo = t.todo /\ u.pc = "row"
    BY <1>1, <2>1 DEF Tx
  <2>3. w.status = "active" /\ w.next = NoCert
    BY DEF NewRow
  <2>4. Local(u, row, audit)
    <3>. HIDE DEF u, w
    <3>1. HoldsNothing(u) /\ Course(u) /\ RevokedInView(u, audit)
      BY <2>1, <2>2 DEF HoldsNothing, Course, RevokedInView, Revoker
    <3>2. WorksOnIssued(u, row)
      BY <1>1, <2>1, <2>2, <2>3 DEF Local, WorksOnIssued
    <3>3. RevokedRowsLogged(u, audit)
      BY <1>1, <2>1, <2>2, <2>3 DEF Local, RevokedRowsLogged, Revoker
    <3>4. CrlCovers(u, audit)
      BY <1>1, <2>2 DEF Local, CrlCovers
    <3>5. Replaces(u, row)
      <4>1. ASSUME NEW c \in u.rows
            PROVE  /\ u.put[c].status = "superseded" =>
                        u.put[c].next \in (Issued(row) \cup u.rows) \ {c}
                   /\ u.put[c].status = "active" => u.put[c].next = NoCert
        <5>1. CASE c = t.new
          BY <2>1, <2>2, <2>3, <5>1
        <5>2. CASE c # t.new
          BY <1>1, <2>1, <2>2, <5>2 DEF Local, Replaces
        <5> QED
          BY <5>1, <5>2
      <4>2. /\ u.seen.status = "active" /\ u.seen.next = NoCert
            /\ u.cert # u.new /\ u.new \in u.rows
        BY <1>1, <2>1, <2>2 DEF Local, Replaces
      <4> QED
        BY <4>1, <4>2 DEF Replaces
    <3> QED
      BY <3>1, <3>2, <3>3, <3>4, <3>5 DEF Local
  <2> QED
    BY <1>1, <1>3, <2>2, <2>4, GoesInv DEF Issue
<1>4. CASE LogAssign(p)
  <2>. DEFINE u == [t EXCEPT !.log = TRUE, !.pc = "row"]
  <2>1. /\ u.kind = t.kind /\ u.cert = t.cert /\ u.new = t.new
        /\ u.rows = t.rows /\ u.put = t.put /\ u.ca = t.ca /\ u.crl = t.crl
        /\ u.revoked = t.revoked /\ u.todo = t.todo /\ u.pc = "row"
        /\ t.kind = "assign"
    BY <1>1, <1>4 DEF Tx, LogAssign
  <2>2. Local(u, row, audit)
    <3>. HIDE DEF u
    <3>1. /\ HoldsNothing(u) /\ Course(u) /\ RevokedInView(u, audit)
          /\ WorksOnIssued(u, row)
      BY <1>1, <2>1 DEF Local, HoldsNothing, Course, RevokedInView, Revoker,
         WorksOnIssued
    <3>2. RevokedRowsLogged(u, audit)
      BY <1>1, <2>1 DEF Local, RevokedRowsLogged, Revoker
    <3>3. CrlCovers(u, audit) /\ Replaces(u, row)
      BY <1>1, <2>1 DEF Local, CrlCovers, Replaces
    <3> QED
      BY <3>1, <3>2, <3>3 DEF Local
  <2> QED
    BY <1>1, <1>4, <2>1, <2>2, GoesInv DEF LogAssign
<1> QED
  BY <1>2, <1>3, <1>4

\* What is left of a transaction that ended.
LEMMA EndedLocal ==
  ASSUME NEW r, NEW a
  PROVE  Local(Ended, r, a) /\ ~Ended.ca
<1>1. /\ Ended.pc = "done" /\ Ended.kind = "none" /\ Ended.rows = {}
      /\ Ended.ca = FALSE /\ Ended.revoked = {} /\ Ended.todo = {}
  BY DEF Ended, Blank
<1> QED
  BY <1>1, FreshLocal DEF Revoker

\* A commit publishes one transaction's rows, events and CRL at once; what the
\* others hold stays covered, for whoever adds an event holds the CA row.
LEMMA CommitInv ==
  ASSUME IInv, TypeInv', NEW p \in Req, Commit(p)
  PROVE  IInv'
<1>. DEFINE t == tx[p]
<1>1. /\ t \in Tx /\ Local(t, row, audit) /\ t.pc = "commit"
      /\ t.rows \subseteq Cert /\ t.revoked \subseteq Cert
  BY DEF IInv, TypeInv, TypeOK, Commit, Tx
<1>2. /\ audit' = audit \cup t.revoked
      /\ crl' = IF t.ca THEN t.crl ELSE crl
      /\ \A q \in Req : tx'[q] = IF q = p THEN Ended ELSE tx[q]
      /\ \A c \in Cert : row'[c] = IF c \in t.rows THEN t.put[c] ELSE row[c]
  BY DEF Commit, View, IInv, TypeInv, TypeOK
<1>3. Issued(row') = Issued(row) \cup t.rows
  BY <1>1, <1>2 DEF Issued, Local, WorksOnIssued
<1>4. CaExclusive'
  BY <1>2, EndedLocal DEF IInv, CaExclusive
<1>5. Committed'
  <2>1. audit' \subseteq Issued(row')
    BY <1>1, <1>2, <1>3 DEF IInv, Committed, Local, WorksOnIssued
  <2>2. audit' \subseteq crl'.listed
    BY <1>1, <1>2 DEF IInv, Committed, Local, CrlCovers
  <2>3. RevocationRecorded'
    BY <1>1, <1>2 DEF IInv, Committed, RevocationRecorded, Local,
       RevokedRowsLogged
  <2>4. ASSUME NEW c \in Cert
        PROVE  /\ row'[c].status = "superseded" =>
                    row'[c].next \in Issued(row') \ {c}
               /\ row'[c].status = "active" => row'[c].next = NoCert
    <3>1. CASE c \in t.rows
      BY <1>1, <1>2, <1>3, <3>1 DEF Local, Replaces
    <3>2. CASE c \notin t.rows
      BY <1>2, <1>3, <3>2 DEF IInv, Committed, SupersededReplaced, Issued
    <3> QED
      BY <3>1, <3>2
  <2> QED
    BY <2>1, <2>2, <2>3, <2>4 DEF Committed, SupersededReplaced, Issued
<1>6. ASSUME NEW q \in Req PROVE Local(tx'[q], row', audit')
  <2>1. CASE q = p
    BY <1>2, <2>1, EndedLocal
  <2>2. CASE q # p
    <3>. DEFINE s == tx[q]
    <3>1. s = tx'[q] /\ Local(s, row, audit) /\ (s.ca => audit' = audit)
      BY <1>1, <1>2, <2>2 DEF IInv, CaExclusive, Local, CrlCovers
    <3>. HIDE DEF s
    <3>2. HoldsNothing(s) /\ Course(s) /\ WorksOnIssued(s, row')
      BY <1>3, <3>1 DEF Local, WorksOnIssued
    <3>3. RevokedRowsLogged(s, audit') /\ RevokedInView(s, audit')
      BY <1>2, <3>1 DEF Local, RevokedRowsLogged, RevokedInView
    <3>4. CrlCovers(s, audit')
      BY <3>1 DEF Local, CrlCovers
    <3>5. Replaces(s, row')
      BY <1>3, <3>1 DEF Local, Replaces
    <3> QED
      BY <3>1, <3>2, <3>3, <3>4, <3>5 DEF Local
  <2> QED
    BY <2>1, <2>2
<1> QED
  BY <1>4, <1>5, <1>6 DEF IInv

LEMMA NextInv == IInv /\ [Next]_vars => IInv'
<1>. SUFFICES ASSUME IInv, [Next]_vars PROVE IInv'
  OBVIOUS
<1>1. TypeInv'
  BY NextType DEF IInv
<1>2. ASSUME NEW p \in Req, Start(p) \/ Step(p) \/ Rollback(p) PROVE IInv'
  <2>1. CASE Start(p)
    BY <1>1, <2>1, StartInv
  <2>2. CASE Step(p)
    BY <1>1, <2>2, CutoffInv, WriteRowInv, CrlInv, LogInv, CommitInv DEF Step
  <2>3. CASE Rollback(p)
    BY <1>1, <2>3, EndedLocal, GoesInv DEF Rollback
  <2> QED
    BY <1>2, <2>1, <2>2, <2>3
<1>3. CASE UNCHANGED vars
  BY <1>1, <1>3 DEF vars, IInv, CaExclusive, Committed, RevocationRecorded,
     SupersededReplaced, Issued
<1> QED
  BY <1>2, <1>3 DEF Next

LEMMA Invariant == Spec => []IInv
BY InitInv, NextInv, PTL DEF Spec

-----------------------------------------------------------------------------
(* Where no certificate changes hands nothing is called revoked without its  *)
(* event.  A row that a renewal loaded before a revocation keeps the reason  *)
(* the revocation wrote under a seal that does not cover it: what looks      *)
(* wrong in a row always stands for a revocation, committed or about to be.  *)

\* The row would be called revoked, or would if it were written over.
Marked(r) == ~SealOK(r) \/ r.reason

\* The certificate a transaction is revoking, whose event is still to come.
Pending(t) == IF Revoker(t) /\ t.pc \in {"ca", "crl", "log"} THEN {t.cert} ELSE {}

\* What a transaction wrote, listed or loaded is marked for a revocation only.
Sound(t, a) ==
  /\ t.kind # "assign" /\ (t.kind = "none" => t.pc \in {"idle", "done"})
  /\ \A c \in t.rows : Marked(t.put[c]) => c \in a \cup t.revoked \cup Pending(t)
  /\ t.ca => t.crl.listed \subseteq a \cup t.revoked \cup Pending(t)
  /\ t.kind = "renew" /\ t.pc \in {"log", "row"} /\ Marked(t.seen) => t.cert \in a

SoundInv ==
  /\ \A c \in Cert : Marked(row[c]) => c \in audit
  /\ crl.listed \subseteq audit
  /\ \A p \in Req : Sound(tx[p], audit)

LEMMA InitSound == Init => SoundInv
<1>1. ASSUME NEW s PROVE ~Marked(NewRow(s, FirstApp))
  BY DEF Marked, NewRow, SealOK, Sealed
<1>2. Blank.kind = "none" /\ Blank.pc = "idle" /\ Blank.rows = {} /\ ~Blank.ca
  BY DEF Blank
<1> QED
  BY <1>1, <1>2 DEF Init, SoundInv, Sound, NoRow

LEMMA GoesSound ==
  ASSUME IInv, SoundInv, NEW p \in Req, NEW u, Goes(p, u), Sound(u, audit)
  PROVE  SoundInv'
BY DEF Goes, SoundInv, IInv, TypeInv, TypeOK

LEMMA StartSound ==
  ASSUME App = {FirstApp}, IInv, SoundInv, NEW p \in Req, Start(p)
  PROVE  SoundInv'
<1>0. Blank.rows = {} /\ Blank.ca = FALSE
  BY DEF Blank
<1>1. CASE \E c \in Cert : StartRevoke(p, c)
  <2>. PICK c \in Cert : StartRevoke(p, c)
    BY <1>1
  <2>. DEFINE u == [Blank EXCEPT !.kind = "revoke", !.cert = c, !.seen = row[c],
                     !.pc = IF row[c].status = "revoked" THEN "ca" ELSE "row"]
  <2>1. u.kind = "revoke" /\ u.rows = {} /\ u.ca = FALSE
    BY DEF Blank
  <2> QED
    BY <2>1, GoesSound DEF StartRevoke, Sound
<1>2. CASE \E S \in SUBSET Cert, decided \in BOOLEAN : StartCutoff(p, S, decided)
  <2>. PICK S \in SUBSET Cert, decided \in BOOLEAN : StartCutoff(p, S, decided)
    BY <1>2
  <2>. DEFINE u == [Blank EXCEPT !.kind = "cutoff", !.todo = S,
                     !.log = decided, !.pc = "next"]
  <2>1. u.kind = "cutoff" /\ u.rows = {} /\ u.ca = FALSE
    BY DEF Blank
  <2> QED
    BY <2>1, GoesSound DEF StartCutoff, Sound
<1>3. CASE \E c, n \in Cert : StartRenew(p, c, n)
  <2>. PICK c \in Cert, n \in Cert : StartRenew(p, c, n)
    BY <1>3
  <2>. DEFINE u == [Blank EXCEPT !.kind = "renew", !.cert = c, !.seen = row[c],
                     !.new = n, !.pc = "log"]
  <2>1. /\ u.kind = "renew" /\ u.rows = {} /\ u.ca = FALSE
        /\ u.cert = c /\ u.seen = row[c]
    BY DEF Blank
  <2> QED
    BY <2>1, GoesSound DEF StartRenew, Sound, SoundInv
<1>4. ~\E c \in Cert, a \in App : StartAssign(p, c, a)
  BY DEF StartAssign, IInv, TypeInv, TypeOK, Row
<1>5. CASE StartCrl(p)
  <2>. DEFINE u == [Blank EXCEPT !.kind = "crl", !.number = crl.number,
                     !.pc = "crl"]
  <2>1. u.kind = "crl" /\ u.rows = {} /\ u.ca = FALSE
    BY DEF Blank
  <2> QED
    BY <1>5, <2>1, GoesSound DEF StartCrl, Sound
<1> QED
  BY <1>1, <1>2, <1>3, <1>4, <1>5 DEF Start

\* A renewal whose copy is older than the row writes a marked row only over one
\* that a revocation has marked.
LEMMA WrittenMarked ==
  ASSUME App = {FirstApp}, NEW cur \in Row, NEW seen \in Row, NEW n,
         seen.status = "active", ~Marked(seen),
         Marked(Written(cur, seen, [seen EXCEPT !.status = "superseded", !.next = n]))
  PROVE  Marked(cur)
<1>. DEFINE new == [seen EXCEPT !.status = "superseded", !.next = n]
            w == Written(cur, seen, new)
<1>1. /\ new.status = "superseded" /\ new.reason = seen.reason
      /\ new.app = seen.app /\ seen.app = cur.app /\ seen.reason = FALSE
      /\ SealOK(seen)
  BY DEF Row, Marked
<1>. HIDE DEF new
<1>2. /\ w.status = "superseded" /\ w.reason = cur.reason /\ w.app = cur.app
      /\ w.seal = Sealed(new)
  BY <1>1 DEF Written
<1>3. cur.reason # FALSE
  BY <1>1, <1>2 DEF Marked, SealOK, Sealed, new
<1> QED
  BY <1>3 DEF Marked, Row

LEMMA WriteRowSound ==
  ASSUME App = {FirstApp}, IInv, SoundInv, NEW p \in Req, WriteRow(p)
  PROVE  SoundInv'
<1>. DEFINE t == tx[p]
            cur == View(p)[t.cert]
            w == Written(cur, t.seen, Changed(p))
            u == [t EXCEPT !.rows = @ \cup {t.cert}, !.put[t.cert] = w,
                    !.pc = IF t.kind \in {"revoke", "cutoff"} THEN "ca"
                           ELSE "commit"]
<1>1. /\ t \in Tx /\ Local(t, row, audit) /\ Sound(t, audit) /\ t.pc = "row"
      /\ t.cert \in Cert
  BY DEF IInv, TypeInv, TypeOK, AtHand, WriteRow, SoundInv
<1>2. /\ u.kind = t.kind /\ u.cert = t.cert /\ u.rows = t.rows \cup {t.cert}
      /\ \A c \in Cert : u.put[c] = IF c = t.cert THEN w ELSE t.put[c]
      /\ u.ca = t.ca /\ u.crl = t.crl /\ u.revoked = t.revoked
      /\ u.pc = IF Revoker(t) THEN "ca" ELSE "commit"
      /\ t.rows \subseteq Cert
  BY <1>1 DEF Tx, Revoker
<1>3. Pending(t) = {} /\ Pending(u) = IF Revoker(t) THEN {t.cert} ELSE {}
  BY <1>1, <1>2 DEF Pending, Revoker
<1>4. ASSUME ~Revoker(t), Marked(w) PROVE t.cert \in audit \cup t.revoked
  <2>1. t.kind = "renew"
    BY <1>1, <1>4 DEF Tx, Kind, Revoker, Sound, Local, Course
  <2>2. t.seen.status = "active" /\ (Marked(t.seen) => t.cert \in audit)
    BY <1>1, <2>1 DEF Local, Replaces, Sound
  <2>3. cur \in Row /\ t.seen \in Row
    BY <1>1, ViewType DEF IInv, TypeInv, Tx
  <2>4. Changed(p) = [t.seen EXCEPT !.status = "superseded", !.next = t.new]
    BY <2>1 DEF Changed
  <2>5. Marked(cur) => t.cert \in audit \cup t.revoked
    BY <1>1, <1>3, <1>4 DEF View, Sound, SoundInv
  <2> QED
    BY <1>4, <2>2, <2>3, <2>4, <2>5, WrittenMarked
<1>5. Sound(u, audit)
  <2>. HIDE DEF u, w
  <2> QED BY <1>1, <1>2, <1>3, <1>4 DEF Sound
<1> QED
  BY <1>5, GoesSound DEF WriteRow

\* A CRL lists what is marked, revoked or on record: revocations all.
LEMMA ListedSound ==
  ASSUME IInv, SoundInv, NEW p \in Req, tx[p].pc = "crl"
  PROVE  Listed(p) \subseteq audit \cup tx[p].revoked \cup Pending(tx[p])
<1>. DEFINE t == tx[p]
<1>1. /\ t \in Tx /\ Local(t, row, audit) /\ Sound(t, audit)
      /\ \A c \in Cert : row[c].status = "revoked" \/ Marked(row[c]) => c \in audit
  BY DEF IInv, TypeInv, TypeOK, SoundInv, Committed, RevocationRecorded
<1>2. ASSUME NEW c \in Cert, View(p)[c].status = "revoked" \/ Marked(View(p)[c])
      PROVE  c \in audit \cup t.revoked \cup Pending(t)
  <2>1. CASE c \in t.rows
    BY <1>1, <1>2, <2>1 DEF View, Sound, Local, RevokedRowsLogged, Pending
  <2>2. CASE c \notin t.rows
    BY <1>1, <1>2, <2>2 DEF View
  <2> QED BY <2>1, <2>2
<1> QED
  BY <1>2 DEF Listed, Trusted, Marked

LEMMA StepSound ==
  ASSUME App = {FirstApp}, IInv, SoundInv, NEW p \in Req, Step(p) \/ Rollback(p)
  PROVE  SoundInv'
<1>. DEFINE t == tx[p]
<1>1. t \in Tx /\ Local(t, row, audit) /\ Sound(t, audit) /\ AtHand(t)
  BY DEF IInv, TypeInv, TypeOK, SoundInv
<1>2. CASE \E c \in Cert : CutoffNext(p, c)
  <2>. PICK c \in Cert : CutoffNext(p, c)
    BY <1>2
  <2>. DEFINE left == [t EXCEPT !.todo = @ \ {c}]
              u == IF row[c].status = "revoked" THEN left
                   ELSE [left EXCEPT !.cert = c, !.seen = row[c], !.pc = "row"]
  <2>1. /\ u.kind = t.kind /\ u.rows = t.rows /\ u.put = t.put
        /\ u.ca = t.ca /\ u.crl = t.crl /\ u.revoked = t.revoked
        /\ u.pc \in {"next", "row"} /\ t.pc = "next"
    BY <1>1 DEF CutoffNext, Tx
  <2>2. t.kind = "cutoff"
    BY <1>1, <2>1 DEF Local, Course
  <2>3. Sound(u, audit)
    <3>. HIDE DEF u
    <3> QED BY <1>1, <2>1, <2>2 DEF Sound, Pending
  <2> QED
    BY <2>3, GoesSound DEF CutoffNext
<1>3. CASE CutoffEnd(p)
  <2>. DEFINE u == [t EXCEPT !.pc = "commit"]
  <2>1. /\ u.kind = t.kind /\ u.rows = t.rows /\ u.put = t.put
        /\ u.ca = t.ca /\ u.crl = t.crl /\ u.revoked = t.revoked
        /\ u.pc = "commit" /\ t.pc = "next"
    BY <1>1, <1>3 DEF CutoffEnd, Tx
  <2>2. Sound(u, audit)
    <3>. HIDE DEF u
    <3> QED BY <1>1, <2>1 DEF Sound, Pending
  <2> QED
    BY <1>3, <2>2, GoesSound DEF CutoffEnd
<1>4. CASE ReadCa(p)
  <2>. DEFINE u == [t EXCEPT !.pc = "crl",
                      !.number = IF t.ca THEN t.crl.number ELSE crl.number]
  <2>1. /\ u.kind = t.kind /\ u.cert = t.cert /\ u.rows = t.rows
        /\ u.put = t.put /\ u.ca = t.ca /\ u.crl = t.crl
        /\ u.revoked = t.revoked /\ u.pc = "crl" /\ t.pc = "ca"
    BY <1>1, <1>4 DEF Tx, ReadCa
  <2>2. Sound(u, audit)
    <3>. HIDE DEF u
    <3>1. Pending(u) = Pending(t)
      BY <2>1 DEF Pending, Revoker
    <3>2. u.kind # "none"
      BY <1>1, <2>1 DEF Sound
    <3> QED BY <1>1, <2>1, <3>1, <3>2 DEF Sound
  <2> QED
    BY <1>4, <2>2, GoesSound DEF ReadCa
<1>5. CASE GenerateCrl(p)
  <2>. DEFINE u == [t EXCEPT !.ca = TRUE,
                      !.crl = [number |-> t.number + 1, listed |-> Listed(p)],
                      !.pc = IF t.kind = "crl" THEN "commit" ELSE "log"]
  <2>1. /\ u.kind = t.kind /\ u.cert = t.cert /\ u.rows = t.rows
        /\ u.put = t.put /\ u.ca = TRUE /\ u.crl.listed = Listed(p)
        /\ u.revoked = t.revoked /\ t.pc = "crl"
        /\ u.pc = IF t.kind = "crl" THEN "commit" ELSE "log"
    BY <1>1, <1>5 DEF Tx, GenerateCrl
  <2>2. Sound(u, audit)
    <3>. HIDE DEF u
    <3>1. Pending(u) = Pending(t)
      BY <2>1 DEF Pending, Revoker
    <3>2. t.kind \notin {"none", "renew"}
      BY <1>1, <2>1 DEF Sound, Local, Course
    <3> QED BY <1>1, <2>1, <3>1, <3>2, ListedSound DEF Sound
  <2> QED
    BY <1>5, <2>2, GoesSound DEF GenerateCrl
<1>6. CASE LogRevoke(p)
  <2>. DEFINE u == [t EXCEPT !.log = TRUE, !.revoked = @ \cup {t.cert},
                      !.pc = IF t.kind = "cutoff" THEN "next" ELSE "commit"]
  <2>1. /\ u.kind = t.kind /\ u.rows = t.rows /\ u.put = t.put
        /\ u.ca = t.ca /\ u.crl = t.crl /\ u.revoked = t.revoked \cup {t.cert}
        /\ u.pc \in {"next", "commit"} /\ Revoker(t) /\ t.pc = "log"
    BY <1>1, <1>6 DEF Tx, LogRevoke, Revoker
  <2>2. Sound(u, audit)
    <3>. HIDE DEF u
    <3> QED BY <1>1, <2>1 DEF Sound, Pending, Revoker
  <2> QED
    BY <1>6, <2>2, GoesSound DEF LogRevoke
<1>7. CASE Issue(p)
  <2>. DEFINE w == NewRow("active", t.seen.app)
              u == [t EXCEPT !.log = TRUE, !.rows = @ \cup {t.new},
                      !.put[t.new] = w, !.pc = "row"]
  <2>1. t.kind = "renew" /\ t.new \in Cert /\ t.rows \subseteq Cert /\ t.pc = "log"
    BY <1>1, <1>7 DEF Issue, AtHand, Tx
  <2>2. /\ u.kind = t.kind /\ u.cert = t.cert /\ u.seen = t.seen
        /\ u.rows = t.rows \cup {t.new}
        /\ \A c \in Cert : u.put[c] = IF c = t.new THEN w ELSE t.put[c]
        /\ u.ca = t.ca /\ u.crl = t.crl /\ u.revoked = t.revoked /\ u.pc = "row"
    BY <1>1, <2>1 DEF Tx
  <2>3. ~Marked(w)
    BY DEF NewRow, Marked, SealOK, Sealed
  <2>4. Sound(u, audit)
    <3>. HIDE DEF u, w
    <3>1. Pending(u) = {} /\ Pending(t) = {}
      BY <2>1, <2>2 DEF Pending, Revoker
    <3> QED BY <1>1, <2>1, <2>2, <2>3, <3>1 DEF Sound
  <2> QED
    BY <1>7, <2>4, GoesSound DEF Issue
<1>8. ~LogAssign(p)
  BY <1>1 DEF LogAssign, Sound
<1>9. Sound(Ended, audit) /\ Sound(Ended, audit')
  BY DEF Sound, Ended, Blank
<1>10. CASE Commit(p)
  <2>1. /\ audit' = audit \cup t.revoked /\ t.pc = "commit"
        /\ crl' = IF t.ca THEN t.crl ELSE crl
        /\ \A q \in Req : tx'[q] = IF q = p THEN Ended ELSE tx[q]
        /\ \A c \in Cert : row'[c] = IF c \in t.rows THEN t.put[c] ELSE row[c]
    BY <1>10 DEF Commit, View, IInv, TypeInv, TypeOK
  <2>2. Pending(t) = {}
    BY <2>1 DEF Pending
  <2>3. \A c \in Cert : Marked(row'[c]) => c \in audit'
    BY <1>1, <2>1, <2>2 DEF SoundInv, Sound
  <2>4. crl'.listed \subseteq audit'
    BY <1>1, <2>1, <2>2 DEF SoundInv, Sound
  <2>5. ASSUME NEW q \in Req PROVE Sound(tx'[q], audit')
    <3>1. CASE q = p
      BY <1>9, <2>1, <3>1
    <3>2. CASE q # p
      <4>1. tx'[q] = tx[q] /\ Sound(tx[q], audit)
        BY <2>1, <3>2 DEF SoundInv
      <4> QED BY <2>1, <4>1 DEF Sound
    <3> QED BY <3>1, <3>2
  <2> QED
    BY <2>3, <2>4, <2>5 DEF SoundInv
<1>11. CASE Rollback(p)
  BY <1>9, <1>11, GoesSound DEF Rollback
<1> QED
  BY <1>2, <1>3, <1>4, <1>5, <1>6, <1>7, <1>8, <1>10, <1>11, WriteRowSound DEF Step

LEMMA NextSound ==
  ASSUME App = {FirstApp}
  PROVE  IInv /\ SoundInv /\ [Next]_vars => SoundInv'
<1>. SUFFICES ASSUME IInv, SoundInv, [Next]_vars PROVE SoundInv'
  OBVIOUS
<1>1. CASE Next
  BY <1>1, StartSound, StepSound DEF Next
<1>2. CASE UNCHANGED vars
  BY <1>2 DEF vars, SoundInv
<1> QED
  BY <1>1, <1>2

-----------------------------------------------------------------------------
(* To relying parties revocations happen at once.  What is left to show is   *)
(* that a commit makes at most one certificate known, which nobody knew, and *)
(* none of those that revoke.                                                *)

\* A transaction writes rows that were there, and the one it issues.
Tidy(t, r) ==
  /\ t.rows \subseteq Issued(r) \cup {t.new}
  /\ t.new \in Cert => t.kind = "renew"
  /\ t.kind = "renew" => ~t.ca /\ t.revoked = {}

\* The certificate that is being issued is one transaction's, and not there yet.
Unshared ==
  \A p \in Req : tx[p].new \in Cert =>
    /\ row[tx[p].new].status = "none"
    /\ \A q \in Req \ {p} : tx[q].new # tx[p].new

TidyInv == Unshared /\ \A p \in Req : Tidy(tx[p], row)

LEMMA InitTidy == Init => TidyInv
<1>1. /\ Blank.rows = {} /\ Blank.new = NoCert /\ Blank.kind = "none"
      /\ Blank.ca = FALSE /\ Blank.revoked = {}
  BY DEF Blank
<1>2. ASSUME Init, NEW p \in Req PROVE tx[p] = Blank
  BY <1>2 DEF Init
<1> QED
  BY <1>1, <1>2 DEF TidyInv, Unshared, Tidy

\* Inside a transaction only its own rows change.
LEMMA GoesTidy ==
  ASSUME IInv, TidyInv, NEW p \in Req, NEW u, Goes(p, u), Tidy(u, row),
         u.new \in Cert =>
           \/ u.new = tx[p].new
           \/ row[u.new].status = "none" /\ \A q \in Req : tx[q].new # u.new
  PROVE  TidyInv'
<1>1. /\ row' = row
      /\ \A q \in Req : tx'[q] = IF q = p THEN u ELSE tx[q]
  BY DEF Goes, IInv, TypeInv, TypeOK
<1>2. \A q \in Req : Tidy(tx'[q], row')
  BY <1>1 DEF TidyInv
<1>3. Unshared'
  BY <1>1 DEF TidyInv, Unshared
<1> QED
  BY <1>2, <1>3 DEF TidyInv

LEMMA StartTidy ==
  ASSUME IInv, TidyInv, NEW p \in Req, Start(p)
  PROVE  TidyInv'
<1>1. ASSUME NEW u, Goes(p, u), u.rows = {}, ~u.ca, u.revoked = {}, u.new = NoCert
      PROVE  TidyInv'
  <2>1. Tidy(u, row)
    BY <1>1 DEF Tidy
  <2> QED
    BY <1>1, <2>1, GoesTidy
<1>2. ASSUME NEW c \in Cert, StartRevoke(p, c) PROVE TidyInv'
  <2>. DEFINE u == [Blank EXCEPT !.kind = "revoke", !.cert = c, !.seen = row[c],
                      !.pc = IF row[c].status = "revoked" THEN "ca" ELSE "row"]
  <2>1. Goes(p, u)
    BY <1>2 DEF StartRevoke
  <2>2. u.rows = {} /\ ~u.ca /\ u.revoked = {} /\ u.new = NoCert
    BY DEF Blank
  <2>. HIDE DEF u
  <2> QED
    BY <1>1, <2>1, <2>2
<1>3. ASSUME NEW S \in SUBSET Cert, NEW decided \in BOOLEAN,
             StartCutoff(p, S, decided)
      PROVE  TidyInv'
  <2>. DEFINE u == [Blank EXCEPT !.kind = "cutoff", !.todo = S, !.log = decided,
                      !.pc = "next"]
  <2>1. Goes(p, u)
    BY <1>3 DEF StartCutoff
  <2>2. u.rows = {} /\ ~u.ca /\ u.revoked = {} /\ u.new = NoCert
    BY DEF Blank
  <2>. HIDE DEF u
  <2> QED
    BY <1>1, <2>1, <2>2
<1>4. ASSUME NEW c \in Cert, NEW n \in Cert, StartRenew(p, c, n) PROVE TidyInv'
  <2>. DEFINE u == [Blank EXCEPT !.kind = "renew", !.cert = c, !.seen = row[c],
                      !.new = n, !.pc = "log"]
  <2>1. /\ u.rows = {} /\ ~u.ca /\ u.revoked = {}
        /\ u.new = n /\ u.kind = "renew"
    BY DEF Blank
  <2>2. /\ Goes(p, u) /\ row[n].status = "none"
        /\ \A q \in Req : tx[q].new # n
    BY <1>4 DEF StartRenew
  <2>. HIDE DEF u
  <2>3. Tidy(u, row)
    BY <2>1 DEF Tidy
  <2> QED
    BY <2>1, <2>2, <2>3, GoesTidy
<1>5. ASSUME NEW c \in Cert, NEW a \in App, StartAssign(p, c, a) PROVE TidyInv'
  <2>. DEFINE u == [Blank EXCEPT !.kind = "assign", !.cert = c, !.seen = row[c],
                      !.to = a, !.pc = "log"]
  <2>1. Goes(p, u)
    BY <1>5 DEF StartAssign
  <2>2. u.rows = {} /\ ~u.ca /\ u.revoked = {} /\ u.new = NoCert
    BY DEF Blank
  <2>. HIDE DEF u
  <2> QED
    BY <1>1, <2>1, <2>2
<1>6. ASSUME StartCrl(p) PROVE TidyInv'
  <2>. DEFINE u == [Blank EXCEPT !.kind = "crl", !.number = crl.number, !.pc = "crl"]
  <2>1. Goes(p, u)
    BY <1>6 DEF StartCrl
  <2>2. u.rows = {} /\ ~u.ca /\ u.revoked = {} /\ u.new = NoCert
    BY DEF Blank
  <2>. HIDE DEF u
  <2> QED
    BY <1>1, <2>1, <2>2
<1> QED
  BY <1>2, <1>3, <1>4, <1>5, <1>6 DEF Start

\* The steps of a transaction before it commits.
LEMMA StepTidy ==
  ASSUME IInv, TidyInv, NEW p \in Req, Step(p), ~Commit(p)
  PROVE  TidyInv'
<1>. DEFINE t == tx[p]
<1>1. /\ t \in Tx /\ Tidy(t, row) /\ Local(t, row, audit)
      /\ t.rows \subseteq Cert /\ t.revoked \subseteq Cert
  BY DEF IInv, TypeInv, TypeOK, TidyInv, Tx
<1>2. ASSUME NEW u, Goes(p, u), u.new = t.new, u.kind = t.kind,
             u.rows \subseteq Issued(row) \cup {t.new},
             t.kind = "renew" => ~u.ca /\ u.revoked = {}
      PROVE  TidyInv'
  <2>1. Tidy(u, row)
    BY <1>1, <1>2 DEF Tidy
  <2> QED
    BY <1>2, <2>1, GoesTidy
<1>3. CASE \/ \E c \in Cert : CutoffNext(p, c)
           \/ CutoffEnd(p) \/ ReadCa(p) \/ LogAssign(p)
  BY <1>1, <1>2, <1>3 DEF CutoffNext, CutoffEnd, ReadCa, LogAssign, Tidy, Tx
<1>4. CASE WriteRow(p)
  <2>1. t.cert \in Issued(row)
    BY <1>1, <1>4 DEF WriteRow, Local, WorksOnIssued, Course
  <2> QED
    BY <1>1, <1>2, <1>4, <2>1, ZenonT(60) DEF WriteRow, Tidy, Tx
<1>5. CASE GenerateCrl(p)
  <2>1. t.kind # "renew"
    BY <1>1, <1>5 DEF GenerateCrl, Local, Course
  <2> QED
    BY <1>1, <1>2, <1>5, <2>1 DEF GenerateCrl, Tidy, Tx
<1>6. CASE LogRevoke(p)
  BY <1>1, <1>2, <1>6 DEF LogRevoke, Tidy, Tx
<1>7. CASE Issue(p)
  BY <1>1, <1>2, <1>7 DEF Issue, Tidy, Tx
<1> QED
  BY <1>3, <1>4, <1>5, <1>6, <1>7 DEF Step

\* A commit makes no row known that another transaction issues.
LEMMA CommitTidy ==
  ASSUME IInv, TidyInv, NEW p \in Req, Commit(p)
  PROVE  TidyInv'
<1>. DEFINE t == tx[p]
<1>1. /\ t.rows \subseteq Cert /\ Tidy(t, row) /\ WorksOnIssued(t, row)
  BY DEF IInv, TypeInv, TypeOK, TidyInv, Tx, Local
<1>2. /\ \A q \in Req : tx'[q] = IF q = p THEN Ended ELSE tx[q]
      /\ \A c \in Cert : row'[c] = IF c \in t.rows THEN t.put[c] ELSE row[c]
  BY DEF Commit, View, IInv, TypeInv, TypeOK
<1>3. Issued(row') = Issued(row) \cup t.rows
  BY <1>1, <1>2 DEF Issued, WorksOnIssued
<1>4. /\ Ended.rows = {} /\ Ended.new = NoCert /\ ~Ended.ca /\ Ended.revoked = {}
      /\ Ended.kind = "none"
  BY DEF Ended, Blank
<1>5. ASSUME NEW q \in Req PROVE Tidy(tx'[q], row')
  BY <1>2, <1>3, <1>4 DEF TidyInv, Tidy
<1>6. ASSUME NEW q \in Req, tx'[q].new \in Cert
      PROVE  /\ row'[tx'[q].new].status = "none"
             /\ \A s \in Req \ {q} : tx'[s].new # tx'[q].new
  <2>1. q # p /\ tx'[q] = tx[q]
    BY <1>2, <1>4, <1>6
  <2>2. /\ row[tx[q].new].status = "none" /\ tx[q].new \in Cert
        /\ \A s \in Req \ {q} : tx[s].new # tx[q].new
    BY <1>6, <2>1 DEF TidyInv, Unshared
  <2>3. tx[q].new \notin t.rows
    BY <1>1, <2>1, <2>2 DEF Tidy, Issued
  <2> QED
    BY <1>2, <1>4, <2>1, <2>2, <2>3
<1> QED
  BY <1>5, <1>6 DEF TidyInv, Unshared

LEMMA NextTidy == IInv /\ TidyInv /\ [Next]_vars => TidyInv'
<1>. SUFFICES ASSUME IInv, TidyInv, [Next]_vars PROVE TidyInv'
  OBVIOUS
<1>1. ASSUME NEW p \in Req, Start(p) \/ Step(p) \/ Rollback(p) PROVE TidyInv'
  <2>1. CASE Rollback(p)
    <3>1. Ended.rows = {} /\ Ended.new = NoCert /\ Ended.kind = "none"
      BY DEF Ended, Blank
    <3>2. Tidy(Ended, row)
      BY <3>1 DEF Tidy
    <3> QED
      BY <2>1, <3>1, <3>2, GoesTidy DEF Rollback
  <2> QED
    BY <1>1, <2>1, StartTidy, StepTidy, CommitTidy
<1>2. CASE UNCHANGED vars
  BY <1>2 DEF vars, TidyInv, Unshared
<1> QED
  BY <1>1, <1>2 DEF Next

\* What a relying party is told of a certificate: what is on record, of a row that
\* was issued.
LEMMA AnswerIs ==
  ASSUME IInv, SoundInv, NEW c \in Cert
  PROVE  Answer(c) = IF c \in audit THEN "revoked"
                     ELSE IF c \in Issued(row) THEN "good" ELSE "unknown"
<1>1. Reported(c) = IF c \in audit THEN "revoked" ELSE row[c].status
  BY DEF SoundInv, Marked, Reported, Trusted
<1>2. row[c].status = "revoked" => c \in audit
  BY DEF IInv, Committed, RevocationRecorded
<1>3. c \in audit => c \in Issued(row)
  BY DEF IInv, Committed
<1> QED
  BY <1>1, <1>2, <1>3 DEF Answer, Issued

LEMMA ListedIs == IInv /\ SoundInv => crl.listed = audit
BY DEF IInv, Committed, SoundInv

\* The answers before a commit and after it are known as functions.
Told(a, r) ==
  [c \in Cert |-> IF c \in a THEN "revoked" ELSE IF c \in r THEN "good" ELSE "unknown"]

LEMMA AnswersAre ==
  IInv /\ SoundInv => [c \in Cert |-> Answer(c)] = Told(audit, Issued(row))
BY AnswerIs DEF Told

LEMMA ShownCommit ==
  ASSUME IInv, TidyInv, NEW p \in Req, Commit(p),
         [c \in Cert |-> Answer(c)] = Told(audit, Issued(row)),
         [c \in Cert |-> Answer(c)]' = Told(audit', Issued(row')),
         crl.listed = audit, crl'.listed = audit'
  PROVE  RelyingParties!Next
<1>. DEFINE t == tx[p]
            now == [c \in Cert |-> Answer(c)]
<1>1. /\ t.rows \subseteq Cert /\ t.revoked \subseteq Issued(row)
      /\ Tidy(t, row) /\ WorksOnIssued(t, row) /\ audit \subseteq Issued(row)
  BY DEF IInv, TypeInv, TypeOK, TidyInv, Tx, Local, WorksOnIssued, Committed
<1>2. /\ audit' = audit \cup t.revoked
      /\ \A c \in Cert : row'[c] = IF c \in t.rows THEN t.put[c] ELSE row[c]
  BY DEF Commit, View, IInv, TypeInv, TypeOK
<1>3. Issued(row') = Issued(row) \cup t.rows
  BY <1>1, <1>2 DEF Issued, WorksOnIssued
<1>4. now = Told(audit, Issued(row)) /\ now' = Told(audit', Issued(row'))
  OBVIOUS
<1>. HIDE DEF now
<1>5. CASE t.new \in t.rows
  <2>1. t.new \in Cert /\ t.new \notin Issued(row)
    BY <1>1, <1>5 DEF TidyInv, Unshared, Issued
  <2>2. audit' = audit /\ Issued(row') = Issued(row) \cup {t.new}
    BY <1>1, <1>2, <1>3, <1>5, <2>1 DEF Tidy
  <2>3. now[t.new] = "unknown" /\ now' = [now EXCEPT ![t.new] = "good"]
    BY <1>1, <1>4, <2>1, <2>2 DEF Told
  <2>4. RelyingParties!Issue(t.new)
    BY <2>2, <2>3 DEF RelyingParties!Issue, now
  <2> QED
    BY <2>1, <2>4 DEF RelyingParties!Next
<1>6. CASE t.new \notin t.rows
  <2>1. Issued(row') = Issued(row)
    BY <1>1, <1>3, <1>6 DEF Tidy
  <2>2. \A c \in t.revoked : now[c] # "unknown"
    BY <1>1, <1>4 DEF Told, Issued
  <2>3. now' = [c \in Cert |-> IF c \in t.revoked THEN "revoked" ELSE now[c]]
    BY <1>2, <1>4, <2>1 DEF Told
  <2>4. RelyingParties!Revoke(t.revoked)
    BY <1>2, <2>2, <2>3 DEF RelyingParties!Revoke, now
  <2>5. t.revoked \in SUBSET Cert
    BY <1>1 DEF Issued
  <2> QED
    BY <2>4, <2>5 DEF RelyingParties!Next
<1> QED
  BY <1>5, <1>6

-----------------------------------------------------------------------------
(* The theorems *)

\* A committed revocation is answered "revoked" and is on the published CRL,
\* whatever runs beside it and however often handlers fail half way.
THEOREM RevocationEffectiveAlways == Spec => []RevocationEffective
<1>1. IInv => RevocationEffective
  BY DEF IInv, Committed, RevocationEffective, Reported, Trusted
<1> QED
  BY <1>1, Invariant, PTL

\* The table never shows a revocation the audit trail does not have, whichever
\* handler wrote the row from whichever copy.
THEOREM RevocationRecordedAlways == Spec => []RevocationRecorded
<1>1. IInv => RevocationRecorded
  BY DEF IInv, Committed
<1> QED
  BY <1>1, Invariant, PTL

\* A certificate is superseded only by another one that was issued.
THEOREM SupersededReplacedAlways == Spec => []SupersededReplaced
<1>1. IInv => SupersededReplaced
  BY DEF IInv, Committed
<1> QED
  BY <1>1, Invariant, PTL

\* Where no certificate can change hands, the CRL and OCSP agree on every
\* certificate, and neither calls one revoked whose revocation is not on record,
\* also after a renewal has written over a row it loaded before a revocation.
THEOREM AnswersAgreeAlways ==
  ASSUME App = {FirstApp}
  PROVE  Spec => []AnswersAgree
<1>1. Init => SoundInv
  BY InitSound
<1>2. IInv /\ SoundInv /\ [Next]_vars => SoundInv'
  BY NextSound
<1>3. IInv /\ SoundInv => AnswersAgree
  BY DEF IInv, Committed, RevocationRecorded, SoundInv, Marked, AnswersAgree, Reported,
     Trusted
<1> QED
  BY <1>1, <1>2, <1>3, Invariant, PTL DEF Spec

\* Where no certificate can change hands, revocation is one step to relying parties:
\* OCSP, the CRL and the audit trail change together and only add, however
\* revocations, campaigns, renewals and CRLs interleave between their reads and
\* their commits.
THEOREM RevokedAtOnceAlways ==
  ASSUME App = {FirstApp}
  PROVE  Spec => RevokedAtOnce
<1>1. Init => SoundInv
  BY InitSound
<1>2. IInv /\ SoundInv /\ [Next]_vars => SoundInv'
  BY NextSound
<1>3. ASSUME Init PROVE RelyingParties!Init
  <2>1. crl.listed = {} /\ audit = {}
    BY <1>3 DEF Init
  <2>2. ASSUME NEW c \in Cert PROVE Answer(c) \in {"unknown", "good"}
    <3>1. SealOK(row[c]) /\ row[c].status \in {"none", "active"}
      BY <1>3 DEF Init, SealOK, Sealed, NewRow, NoRow
    <3> QED
      BY <2>1, <3>1 DEF Answer, Reported, Trusted
  <2> QED
    BY <2>1, <2>2 DEF RelyingParties!Init
<1>4. IInv /\ SoundInv => [c \in Cert |-> Answer(c)] = Told(audit, Issued(row))
                          /\ crl.listed = audit
  BY AnswersAre, ListedIs
<1>5. ASSUME IInv, SoundInv, TidyInv, [Next]_vars,
             [c \in Cert |-> Answer(c)]' = Told(audit', Issued(row')), crl'.listed = audit'
      PROVE  [RelyingParties!Next]_(RelyingParties!revocationVars)
  <2>1. ASSUME NEW p \in Req, Commit(p) PROVE RelyingParties!Next
    BY <1>4, <1>5, <2>1, ShownCommit
  <2>2. CASE UNCHANGED <<row, audit, crl>>
    BY <2>2 DEF RelyingParties!revocationVars, Answer, Reported
  <2>3. \/ \E p \in Req : Commit(p)
        \/ UNCHANGED <<row, audit, crl>>
    BY <1>5, ZenonT(60) DEF Next, vars, Start, StartRevoke, StartCutoff, StartRenew, StartAssign,
       StartCrl, Step, CutoffNext, CutoffEnd, WriteRow, ReadCa, GenerateCrl, LogRevoke,
       Issue, LogAssign, Rollback, Goes
  <2> QED
    BY <2>1, <2>2, <2>3
<1>6. /\ [c \in Cert |-> Answer(c)]' = Told(audit, Issued(row))'
      /\ crl'.listed = audit'
      => [c \in Cert |-> Answer(c)]' = Told(audit', Issued(row')) /\ crl'.listed = audit'
  BY DEF Told, Issued
<1>7. /\ IInv /\ SoundInv /\ TidyInv /\ [Next]_vars
      /\ ([c \in Cert |-> Answer(c)] = Told(audit, Issued(row)) /\ crl.listed = audit)'
      => [RelyingParties!Next]_(RelyingParties!revocationVars)
  BY <1>5, <1>6
<1> QED
  BY <1>1, <1>2, <1>3, <1>4, <1>7, InitTidy, NextTidy, Invariant, PTL
     DEF Spec, RevokedAtOnce, RelyingParties!Spec

=============================================================================
