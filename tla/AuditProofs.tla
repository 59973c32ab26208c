---------------------------- MODULE AuditProofs ----------------------------
(***************************************************************************)
(* Proofs about AuditTrail and AuditShipping, for every number of writers, *)
(* passes and events and every batch size.                                 *)
(*                                                                         *)
(* The trail: at most one transaction has uncommitted rows (OneLock,       *)
(* RowsUnderLock), and what it sees is a chain (Chained) in which every    *)
(* row but the last has a successor.  So the unique prev_hash alone makes  *)
(* a stale head fail: the row it names has a successor already.            *)
(*                                                                         *)
(* Shipping: every event up to a cursor has been received (Covers), for    *)
(* the committed cursor and for the one each pass works with, and what is  *)
(* left of a batch goes on from what was received (Ready).  So a new       *)
(* record that arrives is always the successor of the receiver's last.     *)
(***************************************************************************)
EXTENDS AuditShipping, WellFoundedInduction, FiniteSetTheorems, TLAPS

-----------------------------------------------------------------------------
(* The least and the greatest row *)

\* A non-empty set of naturals has a least element.
LEMMA LeastNat ==
  ASSUME NEW T \in SUBSET Nat, T # {}
  PROVE  \E n \in T : \A m \in T : n <= m
<1>. DEFINE R == {ss \in Nat \X Nat : ss[1] < ss[2]}
<1>1. IsWellFoundedOn(R, Nat)
  BY NatLessThanWellFounded DEF OpToRel
<1>2. PICK n \in T : \A m \in T : <<m, n>> \notin R
  BY <1>1, WFMin
<1>3. ASSUME NEW m \in T PROVE n <= m
  <2>1. <<m, n>> \notin R
    BY <1>2
  <2>2. ~(m < n)
    BY <2>1
  <2>3. m \in Nat /\ n \in Nat
    OBVIOUS
  <2>. QED BY <2>2, <2>3
<1>. HIDE DEF R
<1>. QED BY <1>3

\* First: the row of a non-empty set with the lowest id.
LEMMA FirstIs ==
  ASSUME NEW S \in SUBSET Row, S # {}
  PROVE  First(S) \in S /\ \A f \in S : First(S).id <= f.id
<1>. DEFINE T == {e.id : e \in S}
<1>1. T \in SUBSET Nat /\ T # {}
  BY DEF Row
<1>2. PICK n \in T : \A m \in T : n <= m
  BY <1>1, LeastNat
<1>3. \E e \in S : \A f \in S : e.id <= f.id
  BY <1>2
<1>. QED BY <1>3 DEF First

IsLast(S, e) == e \in S /\ \A f \in S : f.id <= e.id

\* Last: the row with the highest id, where ids are bounded.
LEMMA LastIs ==
  ASSUME NEW S \in SUBSET Row, S # {}, NEW b \in Nat, \A e \in S : e.id <= b
  PROVE  IsLast(S, Last(S))
<1>. DEFINE T == {b - e.id : e \in S}
<1>1. T \in SUBSET Nat /\ T # {}
  BY DEF Row
<1>2. PICK n \in T : \A m \in T : n <= m
  BY <1>1, LeastNat
<1>3. PICK e \in S : n = b - e.id
  OBVIOUS
<1>4. ASSUME NEW f \in S PROVE f.id <= e.id
  <2>1. b - f.id \in T
    OBVIOUS
  <2>2. n <= b - f.id
    BY <2>1, <1>2
  <2>. QED BY <2>2, <1>3 DEF Row
<1>. QED BY <1>3, <1>4 DEF Last, IsLast

\* A last row is the one Last returns.
LEMMA LastUnique ==
  ASSUME NEW S \in SUBSET Row, NEW e, IsLast(S, e),
         \A f \in S : f.id = e.id => f = e
  PROVE  Last(S) = e
<1>1. \E x \in S : \A f \in S : f.id <= x.id
  BY DEF IsLast
<1>2. Last(S) \in S /\ \A f \in S : f.id <= Last(S).id
  BY <1>1 DEF Last
<1>. QED BY <1>2 DEF IsLast, Row

-----------------------------------------------------------------------------
(* Chains *)

\* f is the row that e goes on from.
Before(S, f, e) ==
  f.hash = e.prev /\ f.id < e.id /\ \A g \in S : g.id < e.id => g.id <= f.id

\* Distinct rows; each goes on from the one before it, and only one row goes on
\* from any; every row but the last is gone on from.  No id or hash is ahead of
\* n, the rows ever made.
Chained(S, n) ==
  /\ S \in SUBSET Row
  /\ IsFiniteSet(S)
  /\ \A e \in S : e.id <= n /\ e.hash <= n
  /\ \A e, f \in S : (e.id = f.id \/ e.hash = f.hash \/ e.prev = f.prev) => e = f
  /\ \A e \in S : \/ e.prev = Genesis /\ \A g \in S : e.id <= g.id
                  \/ \E f \in S : Before(S, f, e)
  /\ \A f \in S : IsLast(S, f) \/ \E g \in S : g.prev = f.hash
  /\ S = {} \/ \E g \in S : g.prev = Genesis

\* A chain is what verify_chain accepts.
LEMMA ChainedValid ==
  ASSUME NEW S, NEW n \in Nat, Chained(S, n)
  PROVE  Valid(S)
<1>. SUFFICES ASSUME NEW e \in S
              PROVE  e.prev = HeadHash({f \in S : f.id < e.id})
  BY DEF Valid
<1>. DEFINE B == {f \in S : f.id < e.id}
<1>1. CASE e.prev = Genesis /\ \A g \in S : e.id <= g.id
  <2>1. B = {}
    BY <1>1 DEF Chained, Row
  <2>. QED BY <1>1, <2>1 DEF HeadHash
<1>2. CASE \E f \in S : Before(S, f, e)
  <2>1. PICK f \in S : Before(S, f, e)
    BY <1>2
  <2>2. IsLast(B, f) /\ B \in SUBSET Row
    BY <2>1 DEF Before, IsLast, Chained
  <2>3. \A g \in B : g.id = f.id => g = f
    BY DEF Chained
  <2>4. Last(B) = f
    BY <2>2, <2>3, LastUnique
  <2>. QED BY <2>1, <2>2, <2>4 DEF HeadHash, IsLast, Before
<1>. QED BY <1>1, <1>2 DEF Chained

\* The next row is appended at the head, also when its prev was read before:
\* a row that is not the last has a successor, so its hash is no free prev.
LEMMA Appended ==
  ASSUME NEW S, NEW n \in Nat, Chained(S, n), NEW p \in Nat, NEW i \in Nat,
         p = Genesis \/ \E f \in S : f.hash = p,
         \A e \in S : e.prev # p,
         \A e \in S : e.id < i,
         i <= n + 1, i # 0
  PROVE  Chained(S \cup {[id |-> i, prev |-> p, hash |-> n + 1]}, n + 1)
<1>. DEFINE r == [id |-> i, prev |-> p, hash |-> n + 1]
            T == S \cup {r}
<1>0. r \in Row /\ S \in SUBSET Row /\ n + 1 \in Nat
  BY DEF Row, Chained
<1>1. T \in SUBSET Row /\ IsFiniteSet(T)
  BY <1>0, FS_AddElement DEF Chained
<1>2. \A e \in T : e.id <= n + 1 /\ e.hash <= n + 1
  BY <1>0 DEF Chained, Row
<1>3. \A e \in S : e.id # r.id /\ e.hash # r.hash /\ e.prev # r.prev
  BY <1>0 DEF Chained, Row
<1>4. \A e, f \in T : (e.id = f.id \/ e.hash = f.hash \/ e.prev = f.prev) => e = f
  BY <1>3 DEF Chained
<1>5. S # {} => \E f \in S : f.hash = p /\ IsLast(S, f)
  BY DEF Chained
<1>6. ASSUME NEW e \in T
      PROVE  \/ e.prev = Genesis /\ \A g \in T : e.id <= g.id
             \/ \E f \in T : Before(T, f, e)
  <2>1. CASE e \in S
    <3>1. CASE e.prev = Genesis /\ \A g \in S : e.id <= g.id
      BY <2>1, <3>1, <1>0 DEF Row
    <3>2. CASE \E f \in S : Before(S, f, e)
      <4>1. PICK f \in S : Before(S, f, e)
        BY <3>2
      <4>2. Before(T, f, e)
        BY <4>1, <2>1, <1>0 DEF Before, Row
      <4>. QED BY <4>2
    <3>. QED BY <2>1, <3>1, <3>2 DEF Chained
  <2>2. CASE e = r
    <3>1. CASE S = {}
      BY <2>2, <3>1, <1>0 DEF Row
    <3>2. CASE S # {}
      <4>1. PICK f \in S : f.hash = p /\ IsLast(S, f)
        BY <3>2, <1>5
      <4>2. Before(T, f, r)
        BY <4>1, <1>0 DEF Before, IsLast, Row
      <4>. QED BY <4>2, <2>2
    <3>. QED BY <3>1, <3>2
  <2>. QED BY <2>1, <2>2
<1>9. \A e, f \in S : e.id = f.id => e = f
  BY DEF Chained
<1>7. ASSUME NEW f \in T
      PROVE  IsLast(T, f) \/ \E g \in T : g.prev = f.hash
  <2>1. CASE f = r
    BY <2>1, <1>0 DEF IsLast, Row
  <2>2. CASE f \in S /\ IsLast(S, f)
    <3>1. PICK h \in S : h.hash = p /\ IsLast(S, h)
      BY <2>2, <1>5
    <3>2. f.id <= h.id /\ h.id <= f.id
      BY <3>1, <2>2 DEF IsLast
    <3>3. f.id \in Nat /\ h.id \in Nat
      BY <3>1, <2>2, <1>0 DEF Row
    <3>4. h.id = f.id
      BY ONLY <3>2, <3>3
    <3>5. h = f
      BY <3>1, <3>4, <2>2, <1>9
    <3>. QED BY <3>1, <3>5
  <2>3. CASE f \in S /\ \E g \in S : g.prev = f.hash
    BY <2>3
  <2>. QED BY <2>1, <2>2, <2>3 DEF Chained
<1>8. \E g \in T : g.prev = Genesis
  <2>1. CASE S = {}
    BY <2>1
  <2>2. CASE S # {}
    BY <2>2 DEF Chained
  <2>. QED BY <2>1, <2>2
<1>. QED BY <1>1, <1>2, <1>4, <1>6, <1>7, <1>8 DEF Chained

-----------------------------------------------------------------------------
(* The trail *)

OneLock == \A v, w \in Writer : tx[v].lock /\ tx[w].lock => v = w

RowsUnderLock == \A w \in Writer : tx[w].rows # {} => tx[w].lock

\* What each transaction sees is a chain, and its own rows come last.
ViewsChained ==
  /\ Chained(events, made)
  /\ \A w \in Writer : Chained(View(w), made)
  /\ \A w \in Writer : \A r \in tx[w].rows, e \in events : e.id < r.id

\* The head a transaction read is still a row it sees.
PrevKnown ==
  \A w \in Writer : tx[w].pc = "insert" =>
     tx[w].prev = Genesis \/ \E f \in View(w) : f.hash = tx[w].prev

TrailInv ==
  TrailTypeOK /\ OneLock /\ RowsUnderLock /\ ViewsChained /\ PrevKnown

LEMMA TrailInitial == TrailInit => TrailInv
<1>. SUFFICES ASSUME TrailInit PROVE TrailInv
  OBVIOUS
<1>. USE DEF TrailInit, Blank
<1>1. TrailTypeOK
  BY DEF TrailTypeOK, Tx, Genesis
<1>2. OneLock /\ RowsUnderLock /\ PrevKnown
  BY DEF OneLock, RowsUnderLock, PrevKnown
<1>3. Chained({}, 0)
  BY FS_EmptySet DEF Chained
<1>4. \A w \in Writer : View(w) = {}
  BY DEF View
<1>5. ViewsChained
  BY <1>3, <1>4 DEF ViewsChained
<1>. QED BY <1>1, <1>2, <1>5 DEF TrailInv

\* A step that moves only where a transaction is, or what it read.
LEMMA TrailRead ==
  ASSUME TrailInv, NEW w \in Writer, Record(w) \/ ReadHead(w)
  PROVE  TrailInv'
<1>. USE DEF TrailInv
<1>1. /\ UNCHANGED <<db, made, events>>
      /\ \A v \in Writer : tx'[v].rows = tx[v].rows
      /\ \A v \in Writer \ {w} : tx'[v] = tx[v]
  BY DEF Record, ReadHead, TrailTypeOK, Tx
<1>2. \A v \in Writer : View(v)' = View(v)
  BY <1>1 DEF View
<1>3. ViewsChained'
  BY <1>1, <1>2 DEF ViewsChained
<1>4. CASE Record(w)
  <2>1. TrailTypeOK'
    BY <1>4, ZenonT(60) DEF Record, TrailTypeOK, Tx
  <2>2. OneLock'
    BY <1>4 DEF Record, OneLock, LockFree, TrailTypeOK, Tx
  <2>3. RowsUnderLock'
    BY <1>4 DEF Record, RowsUnderLock, TrailTypeOK, Tx
  <2>4. tx'[w].pc = "head"
    BY <1>4 DEF Record, TrailTypeOK
  <2>5. PrevKnown'
    BY <2>4, <1>1, <1>2 DEF PrevKnown
  <2>. QED BY <2>1, <2>2, <2>3, <2>5, <1>3
<1>5. CASE ReadHead(w)
  <2>. DEFINE S == View(w)
  <2>1. HeadHash(S) \in Nat /\ (HeadHash(S) = Genesis \/ \E f \in S : f.hash = HeadHash(S))
    <3>1. CASE S = {}
      BY <3>1 DEF HeadHash, Genesis
    <3>2. CASE S # {}
      <4>1. S \in SUBSET Row /\ made \in Nat /\ \A e \in S : e.id <= made
        BY DEF ViewsChained, Chained, TrailTypeOK
      <4>2. Last(S) \in S
        BY <3>2, <4>1, LastIs DEF IsLast
      <4>. QED BY <3>2, <4>1, <4>2 DEF HeadHash, Row
    <3>. QED BY <3>1, <3>2
  <2>2. tx' = [tx EXCEPT ![w].pc = "insert", ![w].prev = HeadHash(S)]
    BY <1>5 DEF ReadHead
  <2>3. TrailTypeOK'
    BY <2>1, <2>2, <1>1, ZenonT(60) DEF TrailTypeOK, Tx
  <2>4. OneLock' /\ RowsUnderLock'
    BY <2>2 DEF OneLock, RowsUnderLock, TrailTypeOK, Tx
  <2>5. tx'[w].prev = HeadHash(S)
    BY <2>2 DEF TrailTypeOK, Tx
  <2>6. PrevKnown'
    BY <2>1, <2>5, <1>1, <1>2 DEF PrevKnown
  <2>. QED BY <2>3, <2>4, <2>6, <1>3
<1>. QED BY <1>4, <1>5

LEMMA TrailInsert ==
  ASSUME TrailInv, NEW w \in Writer, Insert(w)
  PROVE  TrailInv'
<1>. USE DEF TrailInv
<1>. DEFINE S == View(w)
            p == tx[w].prev
            r == [id |-> NextId(w), prev |-> p, hash |-> made + 1]
<1>1. /\ tx[w].pc = "insert" /\ LockFree(w)
      /\ \A e \in S : e.prev # p
      /\ made' = made + 1 /\ UNCHANGED <<db, events>>
      /\ tx' = [tx EXCEPT ![w].pc = "out", ![w].lock = TRUE, ![w].rows = @ \cup {r}]
  BY DEF Insert
<1>2. Chained(S, made) /\ made \in Nat /\ p \in Nat /\ S \in SUBSET Row
  BY DEF ViewsChained, Chained, TrailTypeOK, Tx
<1>3. NextId(w) \in Nat \ {0} /\ NextId(w) <= made + 1 /\ \A e \in S : e.id < NextId(w)
  <2>1. CASE db = "postgresql"
    BY <2>1, <1>2 DEF NextId, Chained, Row
  <2>2. CASE db # "postgresql" /\ S = {}
    BY <2>2, <1>2 DEF NextId
  <2>3. CASE db # "postgresql" /\ S # {}
    <3>1. IsLast(S, Last(S))
      BY <2>3, <1>2, LastIs DEF Chained
    <3>2. NextId(w) = Last(S).id + 1
      BY <2>3 DEF NextId
    <3>. QED BY <3>1, <3>2, <1>2 DEF IsLast, Chained, Row
  <2>. QED BY <2>1, <2>2, <2>3
<1>4. r \in Row
  BY <1>2, <1>3 DEF Row
<1>5. Chained(S \cup {r}, made + 1)
  <2>1. p = Genesis \/ \E f \in S : f.hash = p
    BY <1>1 DEF PrevKnown
  <2>. QED BY <2>1, <1>1, <1>2, <1>3, Appended
<1>6. /\ tx'[w].rows = tx[w].rows \cup {r} /\ tx'[w].lock /\ tx'[w].pc = "out"
      /\ \A v \in Writer \ {w} : tx'[v] = tx[v] /\ ~tx[v].lock
  BY <1>1 DEF TrailTypeOK, Tx, LockFree
<1>7. \A v \in Writer \ {w} : tx[v].rows = {} /\ View(v) = events /\ View(v)' = events
  BY <1>6, <1>1 DEF RowsUnderLock, View
<1>8. View(w)' = S \cup {r}
  BY <1>6, <1>1 DEF View
<1>9. Chained(events, made + 1)
  BY <1>2 DEF ViewsChained, Chained, Row
<1>10. ViewsChained'
  <2>1. \A x \in tx'[w].rows, e \in events : e.id < x.id
    BY <1>6, <1>3 DEF ViewsChained, View
  <2>. QED BY <2>1, <1>1, <1>5, <1>6, <1>7, <1>8, <1>9 DEF ViewsChained
<1>11. TrailTypeOK'
  <2>1. tx[w] \in Tx /\ tx[w].rows \cup {r} \in SUBSET Row
    BY <1>4 DEF TrailTypeOK, Tx
  <2>2. [tx[w] EXCEPT !.pc = "out", !.lock = TRUE, !.rows = @ \cup {r}] \in Tx
    BY <2>1 DEF Tx
  <2>3. tx' \in [Writer -> Tx]
    BY <2>2, <1>1 DEF TrailTypeOK
  <2>. QED BY <2>3, <1>1, <1>2 DEF TrailTypeOK
<1>12. OneLock' /\ RowsUnderLock'
  BY <1>6, <1>7 DEF OneLock, RowsUnderLock
<1>13. PrevKnown'
  BY <1>6, <1>7 DEF PrevKnown
<1>. QED BY <1>10, <1>11, <1>12, <1>13

\* Events are added after the ones that are there.
AddedAfter(E, F) ==
  E \subseteq F /\ \A e \in E, f \in F \ E : e.id < f.id

LEMMA TrailCommit ==
  ASSUME TrailInv, NEW w \in Writer, Commit(w)
  PROVE  TrailInv' /\ AddedAfter(events, events')
<1>. USE DEF TrailInv
<1>1. /\ tx[w].rows # {} /\ events' = View(w) /\ UNCHANGED <<db, made>>
      /\ tx' = [tx EXCEPT ![w] = Blank]
  BY DEF Commit
<1>2. tx[w].lock /\ \A v \in Writer \ {w} : tx'[v] = tx[v] /\ ~tx[v].lock /\ tx[v].rows = {}
  BY <1>1 DEF RowsUnderLock, OneLock, TrailTypeOK
<1>3. tx'[w] = Blank
  BY <1>1 DEF TrailTypeOK
<1>4. \A v \in Writer : View(v)' = events' /\ tx'[v].rows = {}
  BY <1>2, <1>3 DEF View, Blank
<1>5. Chained(events', made')
  BY <1>1 DEF ViewsChained
<1>6. ViewsChained'
  BY <1>4, <1>5 DEF ViewsChained
<1>7. TrailTypeOK'
  <2>1. Blank \in Tx
    BY DEF Blank, Tx, Genesis
  <2>2. tx' \in [Writer -> Tx]
    BY <2>1, <1>1 DEF TrailTypeOK
  <2>3. events' \subseteq Row
    BY <1>5 DEF Chained
  <2>. QED BY <2>2, <2>3, <1>1 DEF TrailTypeOK
<1>8. OneLock' /\ RowsUnderLock'
  BY <1>2, <1>3, <1>4 DEF OneLock, RowsUnderLock, Blank
<1>9. \A v \in Writer \ {w} : View(v) \subseteq View(v)'
  BY <1>2, <1>1, <1>4 DEF View
<1>10. PrevKnown'
  BY <1>2, <1>3, <1>9 DEF PrevKnown, Blank
<1>11. AddedAfter(events, events')
  BY <1>1 DEF View, ViewsChained, AddedAfter
<1>. QED BY <1>6, <1>7, <1>8, <1>10, <1>11

LEMMA TrailRollback ==
  ASSUME TrailInv, NEW w \in Writer, Rollback(w)
  PROVE  TrailInv'
<1>. USE DEF TrailInv
<1>1. UNCHANGED <<db, made, events>> /\ tx' = [tx EXCEPT ![w] = Blank]
  BY DEF Rollback
<1>2. tx'[w] = Blank /\ \A v \in Writer \ {w} : tx'[v] = tx[v]
  BY <1>1 DEF TrailTypeOK
<1>3. View(w)' = events /\ \A v \in Writer \ {w} : View(v)' = View(v)
  BY <1>1, <1>2 DEF View, Blank
<1>4. ViewsChained'
  BY <1>1, <1>2, <1>3 DEF ViewsChained, Blank
<1>5. TrailTypeOK'
  BY <1>1 DEF TrailTypeOK, Tx, Blank, Genesis
<1>6. OneLock' /\ RowsUnderLock'
  BY <1>2 DEF OneLock, RowsUnderLock, Blank
<1>7. PrevKnown'
  BY <1>2, <1>3 DEF PrevKnown, Blank
<1>. QED BY <1>4, <1>5, <1>6, <1>7

\* Every step of the trail keeps its invariant and adds events at the end.
LEMMA TrailStep ==
  ASSUME TrailInv, TrailNext
  PROVE  TrailInv' /\ AddedAfter(events, events')
<1>1. PICK w \in Writer : \/ Record(w) \/ ReadHead(w) \/ Insert(w)
                          \/ Commit(w) \/ Rollback(w)
  BY DEF TrailNext
<1>2. CASE Commit(w)
  BY <1>2, TrailCommit
<1>3. CASE Record(w) \/ ReadHead(w) \/ Insert(w) \/ Rollback(w)
  <2>1. events' = events
    BY <1>3 DEF Record, ReadHead, Insert, Rollback
  <2>2. AddedAfter(events, events')
    BY <2>1 DEF AddedAfter
  <2>. QED BY <2>2, <1>3, TrailRead, TrailInsert, TrailRollback
<1>. QED BY <1>1, <1>2, <1>3

LEMMA TrailStutter ==
  ASSUME TrailInv, UNCHANGED trailVars
  PROVE  TrailInv'
BY DEF TrailInv, trailVars, TrailTypeOK, OneLock, RowsUnderLock, ViewsChained,
       PrevKnown, View

-----------------------------------------------------------------------------
(* Shipping: what is kept about a place in the trail and a batch, with E    *)
(* the events of the trail and G the ones the receiver has                  *)

\* A cursor was never moved or names an event.
Place(c, E) ==
  \/ c.id = 0 /\ c.hash = NoHash
  \/ \E e \in E : e.id = c.id /\ e.hash = c.hash

\* Everything up to it was received.
Covers(c, E, G) == \A e \in E : e.id <= c.id => e \in G

\* A batch goes on from what was received.
Ready(B, E, G) ==
  /\ B \subseteq E
  /\ \A e \in B : \/ e.prev = Genesis
                  \/ \E f \in G : f.hash = e.prev
                  \/ \E f \in B : f.hash = e.prev /\ f.id < e.id

\* What is sent is all up to where the batch ends.
Sending(p, E, G) ==
  /\ Ready(p.batch, E, G)
  /\ Place(p.upto, E)
  /\ \A e \in E : e.id <= p.upto.id => e \in G \/ e \in p.batch

PassOK(p, E, G) ==
  /\ Place(p.cur, E)
  /\ Covers(p.cur, E, G)
  /\ ~p.alarm
  /\ p.pc = "send" => Sending(p, E, G)

ShipInv ==
  /\ TrailInv
  /\ TypeOK
  /\ Got \subseteq events
  /\ ExportVerifies
  /\ Place(cursor, events) /\ Covers(cursor, events, Got)
  /\ \A s \in Shipper : PassOK(pass[s], events, Got)
  /\ \A b \in late : b # {} /\ Ready(b, events, Got)

\* All of it stays true when events are added at the end and more is received.
LEMMA Grows ==
  ASSUME NEW E, NEW F \in SUBSET Row, AddedAfter(E, F), NEW G, NEW H, G \subseteq H
  PROVE  /\ \A c : Place(c, E) => Place(c, F)
         /\ \A c : Place(c, E) /\ Covers(c, E, G) => Covers(c, F, H)
         /\ \A B : Ready(B, E, G) => Ready(B, F, H)
         /\ \A p : PassOK(p, E, G) => PassOK(p, F, H)
<1>1. \A c : Place(c, E) => Place(c, F)
  BY DEF Place, AddedAfter
<1>2. ASSUME NEW c, Place(c, E), NEW f \in F, f.id <= c.id
      PROVE  f \in E
  <2>1. CASE c.id = 0
    BY <1>2, <2>1 DEF Row
  <2>2. CASE \E e \in E : e.id = c.id
    BY <1>2, <2>2 DEF AddedAfter, Row
  <2>. QED BY <1>2, <2>1, <2>2 DEF Place
<1>3. \A c : Place(c, E) /\ Covers(c, E, G) => Covers(c, F, H)
  BY <1>2 DEF Covers
<1>4. \A B : Ready(B, E, G) => Ready(B, F, H)
  BY DEF Ready, AddedAfter
<1>5. \A p : Sending(p, E, G) => Sending(p, F, H)
  BY <1>1, <1>2, <1>4 DEF Sending
<1>6. \A p : PassOK(p, E, G) => PassOK(p, F, H)
  BY <1>1, <1>3, <1>5 DEF PassOK
<1>. QED BY <1>1, <1>3, <1>4, <1>6

\* A batch holds every event before one that it holds.
LEMMA BatchClosed ==
  ASSUME ShipInv, NEW c \in Cursor, NEW e \in NextBatch(c), NEW f \in Later(c),
         f.id < e.id
  PROVE  f \in NextBatch(c)
<1>. DEFINE Below(x) == {g \in Later(c) : g.id < x.id}
<1>1. IsFiniteSet(events) /\ events \in SUBSET Row
  BY DEF ShipInv, TrailInv, ViewsChained, Chained
<1>2. IsFiniteSet(Later(c)) /\ Later(c) \in SUBSET Row
  BY <1>1, FS_Subset DEF Later
<1>3. e \in Row /\ f \in Row
  BY <1>2 DEF NextBatch
<1>4. Below(f) \subseteq Below(e) /\ Below(e) \subseteq Later(c)
  BY <1>2, <1>3 DEF Row
<1>5. IsFiniteSet(Below(e)) /\ IsFiniteSet(Below(f))
  BY <1>2, <1>4, FS_Subset
<1>6. Cardinality(Below(f)) <= Cardinality(Below(e))
  BY <1>4, <1>5, FS_Subset
<1>7. Cardinality(Below(f)) \in Nat /\ Cardinality(Below(e)) \in Nat
  BY <1>5, FS_CardinalityType
<1>8. Cardinality(Below(e)) < Batch
  BY DEF NextBatch
<1>9. Cardinality(Below(f)) < Batch
  BY <1>6, <1>7, <1>8, ShipAssumption
<1>. QED BY <1>9 DEF NextBatch

\* A batch goes on from the cursor, is all there is up to its last event, and
\* raises no alarm.
LEMMA NextBatchFits ==
  ASSUME ShipInv, NEW c \in Cursor, Place(c, events), Covers(c, events, Got),
         NextBatch(c) # {}
  PROVE  LET evs == NextBatch(c) IN
         /\ First(evs) \in evs /\ Last(evs) \in evs
         /\ c.hash # NoHash => First(evs).prev = c.hash
         /\ Ready(evs, events, Got)
         /\ \A e \in events : e.id <= Last(evs).id => e \in Got \/ e \in evs
<1>. DEFINE evs == NextBatch(c)
<1>1. Chained(events, made) /\ made \in Nat
  BY DEF ShipInv, TrailInv, ViewsChained, TrailTypeOK
<1>2. events \in SUBSET Row /\ evs \subseteq Later(c) /\ Later(c) \subseteq events
  BY <1>1 DEF Chained, NextBatch, Later
<1>3. evs \in SUBSET Row /\ \A e \in evs : e.id <= made /\ e.id > c.id
  BY <1>1, <1>2 DEF Chained, Later
<1>4. First(evs) \in evs /\ \A f \in evs : First(evs).id <= f.id
  BY <1>3, FirstIs
<1>5. Last(evs) \in evs /\ \A f \in evs : f.id <= Last(evs).id
  BY <1>1, <1>3, LastIs DEF IsLast
<1>6. \A e \in evs, f \in events : f.id < e.id => f.id <= c.id \/ f \in evs
  BY <1>2, BatchClosed DEF Later, Row, Cursor
<1>7. ASSUME c.hash # NoHash PROVE First(evs).prev = c.hash
  <2>. DEFINE e == First(evs)
  <2>1. PICK g \in events : g.id = c.id /\ g.hash = c.hash
    BY <1>7 DEF Place
  <2>2. g.id < e.id /\ e \in events /\ e \in Row /\ g \in Row
    BY <2>1, <1>2, <1>3, <1>4 DEF Row, Cursor
  <2>3. PICK f \in events : Before(events, f, e)
    BY <2>2, <1>1 DEF Chained, Row
  <2>4. f.id <= c.id
    BY <2>2, <2>3, <1>2, <1>4, <1>6 DEF Before, Row
  <2>5. g.id <= f.id
    BY <2>2, <2>3 DEF Before
  <2>6. f = g
    BY <2>1, <2>4, <2>5, <1>1, <1>2 DEF Chained, Row
  <2>. QED BY <2>1, <2>3, <2>6 DEF Before
<1>8. Ready(evs, events, Got)
  <2>. SUFFICES ASSUME NEW e \in evs, e.prev # Genesis
                PROVE  \/ \E f \in Got : f.hash = e.prev
                       \/ \E f \in evs : f.hash = e.prev /\ f.id < e.id
    BY <1>2 DEF Ready
  <2>1. PICK f \in events : Before(events, f, e)
    BY <1>1, <1>2 DEF Chained
  <2>. QED BY <2>1, <1>6 DEF Before, Covers
<1>9. ASSUME NEW e \in events, e.id <= Last(evs).id PROVE e \in Got \/ e \in evs
  <2>1. CASE e.id < Last(evs).id
    BY <2>1, <1>5, <1>6 DEF Covers
  <2>2. CASE e.id = Last(evs).id
    BY <2>2, <1>1, <1>2, <1>5 DEF Chained
  <2>. QED BY <2>1, <2>2, <1>2, <1>3, <1>5, <1>9 DEF Row
<1>. QED BY <1>4, <1>5, <1>7, <1>8, <1>9

\* The record that arrives next: what the receiver has, it drops, and a new one
\* goes on from the last it has.  Were there another record in between, it
\* would be the one that goes on from there.
LEMMA Arrives ==
  ASSUME ShipInv, NEW e \in events, Receive(e),
         e.prev = Genesis \/ \E f \in Got : f.hash = e.prev
  PROVE  /\ received' \in Seq(Row)
         /\ Got' = Got \cup {e}
         /\ ExportVerifies'
         /\ \/ received' = received
            \/ Feed!Tip = e.prev /\ received' = Append(received, e)
<1>1. /\ received \in Seq(Row) /\ Got \subseteq events /\ ExportVerifies /\ e \in Row
      /\ \A f, g \in events : f.prev = g.prev => f = g
  BY DEF ShipInv, TypeOK, TrailInv, ViewsChained, Chained
<1>2. CASE e \in Got
  <2>1. received' = received
    BY <1>2 DEF Receive
  <2>. QED BY <2>1, <1>1, <1>2 DEF Got, ExportVerifies
<1>3. CASE e \notin Got
  <2>. DEFINE n == Len(received)
  <2>1. received' = Append(received, e) /\ n \in Nat
    BY <1>1, <1>3 DEF Receive
  <2>2. /\ received' \in Seq(Row) /\ Len(received') = n + 1
        /\ \A i \in 1..n : received'[i] = received[i]
        /\ received'[n + 1] = e
    BY <2>1, <1>1
  <2>3. Got' = Got \cup {e}
    BY <2>1, <2>2 DEF Got
  <2>4. \A i \in 1..n : received[i] \in Got /\ received[i] \in events
    BY <1>1 DEF Got
  <2>5. CASE n = 0
    <3>1. e.prev = Genesis
      BY <2>5 DEF Got
    <3>2. ExportVerifies'
      BY <3>1, <2>2, <2>5 DEF ExportVerifies
    <3>3. Feed!Tip = Genesis
      BY <2>5, <1>1 DEF Feed!Tip
    <3>. QED BY <3>1, <3>2, <3>3, <2>1, <2>2, <2>3
  <2>6. CASE n # 0
    <3>1. 1 \in 1..n /\ n \in 1..n /\ received # <<>>
      BY <2>1, <2>6
    <3>2. e.prev # Genesis
      <4>1. received[1].prev = Genesis
        BY <3>1, <1>1 DEF ExportVerifies
      <4>. QED BY <4>1, <3>1, <2>4, <1>1, <1>3
    <3>3. PICK i \in 1..n : received[i].hash = e.prev
      BY <3>2 DEF Got
    <3>4. i = n
      <4>. SUFFICES ASSUME i # n PROVE FALSE
        OBVIOUS
      <4>1. i + 1 \in 1..n /\ i + 1 # 1 /\ (i + 1) - 1 = i
        BY <2>1
      <4>2. received[i + 1].prev = received[i].hash
        BY <4>1, <1>1 DEF ExportVerifies
      <4>. QED BY <4>1, <4>2, <3>3, <2>4, <1>1, <1>3
    <3>5. ExportVerifies'
      <4>. SUFFICES ASSUME NEW j \in 1..(n + 1)
                    PROVE  received'[j].prev = IF j = 1 THEN Genesis ELSE received'[j-1].hash
        BY <2>2 DEF ExportVerifies
      <4>1. CASE j \in 1..n
        <5>1. j = 1 \/ j - 1 \in 1..n
          BY <4>1, <2>1
        <5>. QED BY <5>1, <4>1, <2>2, <1>1 DEF ExportVerifies
      <4>2. CASE j = n + 1
        <5>1. j # 1 /\ j - 1 = n
          BY <4>2, <2>1, <2>6
        <5>. QED BY <5>1, <4>2, <2>2, <3>1, <3>3, <3>4
      <4>. QED BY <4>1, <4>2, <2>1
    <3>6. Feed!Tip = e.prev
      BY <3>1, <3>3, <3>4 DEF Feed!Tip
    <3>. QED BY <3>5, <3>6, <2>1, <2>2, <2>3
  <2>. QED BY <2>5, <2>6
<1>. QED BY <1>2, <1>3

\* The first record of a batch that goes on from what was received does so
\* itself, and once it has arrived the others still do.
LEMMA FirstReady ==
  ASSUME NEW B, NEW E \in SUBSET Row, NEW G, Ready(B, E, G), B # {}
  PROVE  /\ First(B) \in B /\ First(B) \in E
         /\ First(B).prev = Genesis \/ \E f \in G : f.hash = First(B).prev
         /\ Ready(B \ {First(B)}, E, G \cup {First(B)})
<1>1. B \in SUBSET Row
  BY DEF Ready
<1>2. First(B) \in B /\ \A f \in B : First(B).id <= f.id
  BY <1>1, FirstIs
<1>3. ~\E f \in B : f.id < First(B).id
  BY <1>1, <1>2 DEF Row
<1>. QED BY <1>2, <1>3 DEF Ready

-----------------------------------------------------------------------------
(* The steps of shipping *)

LEMMA ShipInitial == Init => ShipInv
<1>. SUFFICES ASSUME Init PROVE ShipInv
  OBVIOUS
<1>. USE DEF Init, NoCursor, Idle
<1>1. TrailInv /\ events = {}
  BY TrailInitial DEF TrailInit
<1>2. received \in Seq(Row) /\ Len(received) = 0
  OBVIOUS
<1>3. TypeOK
  BY <1>1, <1>2 DEF TypeOK, TrailInv, Cursor, Pass
<1>4. Got = {} /\ ExportVerifies
  BY <1>2 DEF Got, ExportVerifies
<1>5. Place(cursor, events) /\ Covers(cursor, events, Got)
  BY <1>1 DEF Place, Covers
<1>6. \A s \in Shipper : PassOK(pass[s], events, Got)
  BY <1>1 DEF PassOK, Place, Covers
<1>. QED BY <1>1, <1>3, <1>4, <1>5, <1>6 DEF ShipInv

\* A step of one pass that brings the receiver nothing.
LEMMA Quiet ==
  ASSUME ShipInv, NEW s \in Shipper, UNCHANGED <<trailVars, received>>,
         pass' \in [Shipper -> Pass], \A q \in Shipper \ {s} : pass'[q] = pass[q],
         PassOK(pass'[s], events, Got),
         cursor' \in Cursor, Place(cursor', events), Covers(cursor', events, Got),
         late' \in SUBSET SUBSET Row,
         \A b \in late' : b # {} /\ Ready(b, events, Got)
  PROVE  ShipInv'
<1>1. TrailInv' /\ events' = events
  BY TrailStutter DEF ShipInv, trailVars
<1>2. Got' = Got
  BY DEF Got
<1>3. TypeOK'
  BY <1>1 DEF ShipInv, TypeOK, TrailInv
<1>4. ExportVerifies'
  BY DEF ShipInv, ExportVerifies
<1>5. \A q \in Shipper : PassOK(pass'[q], events, Got)
  BY DEF ShipInv
<1>. QED BY <1>1, <1>2, <1>3, <1>4, <1>5 DEF ShipInv

\* Everything but pass stays as it is.
LEMMA OnlyPass ==
  ASSUME ShipInv, NEW s \in Shipper, UNCHANGED <<trailVars, cursor, late, received>>,
         NEW p, p \in Pass, PassOK(p, events, Got), pass' = [pass EXCEPT ![s] = p]
  PROVE  ShipInv'
<1>1. pass \in [Shipper -> Pass]
  BY DEF ShipInv, TypeOK
<1>2. /\ pass' \in [Shipper -> Pass] /\ pass'[s] = p
      /\ \A q \in Shipper \ {s} : pass'[q] = pass[q]
  BY <1>1
<1>3. /\ cursor' \in Cursor /\ Place(cursor', events) /\ Covers(cursor', events, Got)
      /\ late' \in SUBSET SUBSET Row
      /\ \A b \in late' : b # {} /\ Ready(b, events, Got)
  BY DEF ShipInv, TypeOK
<1>. QED BY <1>2, <1>3, Quiet

LEMMA IdleOK == Idle \in Pass /\ \A E, G : E \subseteq Row => PassOK(Idle, E, G)
BY DEF Idle, Pass, NoCursor, Cursor, PassOK, Place, Covers, Row

LEMMA LoadKeeps ==
  ASSUME ShipInv, NEW s \in Shipper, Load(s)
  PROVE  ShipInv'
<1>. DEFINE p == [Idle EXCEPT !.cur = cursor,
                    !.pc = IF cursor.exists THEN "query" ELSE "create"]
<1>1. cursor \in Cursor /\ Place(cursor, events) /\ Covers(cursor, events, Got)
  BY DEF ShipInv, TypeOK
<1>2. p \in Pass /\ p.cur = cursor /\ ~p.alarm /\ p.pc # "send"
  BY <1>1 DEF Idle, Pass, NoCursor, Cursor
<1>3. PassOK(p, events, Got)
  BY <1>1, <1>2 DEF PassOK
<1>4. pass' = [pass EXCEPT ![s] = p] /\ UNCHANGED <<trailVars, cursor, late, received>>
  BY DEF Load
<1>. HIDE DEF p
<1>. QED BY <1>2, <1>3, <1>4, OnlyPass

LEMMA CreateKeeps ==
  ASSUME ShipInv, NEW s \in Shipper, Create(s)
  PROVE  ShipInv'
<1>. DEFINE p == [pass[s] EXCEPT !.pc = "query", !.cur.exists = TRUE,
                                 !.moved = TRUE, !.lock = TRUE]
<1>1. pass[s] \in Pass /\ PassOK(pass[s], events, Got) /\ pass \in [Shipper -> Pass]
  BY DEF ShipInv, TypeOK
<1>2. p \in Pass /\ ~p.alarm /\ p.pc # "send"
      /\ p.cur.id = pass[s].cur.id /\ p.cur.hash = pass[s].cur.hash
  BY <1>1 DEF Pass, Cursor, PassOK
<1>3. PassOK(p, events, Got)
  BY <1>1, <1>2 DEF PassOK, Place, Covers
<1>4. pass' = [pass EXCEPT ![s] = p] /\ UNCHANGED <<trailVars, cursor, late, received>>
  BY <1>1 DEF Create
<1>. HIDE DEF p
<1>. QED BY <1>2, <1>3, <1>4, OnlyPass

\* A pass that fails before it began to send, or dies.
LEMMA GivesUpKeeps ==
  ASSUME ShipInv, NEW s \in Shipper, CreateFails(s) \/ Crash(s)
  PROVE  ShipInv'
<1>1. pass' = [pass EXCEPT ![s] = Idle] /\ UNCHANGED <<trailVars, cursor, late, received>>
  BY DEF CreateFails, Crash
<1>2. events \subseteq Row
  BY DEF ShipInv, TrailInv, TrailTypeOK
<1>. QED BY <1>1, <1>2, IdleOK, OnlyPass

LEMMA QueryKeeps ==
  ASSUME ShipInv, NEW s \in Shipper, Query(s)
  PROVE  ShipInv'
<1>. DEFINE cur == pass[s].cur
            evs == NextBatch(cur)
            last == [exists |-> TRUE, id |-> Last(evs).id, hash |-> Last(evs).hash]
            break == cur.hash # NoHash /\ First(evs).prev # cur.hash
            flushed == [pass[s] EXCEPT !.lock = pass[s].moved]
            p == IF evs = {} THEN [flushed EXCEPT !.pc = "commit"]
                 ELSE IF break THEN [flushed EXCEPT !.pc = "commit", !.alarm = TRUE]
                 ELSE [flushed EXCEPT !.pc = "send", !.batch = evs, !.upto = last]
<1>1. pass[s] \in Pass /\ PassOK(pass[s], events, Got) /\ cur \in Cursor
  BY DEF ShipInv, TypeOK, Pass
<1>2. /\ pass' = [pass EXCEPT ![s] = p] /\ UNCHANGED <<trailVars, cursor, late, received>>
  BY DEF Query
<1>3. CASE evs = {}
  <2>1. p = [flushed EXCEPT !.pc = "commit"]
    BY <1>3
  <2>2. p \in Pass /\ p.pc # "send" /\ p.cur = cur /\ ~p.alarm
    BY <2>1, <1>1 DEF Pass, PassOK
  <2>3. PassOK(p, events, Got)
    BY <2>2, <1>1 DEF PassOK
  <2>. HIDE DEF p
  <2>. QED BY <2>2, <2>3, <1>2, OnlyPass
<1>4. CASE evs # {}
  <2>1. Place(cur, events) /\ Covers(cur, events, Got)
    BY <1>1 DEF PassOK
  <2>2. /\ First(evs) \in evs /\ Last(evs) \in evs
        /\ cur.hash # NoHash => First(evs).prev = cur.hash
        /\ Ready(evs, events, Got)
        /\ \A e \in events : e.id <= Last(evs).id => e \in Got \/ e \in evs
    BY <2>1, <1>1, <1>4, NextBatchFits
  <2>3. evs \subseteq events /\ events \subseteq Row
    BY <2>2 DEF Ready, ShipInv, TrailInv, TrailTypeOK
  <2>4. p = [flushed EXCEPT !.pc = "send", !.batch = evs, !.upto = last]
    BY <2>2, <1>4
  <2>5. last \in Cursor /\ Place(last, events)
    BY <2>2, <2>3 DEF Cursor, Row, Place
  <2>. HIDE DEF evs, last, cur
  <2>6. p \in Pass
    BY <2>3, <2>4, <2>5, <1>1 DEF Pass
  <2>7. p.cur = cur /\ ~p.alarm /\ p.batch = evs /\ p.upto = last
    BY <2>4, <1>1 DEF Pass, PassOK, cur
  <2>8. last.id = Last(evs).id
    BY DEF last
  <2>9. Sending(p, events, Got)
    BY <2>2, <2>5, <2>7, <2>8 DEF Sending
  <2>10. PassOK(p, events, Got)
    BY <2>1, <2>7, <2>9 DEF PassOK
  <2>. HIDE DEF p
  <2>. QED BY <2>6, <2>10, <1>2, OnlyPass
<1>. QED BY <1>3, <1>4

\* The batch is sent: all up to where it ended was received.
LEMMA SentKeeps ==
  ASSUME ShipInv, NEW s \in Shipper, Sent(s)
  PROVE  ShipInv'
<1>. DEFINE p == [pass[s] EXCEPT !.pc = AfterBatch(s), !.cur = pass[s].upto,
                                 !.moved = TRUE, !.n = @ + 1]
<1>1. /\ pass[s] \in Pass /\ PassOK(pass[s], events, Got) /\ pass \in [Shipper -> Pass]
      /\ pass[s].pc = "send" /\ pass[s].batch = {}
  BY DEF ShipInv, TypeOK, Sent
<1>2. pass' = [pass EXCEPT ![s] = p] /\ UNCHANGED <<trailVars, cursor, late, received>>
  BY <1>1 DEF Sent
<1>3. p \in Pass /\ p.cur = pass[s].upto /\ ~p.alarm /\ p.pc # "send"
  <2>1. AfterBatch(s) \in {"query", "commit"}
    BY DEF AfterBatch
  <2>2. pass[s].n + 1 \in Nat /\ pass[s].upto \in Cursor
    BY <1>1 DEF Pass
  <2>. QED BY <2>1, <2>2, <1>1 DEF Pass, PassOK
<1>4. PassOK(p, events, Got)
  BY <1>1, <1>3 DEF PassOK, Sending, Covers
<1>. HIDE DEF p
<1>. QED BY <1>2, <1>3, <1>4, OnlyPass

LEMMA SendFailsKeeps ==
  ASSUME ShipInv, NEW s \in Shipper, SendFails(s)
  PROVE  ShipInv'
<1>. DEFINE p == [pass[s] EXCEPT !.pc = "commit", !.batch = {}]
<1>1. /\ pass[s] \in Pass /\ PassOK(pass[s], events, Got) /\ pass \in [Shipper -> Pass]
      /\ pass[s].pc = "send"
  BY DEF ShipInv, TypeOK, SendFails
<1>2. /\ pass' = [pass EXCEPT ![s] = p] /\ UNCHANGED <<trailVars, cursor, received>>
      /\ late' \subseteq late \cup ({pass[s].batch} \ {{}})
  BY <1>1 DEF SendFails
<1>3. p \in Pass /\ p.cur = pass[s].cur /\ ~p.alarm /\ p.pc # "send"
  BY <1>1 DEF Pass, PassOK
<1>4. PassOK(p, events, Got)
  BY <1>1, <1>3 DEF PassOK
<1>5. Ready(pass[s].batch, events, Got) /\ pass[s].batch \in SUBSET Row
  BY <1>1 DEF PassOK, Sending, Pass
<1>6. late' \in SUBSET SUBSET Row /\ \A b \in late' : b # {} /\ Ready(b, events, Got)
  BY <1>2, <1>5 DEF ShipInv, TypeOK
<1>7. cursor' \in Cursor /\ Place(cursor', events) /\ Covers(cursor', events, Got)
  BY <1>2 DEF ShipInv, TypeOK
<1>. HIDE DEF p
<1>8. /\ pass' \in [Shipper -> Pass] /\ pass'[s] = p
      /\ \A q \in Shipper \ {s} : pass'[q] = pass[q]
  BY <1>1, <1>2, <1>3
<1>. QED BY <1>2, <1>4, <1>6, <1>7, <1>8, Quiet

LEMMA EndPassKeeps ==
  ASSUME ShipInv, NEW s \in Shipper, EndPass(s)
  PROVE  ShipInv'
<1>1. /\ pass' = [pass EXCEPT ![s] = Idle] /\ UNCHANGED <<trailVars, late, received>>
      /\ cursor' = cursor \/ cursor' = pass[s].cur
  BY DEF EndPass
<1>2. /\ pass \in [Shipper -> Pass] /\ pass[s].cur \in Cursor /\ cursor \in Cursor
      /\ PassOK(pass[s], events, Got) /\ events \subseteq Row
  BY DEF ShipInv, TypeOK, TrailTypeOK, Pass
<1>3. cursor' \in Cursor /\ Place(cursor', events) /\ Covers(cursor', events, Got)
  BY <1>1, <1>2 DEF ShipInv, PassOK
<1>4. /\ pass' \in [Shipper -> Pass] /\ PassOK(pass'[s], events, Got)
      /\ \A q \in Shipper \ {s} : pass'[q] = pass[q]
  BY <1>1, <1>2, IdleOK
<1>5. late' \in SUBSET SUBSET Row /\ \A b \in late' : b # {} /\ Ready(b, events, Got)
  BY <1>1 DEF ShipInv, TypeOK
<1>. QED BY <1>1, <1>3, <1>4, <1>5, Quiet

\* A record arrives that its batch can go without from then on.
LEMMA Arrival ==
  ASSUME ShipInv, NEW e \in events, Receive(e), UNCHANGED <<trailVars, cursor>>,
         e.prev = Genesis \/ \E f \in Got : f.hash = e.prev,
         pass' \in [Shipper -> Pass], late' \in SUBSET SUBSET Row,
         \A q \in Shipper : \/ pass'[q] = pass[q]
                            \/ PassOK(pass'[q], events, Got \cup {e}),
         \A b \in late' : \/ b \in late
                          \/ b # {} /\ Ready(b, events, Got \cup {e})
  PROVE  ShipInv'
<1>1. TrailInv' /\ events' = events
  BY TrailStutter DEF ShipInv, trailVars
<1>2. received' \in Seq(Row) /\ Got' = Got \cup {e} /\ ExportVerifies'
  BY Arrives
<1>3. TypeOK'
  BY <1>1, <1>2 DEF ShipInv, TypeOK, TrailInv
<1>4. events \in SUBSET Row /\ AddedAfter(events, events) /\ Got \subseteq Got'
  BY <1>2 DEF ShipInv, TrailInv, TrailTypeOK, AddedAfter
<1>5. Place(cursor, events) /\ Covers(cursor, events, Got')
  BY <1>4, Grows DEF ShipInv
<1>6. \A q \in Shipper : PassOK(pass'[q], events, Got')
  BY <1>2, <1>4, Grows DEF ShipInv
<1>7. \A b \in late' : b # {} /\ Ready(b, events, Got')
  BY <1>2, <1>4, Grows DEF ShipInv
<1>. QED BY <1>1, <1>2, <1>3, <1>5, <1>6, <1>7 DEF ShipInv

\* The record a pass delivers.
LEMMA Delivered ==
  ASSUME ShipInv, NEW s \in Shipper, Deliver(s)
  PROVE  LET e == First(pass[s].batch) IN
         /\ e \in events /\ Receive(e)
         /\ e.prev = Genesis \/ \E f \in Got : f.hash = e.prev
         /\ Ready(pass[s].batch \ {e}, events, Got \cup {e})
<1>1. pass[s].pc = "send" /\ pass[s].batch # {} /\ Receive(First(pass[s].batch))
  BY DEF Deliver
<1>2. Ready(pass[s].batch, events, Got) /\ events \in SUBSET Row
  BY <1>1 DEF ShipInv, PassOK, Sending, TrailInv, TrailTypeOK
<1>. QED BY <1>1, <1>2, FirstReady

LEMMA DeliverKeeps ==
  ASSUME ShipInv, NEW s \in Shipper, Deliver(s)
  PROVE  ShipInv'
<1>. DEFINE e == First(pass[s].batch)
            p == [pass[s] EXCEPT !.batch = @ \ {e}]
<1>1. /\ e \in events /\ Receive(e)
      /\ e.prev = Genesis \/ \E f \in Got : f.hash = e.prev
      /\ Ready(pass[s].batch \ {e}, events, Got \cup {e})
  BY Delivered
<1>2. /\ pass[s] \in Pass /\ PassOK(pass[s], events, Got) /\ pass \in [Shipper -> Pass]
      /\ pass[s].pc = "send" /\ UNCHANGED <<trailVars, cursor, late>>
      /\ events \in SUBSET Row /\ AddedAfter(events, events)
      /\ late \in SUBSET SUBSET Row
  BY DEF ShipInv, TypeOK, TrailTypeOK, Deliver, AddedAfter
<1>3. pass' = [pass EXCEPT ![s] = p]
  BY <1>2 DEF Deliver
<1>. HIDE DEF e
<1>4. PassOK(pass[s], events, Got \cup {e})
  BY <1>2, Grows
<1>5. /\ p \in Pass /\ p.cur = pass[s].cur /\ p.upto = pass[s].upto
      /\ p.alarm = pass[s].alarm /\ p.batch = pass[s].batch \ {e}
  BY <1>2 DEF Pass
<1>6. Sending(pass[s], events, Got \cup {e})
  BY <1>2, <1>4 DEF PassOK
<1>7. Sending(p, events, Got \cup {e})
  BY <1>1, <1>5, <1>6 DEF Sending
<1>8. PassOK(p, events, Got \cup {e})
  BY <1>4, <1>5, <1>7 DEF PassOK
<1>. HIDE DEF p
<1>9. /\ pass' \in [Shipper -> Pass]
      /\ \A q \in Shipper : \/ pass'[q] = pass[q]
                            \/ PassOK(pass'[q], events, Got \cup {e})
  BY <1>2, <1>3, <1>5, <1>8
<1>10. late' \in SUBSET SUBSET Row /\ \A b \in late' : b \in late
  BY <1>2
<1>. QED BY <1>1, <1>2, <1>9, <1>10, Arrival

\* The record that arrives late.
LEMMA Late ==
  ASSUME ShipInv, NEW b \in late, LateArrival(b)
  PROVE  LET e == First(b) IN
         /\ e \in events /\ Receive(e)
         /\ e.prev = Genesis \/ \E f \in Got : f.hash = e.prev
         /\ Ready(b \ {e}, events, Got \cup {e})
<1>1. b # {} /\ Ready(b, events, Got) /\ events \in SUBSET Row
  BY DEF ShipInv, TrailInv, TrailTypeOK
<1>. QED BY <1>1, FirstReady DEF LateArrival

LEMMA LateKeeps ==
  ASSUME ShipInv, NEW b \in late, LateArrival(b)
  PROVE  ShipInv'
<1>. DEFINE e == First(b)
<1>1. /\ e \in events /\ Receive(e)
      /\ e.prev = Genesis \/ \E f \in Got : f.hash = e.prev
      /\ Ready(b \ {e}, events, Got \cup {e})
  BY Late
<1>2. /\ UNCHANGED <<trailVars, cursor, pass>>
      /\ late' = (late \ {b}) \cup ({b \ {e}} \ {{}})
      /\ pass \in [Shipper -> Pass] /\ late \in SUBSET SUBSET Row
  BY DEF LateArrival, ShipInv, TypeOK
<1>. HIDE DEF e
<1>3. /\ late' \in SUBSET SUBSET Row
      /\ \A c \in late' : c \in late \/ (c # {} /\ Ready(c, events, Got \cup {e}))
  BY <1>1, <1>2
<1>4. pass' \in [Shipper -> Pass] /\ \A q \in Shipper : pass'[q] = pass[q]
  BY <1>2
<1>. QED BY <1>1, <1>2, <1>3, <1>4, Arrival

\* The trail moves on under the passes.
LEMMA TrailKeeps ==
  ASSUME ShipInv, TrailNext, UNCHANGED shipVars
  PROVE  ShipInv'
<1>1. TrailInv' /\ AddedAfter(events, events')
  BY TrailStep DEF ShipInv
<1>2. UNCHANGED <<cursor, pass, late, received>> /\ Got' = Got
  BY DEF shipVars, Got
<1>3. events' \in SUBSET Row
  BY <1>1 DEF TrailInv, TrailTypeOK
<1>4. TypeOK'
  BY <1>1, <1>2 DEF ShipInv, TypeOK, TrailInv
<1>5. ExportVerifies'
  BY <1>2 DEF ShipInv, ExportVerifies
<1>6. Got \subseteq events'
  BY <1>1 DEF ShipInv, AddedAfter
<1>7. Place(cursor, events') /\ Covers(cursor, events', Got)
  BY <1>1, <1>3, Grows DEF ShipInv
<1>8. \A s \in Shipper : PassOK(pass[s], events', Got)
  BY <1>1, <1>3, Grows DEF ShipInv
<1>9. \A b \in late : b # {} /\ Ready(b, events', Got)
  BY <1>1, <1>3, Grows DEF ShipInv
<1>. QED BY <1>1, <1>2, <1>4, <1>5, <1>6, <1>7, <1>8, <1>9 DEF ShipInv

LEMMA ShipStep == ShipInv /\ [Next]_vars => ShipInv'
<1>. SUFFICES ASSUME ShipInv, [Next]_vars PROVE ShipInv'
  OBVIOUS
<1>1. CASE TrailNext /\ UNCHANGED shipVars
  BY <1>1, TrailKeeps
<1>2. CASE \E s \in Shipper : Step(s)
  <2>1. PICK s \in Shipper : Step(s)
    BY <1>2
  <2>. QED BY <2>1, LoadKeeps, CreateKeeps, GivesUpKeeps, QueryKeeps, DeliverKeeps,
              SentKeeps, EndPassKeeps DEF Step
<1>3. CASE Outage
  BY <1>3, SendFailsKeeps, GivesUpKeeps DEF Outage
<1>4. CASE \E b \in late : LateArrival(b)
  BY <1>4, LateKeeps
<1>5. CASE UNCHANGED vars
  <2>1. /\ UNCHANGED trailVars
        /\ UNCHANGED <<cursor, pass, late, received>>
    BY <1>5 DEF vars, shipVars
  <2>2. TrailInv' /\ events' = events /\ Got' = Got
    BY <2>1, TrailStutter DEF ShipInv, trailVars, Got
  <2>3. TypeOK' /\ ExportVerifies'
    BY <2>1, <2>2 DEF ShipInv, TypeOK, TrailInv, ExportVerifies
  <2>. QED BY <2>1, <2>2, <2>3 DEF ShipInv
<1>. QED BY <1>1, <1>2, <1>3, <1>4, <1>5 DEF Next

LEMMA ShipInvAlways == Spec => []ShipInv
<1>1. Init => ShipInv
  BY ShipInitial
<1>2. ShipInv /\ [Next]_vars => ShipInv'
  BY ShipStep
<1>. QED BY <1>1, <1>2, PTL DEF Spec

-----------------------------------------------------------------------------
(* The theorems *)

\* Every variable keeps its type: rows of the trail, cursors and batches are
\* what the tables and the code of audit/log.py and audit/shipping.py hold.
THEOREM TypeCorrect == Spec => []TypeOK
<1>1. ShipInv => TypeOK
  BY DEF ShipInv
<1>. QED BY <1>1, ShipInvAlways, PTL

\* Whatever writers race in record, the committed trail is one chain that
\* verify_chain accepts.
THEOREM ChainValidAlways == Spec => []ChainValid
<1>1. ShipInv => ChainValid
  BY ChainedValid DEF ShipInv, TrailInv, ViewsChained, TrailTypeOK, ChainValid
<1>. QED BY <1>1, ShipInvAlways, PTL

\* verify_records finds no gap in what ship sent, whatever passes overlap, fail
\* or die and however late their records arrive.
THEOREM ExportVerifiesAlways == Spec => []ExportVerifies
<1>1. ShipInv => ExportVerifies
  BY DEF ShipInv
<1>. QED BY <1>1, ShipInvAlways, PTL

\* The cursor that ship commits never passes an event that was not received.
THEOREM CursorCoversAlways == Spec => []CursorCovers
<1>1. ShipInv => CursorCovers
  BY DEF ShipInv, CursorCovers, Covers
<1>. QED BY <1>1, ShipInvAlways, PTL

\* ship reports no chain break while nobody rewrites the trail.
THEOREM NoFalseAlarmAlways == Spec => []NoFalseAlarm
<1>1. ShipInv => NoFalseAlarm
  BY DEF ShipInv, NoFalseAlarm, PassOK
<1>. QED BY <1>1, ShipInvAlways, PTL

-----------------------------------------------------------------------------
(* The trail and its shipping show a receiver the feed of AuditFeed *)

LEMMA FeedInitial == Init => Feed!Init
BY DEF Init, TrailInit, Feed!Init

LEMMA FeedStep ==
  ShipInv /\ ShipInv' /\ [Next]_vars => [Feed!Publish \/ Feed!Receive]_(Feed!feedVars)
<1>. SUFFICES ASSUME ShipInv, ShipInv', [Next]_vars
              PROVE  \/ Feed!Publish \/ Feed!Receive
                     \/ events' = events /\ received' = received
  BY DEF Feed!feedVars
<1>1. CASE TrailNext /\ UNCHANGED shipVars
  <2>1. AddedAfter(events, events') /\ received' = received
    BY <1>1, TrailStep DEF ShipInv, shipVars
  <2>2. Chained(events', made')
    BY DEF ShipInv, TrailInv, ViewsChained
  <2>3. Feed!Publish
    BY <2>1, <2>2 DEF Feed!Publish, AddedAfter, Chained, Before
  <2>. QED BY <2>3
<1>2. ASSUME NEW s \in Shipper, Deliver(s)
      PROVE  Feed!Receive \/ (events' = events /\ received' = received)
  <2>. DEFINE e == First(pass[s].batch)
  <2>1. e \in events /\ Receive(e) /\ (e.prev = Genesis \/ \E f \in Got : f.hash = e.prev)
    BY <1>2, Delivered
  <2>2. events' = events
    BY <1>2 DEF Deliver, trailVars
  <2>. HIDE DEF e
  <2>. QED BY <2>1, <2>2, Arrives DEF Feed!Receive
<1>3. ASSUME NEW b \in late, LateArrival(b)
      PROVE  Feed!Receive \/ (events' = events /\ received' = received)
  <2>. DEFINE e == First(b)
  <2>1. e \in events /\ Receive(e) /\ (e.prev = Genesis \/ \E f \in Got : f.hash = e.prev)
    BY <1>3, Late
  <2>2. events' = events
    BY <1>3 DEF LateArrival, trailVars
  <2>. HIDE DEF e
  <2>. QED BY <2>1, <2>2, Arrives DEF Feed!Receive
<1>4. CASE Outage
  BY <1>4 DEF Outage, SendFails, Crash, trailVars
<1>5. ASSUME NEW s \in Shipper, Step(s), ~Deliver(s)
      PROVE  events' = events /\ received' = received
  BY <1>5 DEF Step, Load, Create, CreateFails, Query, Sent, EndPass, trailVars
<1>6. CASE UNCHANGED vars
  BY <1>6 DEF vars, trailVars, shipVars
<1>. QED BY <1>1, <1>2, <1>3, <1>4, <1>5, <1>6 DEF Next

\* Shipping implements the safety of the feed: the receiver gets one event of
\* the chain after the other, each the successor of the last, and the trail
\* only grows.
THEOREM FeedSafety == Spec => Feed!Safety
<1>1. Init => Feed!Init
  BY FeedInitial
<1>2. ShipInv /\ ShipInv' /\ [Next]_vars => [Feed!Publish \/ Feed!Receive]_(Feed!feedVars)
  BY FeedStep
<1>. QED BY <1>1, <1>2, ShipInvAlways, PTL DEF Spec, Feed!Safety

=============================================================================
