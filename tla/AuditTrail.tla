----------------------------- MODULE AuditTrail -----------------------------
(***************************************************************************)
(* The hash-chained audit trail (audit/log.py).  Every event names the     *)
(* hash of the event before it.  record appends inside the transaction of  *)
(* the handler that calls it, and handlers of several replicas and of the  *)
(* command line append at once:                                            *)
(*                                                                         *)
(*  - on PostgreSQL record takes an advisory lock that the transaction     *)
(*    holds to its end, reads the last event and inserts the next;         *)
(*  - on SQLite nothing is locked for the read.  The first insert takes    *)
(*    the database's write lock, held to the end of the transaction;       *)
(*  - on both, prev_hash is unique: an insert waits for the transaction    *)
(*    that inserted the same prev_hash and fails if that one commits.      *)
(*                                                                         *)
(* A hash is modelled by the order in which rows were first made, rolled   *)
(* back ones included: the time stamp in the body makes it unique.         *)
(***************************************************************************)
EXTENDS Naturals

CONSTANTS
  Writer,     \* the transactions that record
  MaxEvents   \* bound: rows ever inserted

ASSUME EventAssumption == MaxEvents \in Nat

VARIABLES
  db,       \* the database in use; does not change
  made,     \* how many rows were ever inserted: the sequence of the ids on
            \* PostgreSQL, and the supply of hashes
  events,   \* the committed audit_events table
  tx        \* what each transaction has done so far

trailVars == <<db, made, events, tx>>

-----------------------------------------------------------------------------

Genesis == 0

Row == [id : Nat \ {0}, prev : Nat, hash : Nat \ {0}]

\* pc: out of record, about to read the head, about to insert.
Tx == [pc : {"out", "head", "insert"}, lock : BOOLEAN, prev : Nat,
       rows : SUBSET Row]

Blank == [pc |-> "out", lock |-> FALSE, prev |-> Genesis, rows |-> {}]

\* The row with the highest id.
Last(S) == CHOOSE e \in S : \A f \in S : f.id <= e.id

\* The hash the next event goes on from.
HeadHash(S) == IF S = {} THEN Genesis ELSE Last(S).hash

\* verify_chain: in the order of the ids every row names the one before it.
Valid(S) == \A e \in S : e.prev = HeadHash({f \in S : f.id < e.id})

\* The table as w's own statements see it.
View(w) == events \cup tx[w].rows

\* PostgreSQL never gives an id twice; SQLite goes on from the highest row.
NextId(w) ==
  IF db = "postgresql" THEN made + 1
  ELSE IF View(w) = {} THEN 1 ELSE Last(View(w)).id + 1

\* The lock an insert needs: the advisory lock or SQLite's write lock.
LockFree(w) == \A v \in Writer \ {w} : ~tx[v].lock

-----------------------------------------------------------------------------
(* record, a step for each statement it runs *)

\* Only PostgreSQL locks before the read.
Record(w) ==
  /\ tx[w].pc = "out"
  /\ db = "postgresql" => LockFree(w)
  /\ tx' = [tx EXCEPT ![w].pc = "head",
                      ![w].lock = @ \/ db = "postgresql"]
  /\ UNCHANGED <<db, made, events>>

ReadHead(w) ==
  /\ tx[w].pc = "head"
  /\ tx' = [tx EXCEPT ![w].pc = "insert", ![w].prev = HeadHash(View(w))]
  /\ UNCHANGED <<db, made, events>>

\* Mutant: prev_hash is not declared unique.
Insert_NotUnique(w) ==
  /\ tx[w].pc = "insert"
  /\ LockFree(w)
  /\ made < MaxEvents
  /\ made' = made + 1
  /\ tx' = [tx EXCEPT ![w].pc = "out", ![w].lock = TRUE,
       ![w].rows = @ \cup {[id |-> NextId(w), prev |-> tx[w].prev, hash |-> made + 1]}]
  /\ UNCHANGED <<db, events>>

\* Mutant: the hash column gets the hash of the event before.
Insert_PrevHashTwice(w) ==
  /\ tx[w].pc = "insert"
  /\ LockFree(w)
  /\ \A e \in View(w) : e.prev # tx[w].prev
  /\ made < MaxEvents
  /\ made' = made + 1
  /\ tx' = [tx EXCEPT ![w].pc = "out", ![w].lock = TRUE,
       ![w].rows = @ \cup {[id |-> NextId(w), prev |-> tx[w].prev, hash |-> tx[w].prev]}]
  /\ UNCHANGED <<db, events>>

\* The INSERT.  It needs the write lock on SQLite; whoever has the lock alone
\* has uncommitted rows, so the unique check looks at the committed ones and
\* its own.  A failed check rolls the handler back.
Insert(w) ==
  /\ tx[w].pc = "insert"
  /\ LockFree(w)
  /\ \A e \in View(w) : e.prev # tx[w].prev
  /\ made < MaxEvents
  /\ made' = made + 1
  /\ tx' = [tx EXCEPT ![w].pc = "out", ![w].lock = TRUE,
       ![w].rows = @ \cup {[id |-> NextId(w), prev |-> tx[w].prev, hash |-> made + 1]}]
  /\ UNCHANGED <<db, events>>

Commit(w) ==
  /\ tx[w].pc = "out"
  /\ tx[w].rows # {}
  /\ events' = View(w)
  /\ tx' = [tx EXCEPT ![w] = Blank]
  /\ UNCHANGED <<db, made>>

\* The handler raises, a lock times out, the unique check fails, or the process
\* dies.
Rollback(w) ==
  /\ tx[w] # Blank
  /\ tx' = [tx EXCEPT ![w] = Blank]
  /\ UNCHANGED <<db, made, events>>

-----------------------------------------------------------------------------

TrailInit ==
  /\ db \in {"postgresql", "sqlite"}
  /\ made = 0
  /\ events = {}
  /\ tx = [w \in Writer |-> Blank]

TrailNext ==
  \E w \in Writer :
    \/ Record(w)
    \/ ReadHead(w)
    \/ Insert(w)
    \/ Commit(w)
    \/ Rollback(w)

TrailSpec == TrailInit /\ [][TrailNext]_trailVars

-----------------------------------------------------------------------------
(* Properties *)

TrailTypeOK ==
  /\ db \in {"postgresql", "sqlite"}
  /\ made \in Nat
  /\ events \subseteq Row
  /\ tx \in [Writer -> Tx]

\* The committed trail is one chain, whichever writers race for its head and
\* whichever of them roll back, with the advisory lock and without: a race
\* fails one of them and never forks the trail (db.py: "two writers racing on
\* the same chain head fail loudly instead of forking it").
ChainValid == Valid(events)

=============================================================================
