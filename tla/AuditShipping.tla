--------------------------- MODULE AuditShipping ---------------------------
(***************************************************************************)
(* Shipping the audit trail to one sink (audit/shipping.py, ship).  A pass *)
(* loads the sink's cursor, and for each batch of later events checks that *)
(* it goes on from what was shipped, sends it, and moves the cursor; the   *)
(* moved cursor is flushed before the next batch is queried and commits at *)
(* the end of the pass.  Passes overlap: every replica's loop and          *)
(* "certadillo audit ship" run one.  They work on the cursor they loaded,  *)
(* so a slow pass sends again what another sent and moves the cursor back. *)
(*                                                                         *)
(* The sink takes the records of a batch in order and a pass can fail      *)
(* after any of them, or with the rest still on its way (a request that    *)
(* timed out at the sender).  The receiver drops records whose hash it has *)
(* (verify_records), so its copy is modelled without them.                 *)
(***************************************************************************)
EXTENDS AuditTrail, Sequences, FiniteSets

CONSTANTS
  Shipper,     \* the passes that can run at the same time
  Batch,       \* BATCH: events a batch holds
  MaxBatches,  \* max_batches of a pass
  NoHash       \* the last_hash of a cursor that was never moved

ASSUME ShipAssumption ==
  /\ Batch \in Nat \ {0}
  /\ MaxBatches \in Nat \ {0}
  /\ NoHash \notin Nat

VARIABLES
  cursor,    \* the committed AuditShipCursor row
  pass,      \* what each pass has done so far
  late,      \* what is left of batches whose sender gave up
  received   \* the receiver's copy, without duplicates

shipVars == <<cursor, pass, late, received>>

vars == <<trailVars, shipVars>>

-----------------------------------------------------------------------------

Cursor == [exists : BOOLEAN, id : Nat, hash : Nat \cup {NoHash}]

Pass == [pc : {"idle", "create", "query", "send", "commit"},
         cur : Cursor,      \* the cursor object
         moved : BOOLEAN,   \* it was changed in this pass
         lock : BOOLEAN,    \* and flushed, so that its row is locked
         upto : Cursor,     \* where the batch at hand ends
         batch : SUBSET Row,  \* what is left of it
         n : Nat,           \* the batches sent
         alarm : BOOLEAN]   \* a chain break was reported

NoCursor == [exists |-> FALSE, id |-> 0, hash |-> NoHash]

Idle == [pc |-> "idle", cur |-> NoCursor, moved |-> FALSE, lock |-> FALSE,
         upto |-> NoCursor, batch |-> {}, n |-> 0, alarm |-> FALSE]

First(S) == CHOOSE e \in S : \A f \in S : e.id <= f.id

\* Mutant: one event too many counts as shipped.
Later_OffByOne(cur) == {e \in events : e.id > cur.id + 1}

\* The events a pass has not shipped.
Later(cur) == {e \in events : e.id > cur.id}

\* The oldest of them, as many as a batch holds.
NextBatch(cur) ==
  {e \in Later(cur) : Cardinality({f \in Later(cur) : f.id < e.id}) < Batch}

Got == {received[i] : i \in 1..Len(received)}

\* A record arrives at the receiver.
Receive(e) == received' = IF e \in Got THEN received ELSE Append(received, e)

CursorFree(s) == \A q \in Shipper \ {s} : ~pass[q].lock

-----------------------------------------------------------------------------
(* ship, a step for each point where it reads, locks, sends or commits *)

Load(s) ==
  /\ pass[s].pc = "idle"
  /\ pass' = [pass EXCEPT ![s] = [Idle EXCEPT !.cur = cursor,
                 !.pc = IF cursor.exists THEN "query" ELSE "create"]]
  /\ UNCHANGED <<trailVars, cursor, late, received>>

\* The first pass inserts the row; the name of the sink is unique.
Create(s) ==
  /\ pass[s].pc = "create"
  /\ CursorFree(s) /\ ~cursor.exists
  /\ pass' = [pass EXCEPT ![s].pc = "query", ![s].cur.exists = TRUE,
                          ![s].moved = TRUE, ![s].lock = TRUE]
  /\ UNCHANGED <<trailVars, cursor, late, received>>

CreateFails(s) ==
  /\ pass[s].pc = "create"
  /\ cursor.exists
  /\ pass' = [pass EXCEPT ![s] = Idle]
  /\ UNCHANGED <<trailVars, cursor, late, received>>

\* Mutant: the cursor moves before the batch is sent.
Query_MovesFirst(s) ==
  /\ pass[s].pc = "query"
  /\ pass[s].moved => CursorFree(s)
  /\ LET cur == pass[s].cur
         evs == NextBatch(cur)
         last == [exists |-> TRUE, id |-> Last(evs).id, hash |-> Last(evs).hash]
         flushed == [pass[s] EXCEPT !.lock = pass[s].moved]
     IN  pass' = [pass EXCEPT ![s] =
           IF evs = {}
           THEN [flushed EXCEPT !.pc = "commit"]
           ELSE [flushed EXCEPT !.pc = "send", !.batch = evs, !.moved = TRUE,
                   !.cur = last, !.upto = last]]
  /\ UNCHANGED <<trailVars, cursor, late, received>>

\* The query for the next batch flushes the moved cursor first.  The batch must
\* go on from the cursor; otherwise a chain break is reported.
Query(s) ==
  /\ pass[s].pc = "query"
  /\ pass[s].moved => CursorFree(s)
  /\ LET cur == pass[s].cur
         evs == NextBatch(cur)
         break == cur.hash # NoHash /\ First(evs).prev # cur.hash
         flushed == [pass[s] EXCEPT !.lock = pass[s].moved]
     IN  pass' = [pass EXCEPT ![s] =
           IF evs = {}
           THEN [flushed EXCEPT !.pc = "commit"]
           ELSE IF break THEN [flushed EXCEPT !.pc = "commit", !.alarm = TRUE]
           ELSE [flushed EXCEPT !.pc = "send", !.batch = evs,
                   !.upto = [exists |-> TRUE, id |-> Last(evs).id,
                             hash |-> Last(evs).hash]]]
  /\ UNCHANGED <<trailVars, cursor, late, received>>

\* A record of the batch reaches the sink.
Deliver(s) ==
  /\ pass[s].pc = "send"
  /\ pass[s].batch # {}
  /\ Receive(First(pass[s].batch))
  /\ pass' = [pass EXCEPT ![s].batch = @ \ {First(@)}]
  /\ UNCHANGED <<trailVars, cursor, late>>

\* A pass ends after so many batches; the next one goes on.
AfterBatch(s) == IF pass[s].n + 1 < MaxBatches THEN "query" ELSE "commit"

\* Mutant: the cursor takes its id from the batch and its hash from the table.
Sent_HeadHash(s) ==
  /\ pass[s].pc = "send"
  /\ pass[s].batch = {}
  /\ pass' = [pass EXCEPT ![s].pc = AfterBatch(s), ![s].moved = TRUE, ![s].n = @ + 1,
                          ![s].cur = [pass[s].upto EXCEPT !.hash = HeadHash(events)]]
  /\ UNCHANGED <<trailVars, cursor, late, received>>

\* send returned: the cursor moves to the end of the batch.
Sent(s) ==
  /\ pass[s].pc = "send"
  /\ pass[s].batch = {}
  /\ pass' = [pass EXCEPT ![s].pc = AfterBatch(s), ![s].cur = pass[s].upto,
                          ![s].moved = TRUE, ![s].n = @ + 1]
  /\ UNCHANGED <<trailVars, cursor, late, received>>

\* Mutant: a failed batch is given up.
SendFails_Skips(s) ==
  /\ pass[s].pc = "send"
  /\ pass' = [pass EXCEPT ![s].pc = "commit", ![s].batch = {},
                          ![s].cur = pass[s].upto, ![s].moved = TRUE]
  /\ UNCHANGED <<trailVars, cursor, late, received>>

\* send raised: the pass ends where the last batch that was sent ended.  What
\* is left of the batch is lost or still arrives.
SendFails(s) ==
  /\ pass[s].pc = "send"
  /\ pass' = [pass EXCEPT ![s].pc = "commit", ![s].batch = {}]
  /\ \/ late' = late
     \/ late' = late \cup ({pass[s].batch} \ {{}})
  /\ UNCHANGED <<trailVars, cursor, received>>

\* The pass also writes its outcome to the row, so it waits for the lock; it
\* changes the place only if it moved it.
EndPass(s) ==
  /\ pass[s].pc = "commit"
  /\ CursorFree(s)
  /\ cursor' = IF pass[s].moved THEN pass[s].cur ELSE cursor
  /\ pass' = [pass EXCEPT ![s] = Idle]
  /\ UNCHANGED <<trailVars, late, received>>

\* The process dies, or the database refuses a statement.
Crash(s) ==
  /\ pass[s].pc # "idle"
  /\ pass' = [pass EXCEPT ![s] = Idle]
  /\ UNCHANGED <<trailVars, cursor, late, received>>

\* A record of a batch whose sender gave up.
LateArrival(b) ==
  /\ Receive(First(b))
  /\ late' = (late \ {b}) \cup ({b \ {First(b)}} \ {{}})
  /\ UNCHANGED <<trailVars, cursor, pass>>

-----------------------------------------------------------------------------

Init ==
  /\ TrailInit
  /\ cursor = NoCursor
  /\ pass = [s \in Shipper |-> Idle]
  /\ late = {}
  /\ received = <<>>

Step(s) ==
  \/ Load(s)
  \/ Create(s)
  \/ CreateFails(s)
  \/ Query(s)
  \/ Deliver(s)
  \/ Sent(s)
  \/ EndPass(s)

Outage == \E s \in Shipper : SendFails(s) \/ Crash(s)

Next ==
  \/ TrailNext /\ UNCHANGED shipVars
  \/ \E s \in Shipper : Step(s)
  \/ Outage
  \/ \E b \in late : LateArrival(b)

Spec == Init /\ [][Next]_vars

\* The background loop starts a pass again and again, and outages end.
FairSpec ==
  /\ Spec
  /\ \A s \in Shipper : WF_vars(Step(s))
  /\ <>[][~Outage]_vars

-----------------------------------------------------------------------------
(* Properties *)

TypeOK ==
  /\ TrailTypeOK
  /\ cursor \in Cursor
  /\ pass \in [Shipper -> Pass]
  /\ late \subseteq SUBSET Row
  /\ received \in Seq(Row)

\* verify_records on the receiver's copy finds no gap and no reordering, with
\* overlapping passes, cursors that move back, batches sent in part, sent
\* twice or arriving late, and passes that die between sending and committing.
ExportVerifies ==
  \A i \in 1..Len(received) :
    received[i].prev = IF i = 1 THEN Genesis ELSE received[i-1].hash

\* What the cursor counts as shipped has arrived, so nothing is ever skipped.
CursorCovers == \A e \in events : e.id <= cursor.id => e \in Got

\* No pass takes an unchanged history for a changed one ("chain break after
\* event ..."): the cursor's id and hash name the same event, and ids are
\* given in the order of the chain even when transactions roll back.
NoFalseAlarm == \A s \in Shipper : ~pass[s].alarm

Feed == INSTANCE AuditFeed WITH chain <- events

\* The trail and its shipping are the feed: every step appends to one chain,
\* brings the receiver its next event, or shows neither; and once outages end
\* the receiver gets every event ("every event leaves the host").
FeedImplemented == Feed!Spec

=============================================================================
