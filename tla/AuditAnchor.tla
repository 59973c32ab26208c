---------------------------- MODULE AuditAnchor -----------------------------
(***************************************************************************)
(* Anchors: housekeeping, the API and the command line send the head of    *)
(* the audit chain to a file or URL off the host (audit/log.py,            *)
(* maybe_anchor), and record that they did, in a transaction that may have *)
(* recorded events of its own before and commits or rolls back later.      *)
(***************************************************************************)
EXTENDS AuditTrail

VARIABLES
  anchors,  \* the chain heads sent off the host
  owing     \* the transactions that sent one they have not recorded yet

anchorVars == <<anchors, owing>>

vars == <<trailVars, anchorVars>>

\* The head of the chain as this transaction sees it, its own rows included.
Anchor(w) ==
  /\ tx[w].pc = "out" /\ w \notin owing
  /\ View(w) # {} /\ Valid(View(w))
  /\ anchors' = anchors \cup {Last(View(w))}
  /\ owing' = owing \cup {w}
  /\ UNCHANGED trailVars

\* A transaction that owes the record of an anchor does not commit without it.
Handle(w) ==
  \/ Record(w) /\ owing' = owing \ {w}
  \/ (ReadHead(w) \/ Insert(w)) /\ UNCHANGED owing
  \/ Commit(w) /\ w \notin owing /\ UNCHANGED owing
  \/ Rollback(w) /\ owing' = owing \ {w}

Init == TrailInit /\ anchors = {} /\ owing = {}

Next == \E w \in Writer : Anchor(w) \/ (Handle(w) /\ UNCHANGED anchors)

Spec == Init /\ [][Next]_vars

-----------------------------------------------------------------------------

\* guide/15-administration.md: audit verify --anchors fails if the history was
\* rewritten after an anchor.  Nothing here rewrites it, so every anchor should
\* name an event of the trail, or of a transaction that may still commit.
AnchorsVerify ==
  \A a \in anchors : a \in events \/ \E w \in Writer : a \in tx[w].rows

=============================================================================
