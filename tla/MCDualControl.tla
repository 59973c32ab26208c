--------------------------- MODULE MCDualControl ---------------------------
(***************************************************************************)
(* What a second person decides, for TLC: the approvals of the console,    *)
(* and those that CMP devices wait for.  They share nothing here, so one   *)
(* of the two goes on in a behaviour and the other lies as it began.       *)
(***************************************************************************)
EXTENDS DualControl, Cmp, TLC

VARIABLE part

decisionsVars == <<vars, cmpVars, part>>

\* One state to begin with is enough for what is not looked at.
DecisionsInit ==
  /\ Init /\ CmpInit
  /\ part \in {"console", "devices"}
  /\ part = "console" => updates = {} /\ implicit = {}

DecisionsNext ==
  \/ part = "console" /\ Next /\ UNCHANGED <<cmpVars, part>>
  \/ part = "devices" /\ CmpNext /\ UNCHANGED <<vars, part>>

DecisionsSpec == DecisionsInit /\ [][DecisionsNext]_decisionsVars

\* Both have their types.
DecisionsTypeOK == TypeOK /\ CmpTypeOK

\* Approvals, apps and calls are interchangeable.
DecisionSymmetry ==
  Permutations(Approval) \cup Permutations(App) \cup Permutations(Session)

=============================================================================
