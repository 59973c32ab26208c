------------------------------ MODULE RenewDue ------------------------------
(***************************************************************************)
(* The cycle that renews what is due (due and renew_due, provisioning/     *)
(* engine.py).  It takes a fixed number of installations, in the order of  *)
(* their ids, and runs them one after another, each in a transaction of    *)
(* its own; one that fails waits the longer, the more often it failed.     *)
(*                                                                         *)
(* Time is counted in cycles, which the loop starts every five minutes;    *)
(* a cycle's runs are over before the next one starts.  Some targets are   *)
(* down for good; the others take what they are given.                     *)
(***************************************************************************)
EXTENDS Naturals, FiniteSets

CONSTANTS
  Last,      \* the installations are 1..Last
  PER_CYCLE, \* how many a cycle takes
  MAX_BACKOFF, \* in cycles; 24 hours in the code
  LIFE       \* the cycles for which a new certificate is not due, at least

ASSUME CycleAssumption == Last \in Nat /\ PER_CYCLE \in Nat \ {0}
                          /\ MAX_BACKOFF \in Nat \ {0, 1} /\ LIFE \in Nat

VARIABLES
  down,      \* installations whose target fails every run; does not change
  due,       \* those whose certificate is about to expire, is gone or was not installed
  pause,     \* the backoff after the last run of each, if that failed
  wait,      \* cycles until next_attempt_at, or for which its certificate is new
  queue,     \* what this cycle has still to run, in the order of the ids
  aborted    \* the last cycle that had something to run was given up

dueVars == <<down, due, pause, wait, queue, aborted>>

-----------------------------------------------------------------------------

Inst == 1..Last

\* Mutant: a run that failed is repeated by the next cycle.
Backoff_None(p) == 1

\* Ten minutes after the first failure, then twice as long each time.
Backoff(p) ==
  IF p = 0 THEN 2 ELSE IF 2 * p < MAX_BACKOFF THEN 2 * p ELSE MAX_BACKOFF

\* What that comes to after any number of failures.
Pauses == {p \in 0..MAX_BACKOFF : p \in {0, MAX_BACKOFF} \/ \E n \in 1..p : p = 2^n}

Later(i) == IF wait[i] = 0 THEN 0 ELSE wait[i] - 1

\* due: the first of those that are due and do not wait.
Picked ==
  {i \in due : /\ Later(i) = 0
              /\ Cardinality({j \in due : j < i /\ Later(j) = 0}) < PER_CYCLE}

Cycle ==
  /\ queue = {}
  /\ wait' = [i \in Inst |-> Later(i)]
  /\ queue' = Picked
  /\ UNCHANGED <<down, due, pause, aborted>>

\* provision, and the commit.
Renew(i) ==
  /\ i \in queue /\ \A j \in queue : i <= j
  /\ queue' = queue \ {i}
  /\ IF i \in down
     THEN /\ pause' = [pause EXCEPT ![i] = Backoff(@)]
          /\ wait' = [wait EXCEPT ![i] = Backoff(pause[i])]
          /\ due' = due \cup {i}
     ELSE /\ pause' = [pause EXCEPT ![i] = 0]
          /\ wait' = [wait EXCEPT ![i] = LIFE]
          /\ due' = due \ {i}
  /\ aborted' = FALSE
  /\ UNCHANGED down

\* The cycle is given up, and what it has not committed with it; but not one
\* after another before they come to a run.
Abort ==
  /\ queue # {} /\ ~aborted
  /\ queue' = {} /\ aborted' = TRUE
  /\ UNCHANGED <<down, due, pause, wait>>

\* A certificate comes to its renewal window.
Expires(i) ==
  /\ i \notin due /\ wait[i] = 0
  /\ due' = due \cup {i}
  /\ UNCHANGED <<down, pause, wait, queue, aborted>>

-----------------------------------------------------------------------------

\* Whatever failed before, and how often.
DueInit ==
  /\ down \in SUBSET Inst
  /\ due \in SUBSET Inst
  /\ pause \in {f \in [Inst -> Pauses] : \A i \in Inst \ due : f[i] = 0}
  /\ wait = pause
  /\ queue = {}
  /\ aborted = FALSE

DueNext ==
  \/ Cycle \/ Abort
  \/ \E i \in Inst : Renew(i) \/ Expires(i)

\* The loop goes on, and a run comes to its end: every wait has a timeout.
DueFairness == WF_dueVars(Cycle) /\ WF_dueVars(\E i \in Inst : Renew(i))

DueSpec == DueInit /\ [][DueNext]_dueVars /\ DueFairness

-----------------------------------------------------------------------------
(* Properties *)

DueTypeOK ==
  /\ down \subseteq Inst /\ due \subseteq Inst
  /\ pause \in [Inst -> 0..MAX_BACKOFF]
  /\ wait \in [Inst -> (0..MAX_BACKOFF) \cup (0..LIFE)]
  /\ queue \subseteq Inst
  /\ aborted \in BOOLEAN

\* An installation that can be renewed is, in the end, however many before it fail
\* for good and however often a cycle is given up: those that fail are put off long
\* enough for the others to come in.
EveryoneServed == \A i \in Inst : (i \in due /\ i \notin down) ~> (i \notin due)

=============================================================================
