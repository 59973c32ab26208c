----------------------------- MODULE Enrolment -----------------------------
(***************************************************************************)
(* What an enrolment promises a device that asks once (guide/18-cmp.md):   *)
(* one certificate or none, which stays valid unless the device refuses    *)
(* it, and does not once its refusal is answered, while that is in time.   *)
(* A transaction that was decided twice may have more certificates; also   *)
(* then what the device gets is valid until it refuses it.                 *)
(***************************************************************************)
CONSTANTS Txn, Cert, None

VARIABLES
  issued,  \* the certificates issued in each transaction
  has,     \* the one its device was given
  valid,   \* the certificates that are issued and not revoked
  knows,   \* what each device was told, or has decided
  late,    \* the transactions that are too old
  twice    \* the transactions that were decided more than once

enrolmentVars == <<issued, has, valid, knows, late, twice>>

Init ==
  /\ issued = [t \in Txn |-> {}] /\ has = [t \in Txn |-> None]
  /\ valid = {} /\ late = {} /\ twice = {}
  /\ knows = [t \in Txn |-> "nothing"]

Learns(t, from, to) == knows[t] = from /\ knows' = [knows EXCEPT ![t] = to]

\* The device gets a certificate, to judge it or to keep it.
Granted(t, c) ==
  /\ Learns(t, "nothing", "granted") \/ Learns(t, "nothing", "kept")
  /\ has' = [has EXCEPT ![t] = c]

Issue(t, c) ==
  /\ \A s \in Txn : c \notin issued[s]
  /\ twice' \in {twice, twice \cup {t}}
  /\ issued[t] = {} \/ t \in twice'
  /\ issued' = [issued EXCEPT ![t] = @ \cup {c}]
  /\ valid' = valid \cup {c}
  /\ Granted(t, c) \/ UNCHANGED <<knows, has>>
  /\ UNCHANGED late

Grant(t, c) ==
  /\ c \in issued[t] \cap valid
  /\ Granted(t, c)
  /\ UNCHANGED <<issued, valid, late, twice>>

Keep(t) ==
  /\ has[t] \in valid
  /\ Learns(t, "granted", "kept")
  /\ UNCHANGED <<issued, has, valid, late, twice>>

Refuse(t) ==
  /\ Learns(t, "granted", "refused")
  /\ UNCHANGED <<issued, has, valid, late, twice>>

Revoke(t, c) ==
  /\ c \in issued[t]
  /\ knows[t] \in {"refused", "told"}
  /\ valid' = valid \ {c}
  /\ Learns(t, "refused", "told") \/ UNCHANGED knows
  /\ UNCHANGED <<issued, has, late, twice>>

\* The device is told that there is nothing left of what it refused.
Tell(t) ==
  /\ issued[t] \cap valid = {} \/ t \in late \cup twice
  /\ Learns(t, "refused", "told")
  /\ UNCHANGED <<issued, has, valid, late, twice>>

Fail(t) ==
  /\ Learns(t, "nothing", "failed") \/ Learns(t, "granted", "failed")
  /\ UNCHANGED <<issued, has, valid, late, twice>>

Age(t) == late' = late \cup {t} /\ UNCHANGED <<issued, has, valid, knows, twice>>

DecideAgain(t) == twice' = twice \cup {t} /\ UNCHANGED <<issued, has, valid, knows, late>>

Step(t) ==
  \/ \E c \in Cert : Issue(t, c) \/ Grant(t, c) \/ Revoke(t, c)
  \/ Keep(t) \/ Refuse(t) \/ Tell(t) \/ Fail(t) \/ Age(t) \/ DecideAgain(t)

Spec == Init /\ [][\E t \in Txn : Step(t)]_enrolmentVars

=============================================================================
