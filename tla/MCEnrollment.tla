---------------------------- MODULE MCEnrollment ----------------------------
(***************************************************************************)
(* Ways to a certificate for TLC: ACME orders, runs that push one to a     *)
(* target, and the cycle that starts them.  They share nothing here, so    *)
(* one of them goes on in a behaviour and the others lie as they began.    *)
(* CMP transactions have a run of their own.                               *)
(***************************************************************************)
EXTENDS Acme, Provisioning, RenewDue

VARIABLE part

enrollVars == <<vars, provVars, dueVars, part>>

\* One state to begin with is enough for what is not looked at.
ProvUnused == installed = Nothing /\ setup = CHOOSE s \in Setup : ~s.files
DueUnused == down = {} /\ due = {} /\ pause = [i \in Inst |-> 0]

EnrollInit ==
  /\ Init /\ ProvInit /\ DueInit
  /\ part \in {"acme", "push", "cycle"}
  /\ part # "acme" => loops = "one"
  /\ part # "push" => ProvUnused
  /\ part # "cycle" => DueUnused

InAcme(A) == part = "acme" /\ A /\ UNCHANGED <<provVars, dueVars, part>>
InCycle(A) == part = "cycle" /\ A /\ UNCHANGED <<vars, provVars, part>>

EnrollNext ==
  \/ InAcme(Next)
  \/ part = "push" /\ ProvNext /\ UNCHANGED <<vars, dueVars, part>>
  \/ InCycle(DueNext)

\* The fairness of Acme and of RenewDue, each in its part.
EnrollSpec ==
  /\ EnrollInit /\ [][EnrollNext]_enrollVars
  /\ WF_enrollVars(InAcme(Keep))
  /\ SF_enrollVars(InAcme(Close(Keeper)))
  /\ \A o \in Order : WF_enrollVars(InAcme(Ages(o)))
  /\ WF_enrollVars(InCycle(Cycle))
  /\ WF_enrollVars(InCycle(\E i \in Inst : Renew(i)))

\* Every component has its types.
EnrollTypeOK == TypeOK /\ ProvTypeOK /\ DueTypeOK
=============================================================================
