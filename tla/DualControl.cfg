\* The console: an admin, an approver the system created and one that an admin
\* may create, two requests for anything, two overlapping decisions.
\* The devices: one transaction under two threads, two calls of decide and
\* housekeeping; two certificates, so that a second one can be issued.
CONSTANTS
  Maker = {m1, m2}
  Approver = {v1, v2}
  Founder = {m1, m2, v1}
  System = System
  Approval = {q1, q2}
  App = {x1, x2}
  Name = {k1}
  Session = {s1, s2}
  Txn = {t1}
  Cert = {c1, c2}
  Thread = {h1, h2}
  Decider = {a1, a2}
  None = None
SPECIFICATION DecisionsSpec
SYMMETRY DecisionSymmetry
INVARIANTS
  DecisionsTypeOK
  MakerChecker
  OnboardingAgrees
  ExecutedOnce
  OneCertificate
  RefusedIsRevoked
PROPERTY EnrolledOnce
\* Every name, approval and call may be used up.
CHECK_DEADLOCK FALSE
