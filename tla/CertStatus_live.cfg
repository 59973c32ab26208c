\* No certificate changes hands.  One certificate and its successor under three
\* requests: enough for a cycle of three through the certificate's row, the CA
\* row (a revocation of what reads revoked already takes it first) and the
\* audit lock.
CONSTANTS
  Cert = {c1, n1}
  Initial = {c1}
  App = {a1}
  FirstApp = a1
  Req = {r1, r2, r3}
  NoCert = NoCert
SPECIFICATION FairSpec
INVARIANT AnswersAgree
PROPERTIES
  RevokedAtOnce
  RequestsEnd
\* Every request may have ended.
CHECK_DEADLOCK FALSE
