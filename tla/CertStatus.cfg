\* Two issued certificates, two serials to issue, three overlapping requests.
CONSTANTS
  Cert = {c1, c2, n1, n2}
  Initial = {c1, c2}
  App = {a1, a2}
  FirstApp = a1
  Req = {r1, r2, r3}
  NoCert = NoCert
SPECIFICATION Spec
SYMMETRY ReqSymmetry
INVARIANTS
  TypeOK
  RevocationEffective
  RevocationRecorded
  SupersededReplaced
\* Every request may have ended.
CHECK_DEADLOCK FALSE
