\* Two requests on one certificate are enough: an assignment and a renewal.
CONSTANTS
  Cert = {c1, n1}
  Initial = {c1}
  App = {a1, a2}
  FirstApp = a1
  Req = {r1, r2}
  NoCert = NoCert
SPECIFICATION Spec
INVARIANT GoodUntilRevoked
CHECK_DEADLOCK FALSE
