\* One order of two names under two requests and housekeeping; two runs that
\* overlap on an installation; three installations, of which a cycle takes one.
CONSTANTS
  Order = {o1}
  Name = {n1, n2}
  Req = {r1, r2}
  Keeper = Keeper
  Pushed = {p0, p1, p2}
  Run = {w1, w2}
  Nothing = Nothing
  Last = 3
  PER_CYCLE = 1
  MAX_BACKOFF = 8
  LIFE = 4
SPECIFICATION EnrollSpec
INVARIANTS
  EnrollTypeOK
  IssuedProven
  ReadyWhenProven
  RecordedIsInstalled
  NothingLost
PROPERTIES
  OrdersEnd
  EveryoneServed
CHECK_DEADLOCK FALSE
