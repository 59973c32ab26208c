\* A challenge that waits for its validation and a client that gives the
\* authorization up.
CONSTANTS
  Order = {o1}
  Name = {n1}
  Req = {r1, r2}
  Keeper = Keeper
SPECIFICATION Spec
PROPERTY GivenUpForGood
