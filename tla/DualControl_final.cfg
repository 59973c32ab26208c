\* Two approvers decide one request at the same time.
CONSTANTS
  Maker = {m1}
  Approver = {v1, v2}
  Founder = {m1, v1, v2}
  System = System
  Approval = {q1}
  App = {x1}
  Name = {k1}
  Session = {s1, s2}
SPECIFICATION Spec
PROPERTY DecisionIsFinal
CHECK_DEADLOCK FALSE
