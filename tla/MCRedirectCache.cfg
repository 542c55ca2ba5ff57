SPECIFICATION FairSpec
CONSTANTS
  Instances = {r1}
  Requests = {q1, q2}
  Editors = {e1, e2}
  Targets = {a, b}
  None = None
  Expiries = {"later"}
  MaxEdits = 2
  MaxFaults = 1
INVARIANTS
  TypeOK
  StaleRedisExplained
PROPERTIES
  DeadStaysDead
  LocalForgets
