SPECIFICATION Spec
CONSTANTS
  Instances = {r1}
  Requests = {q1}
  Editors = {e1}
  Targets = {a}
  None = None
  Expiries = {"later"}
  MaxEdits = 0
  MaxFaults = 0
SYMMETRY Symmetry
INVARIANT
  ExpiredIs404
