SPECIFICATION Spec
CONSTANTS
  Instances = {r1}
  Requests = {q1}
  Editors = {e1}
  Targets = {a, b}
  None = None
  Expiries = {"never"}
  MaxEdits = 1
  MaxFaults = 0
SYMMETRY Symmetry
INVARIANT
  EditTakesEffect
