SPECIFICATION Spec
CONSTANTS
  Workers = {w1, w2}
  Keys = {k1, k2}
  Malformed = Malformed
  Rejected = {}
  BatchSize = 2
  MaxClicks = 2
  MaxFaults = 1
INVARIANTS
  AckedIsCounted
