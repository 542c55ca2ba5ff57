SPECIFICATION Spec
CONSTANTS
  Workers = {w1, w2}
  Keys = {k1, k2}
  Malformed = Malformed
  Rejected = {}
  BatchSize = 2
  MaxClicks = 3
  MaxFaults = 2
SYMMETRY Symmetry
INVARIANTS
  TypeOK
  NeverOvercounts
  AckedIsRecorded
  LossBounded
