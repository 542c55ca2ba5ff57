SPECIFICATION FairSpec
CONSTANTS
  Workers = {w1}
  Keys = {k1, bad}
  Malformed = Malformed
  Rejected = {bad}
  BatchSize = 2
  MaxClicks = 2
  MaxFaults = 0
PROPERTIES
  NoPoison
