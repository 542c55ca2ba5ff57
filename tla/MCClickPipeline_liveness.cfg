SPECIFICATION FairSpec
CONSTANTS
  Workers = {w1, w2}
  Keys = {k1, k2}
  Malformed = Malformed
  Rejected = {k2}
  BatchSize = 2
  MaxClicks = 2
  MaxFaults = 1
PROPERTIES
  EventuallyRecorded
  EventuallyAcked
  ImplementsLedger
