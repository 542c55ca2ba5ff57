SPECIFICATION Spec
CONSTANTS
  Lengths <- ShortMonths
  Browsers = {b1, b2}
  TopN = 1
  DefaultDays = 2
  MaxRangeDays = 2
  None = None
  Other = Other
  MaxRows = 2
  MaxFaults = 1
  ReadDays = {4}
  AskDays = {1, 3, None}
SYMMETRY Symmetry
INVARIANTS
  TypeOK
  DefaultExplained
  ResponseExplained
