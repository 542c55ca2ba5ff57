SPECIFICATION Spec
CONSTANTS
  bob = bob
  adm = adm
  Users = {bob, adm}
  Invitees = {bob}
  System = adm
  Codes = {c1, api}
  Reserved = {api}
  Rows = {c1, api}
  ImportOwner <- BobOwns
  Total = 2
  Requests = {q1, q2}
  Attempts = 2
  None = None
  MaxRuns = 2
  MaxClicks = 2
SYMMETRY Symmetry
INVARIANTS
  TypeOK
  ReservedUnused
  SoleOwner
  OwnerKept
PROPERTIES
  WrittenByGrantee
  DisabledForGood
  RerunIsSafe
