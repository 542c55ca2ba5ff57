SPECIFICATION Spec
CONSTANTS
  bob = bob
  adm = adm
  Users = {bob, adm}
  Invitees = {bob, adm}
  System = adm
  Codes = {c1, api}
  Reserved = {api}
  Rows = {}
  ImportOwner <- BobOwns
  Total = 2
  Requests = {q1}
  Attempts = 2
  None = None
  MaxRuns = 0
  MaxClicks = 0
INVARIANT HasOwner
