SPECIFICATION Spec
CONSTANTS
  Emails = {ann, ben}
  Configs = {idp}
  Subjects = {sub}
  Local = Local
  Requests = {q1, q2}
  Admins = {a1, a2}
  Patches <- SmallPatches
  None = None
  MaxArrivals = 3
  Flows = {f1, f2}
SYMMETRY Symmetry
CHECK_DEADLOCK FALSE
INVARIANTS
  TypeOK
  OneAccountPerKey
  ClaimedIsAsked
  ConsentGiven
  StrictMeansApproved
  ConfirmedIsLinked
  SettingsAsAsked
  FlowTakenOnce
  DeletedUnused
PROPERTIES
  SignupNotLost
