SPECIFICATION Spec
CONSTANTS
  Users = {ann, ben}
  Tokens = {t1, t2}
  Requests = {q1, q2}
  TTL = 2
  None = None
  MaxFailed = 3
  MaxCount = 4
  Keys = {key}
  Ceremonies = {c1, c2}
  MaxSignCount = 2
  Traffic <- OneKind
SYMMETRY Symmetry
INVARIANTS
  TypeOK
  IndexSuffices
  LogoutHolds
  LockEarned
  CeremonyOnce
  SomebodyIsLeft
PROPERTIES
  LockHolds
  CounterRises
