SPECIFICATION Spec
CONSTANTS
  d1 = d1
  d2 = d2
  p = p
  q = q
  Desks = {d1, d2}
  NoSession = NoSession
  Names = {"admin", "clerk"}
  Passwords = {p, q}
  LOCKOUT_THRESHOLD = 1
  INITIAL_LOCKOUT = 1
  MAX_LOCKOUT = 1
  MaxUsers = 2
  MaxCredential = 2
  MaxAttempts = 1
  MaxClock = 3
INVARIANTS TypeOK LastAdmin ArchivedInactive SessionCurrent
PROPERTIES LockRespected OnlyAdministratorsAdminister TemporaryPasswordReplaced
SYMMETRY DesksAndPasswords
