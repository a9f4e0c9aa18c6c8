SPECIFICATION DesktopSpec
CONSTANTS
  PoolSize = 2
  MaxLogins = 2
  d1 = d1
  p = p
  q = q
  Desks = {d1}
  NoSession = NoSession
  Names = {"admin"}
  Passwords = {p, q}
\* One tick is 30 seconds: the thresholds of lockout.py are 5, 1 and 30.
  LOCKOUT_THRESHOLD = 5
  INITIAL_LOCKOUT = 1
  MAX_LOCKOUT = 30
  MaxUsers = 1
  MaxCredential = 1
  MaxAttempts = 12
  MaxClock = 130
INVARIANTS WindowsFitSession LockoutConsistent GuessingTakesTime
PROPERTY EverythingAnswered
\* The program ends in the phase "disposed", and the clock at its bound.
CHECK_DEADLOCK FALSE
