SPECIFICATION StartupSpec
CONSTANTS
  Process = {p1, p2, p3}
  Password = {w1, w2}
  NoPassword = NoPassword
  Identifiers <- SomeIdentifiers
  MaxNumber = 5
  MaxRuns = 3
  MaxCrashes = 2
INVARIANTS OneAdministrator ChangedBeforeUse StartupConsistent
PROPERTIES SeenThenGone StartEnds
\* The runs and the crashes of alembic are bounded.
CHECK_DEADLOCK FALSE
