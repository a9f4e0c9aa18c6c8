SPECIFICATION Spec
CONSTANTS
  w1 = w1
  w2 = w2
  Workers = {w1, w2}
  NoWorker = NoWorker
  Clients = {}
  NoClient = NoClient
  Operations = {"create_shipment", "update_shipment", "change_status", "archive_shipment", "restore_shipment", "report_problem", "resolve_problem"}
  Targets = {"SORTING", "DISPATCHED"}
  Texts = {"none", "short"}
  MaxNumber = 1
  MaxVersion = 4
  MaxChecks = 1
  MaxClock = 2
INVARIANTS TypeOK HistoryIsChain ProblemMatchesStatus StampsMatchHistory AuditComplete NoRefusedWrite
PROPERTIES NoStaleOverwrite ArchivedFrozen LedgerSpec
SYMMETRY AnyWorker
