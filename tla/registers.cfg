SPECIFICATION RegistersSpec
CONSTANTS
  t1 = t1
  t2 = t2
  Threads = {t1, t2}
  Accounts = {"u"}
  Codes = {"A", "a", "b"}
  Canonical <- Lower
  Details = {"x"}
  Days = {0, 1, 2}
  MaxClients = 2
  MaxCommits = 3
  CodeDays = {0}
  CodeCommits = 2
  ContractCodes = {"a"}
  ContractDays = {1, 2}
  ContractClients = 1
  AnyPhones = {"p"}
  AnyThreads = {"t"}
  AnyShipments = {1}
  AnyRequests <- AllRequests
  AnyPage = 1
  AnyEvents = 1
  AnyClock = 1
  ListPhones = {"p", "q"}
  ListShipments = {1, 2}
  ListRequests <- TwoStatuses
  ListPage = 2
  ListEvents = 1
  ListClock = 2
SYMMETRY AnyThread
INVARIANTS RowsLawful RegistersConsistent
PROPERTIES QuietCallsExact OnlyAdmittedCommitLate
