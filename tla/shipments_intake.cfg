SPECIFICATION FairSpec
CONSTANTS
  w1 = w1
  w2 = w2
  c1 = c1
  Workers = {w1, w2}
  NoWorker = NoWorker
  Clients = {c1}
  NoClient = NoClient
  Operations = {"create_shipment", "record_control_weight", "archive_shipment"}
  Targets = {"SORTING"}
  Texts = {"short"}
  MaxNumber = 2
  MaxVersion = 2
  MaxChecks = 1
  MaxClock = 1
INVARIANT NumbersInOrder
PROPERTIES CallsReturn LedgerSpec
