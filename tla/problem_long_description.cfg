SPECIFICATION Spec
CONSTANTS
  w1 = w1
  w2 = w2
  c1 = c1
  Workers = {w1, w2}
  NoWorker = NoWorker
  Clients = {}
  NoClient = NoClient
  Operations = {"create_shipment", "report_problem"}
  Targets = {"SORTING"}
  Texts = {"long"}
  MaxNumber = 1
  MaxVersion = 3
  MaxChecks = 1
  MaxClock = 1
INVARIANT NoRefusedWrite
