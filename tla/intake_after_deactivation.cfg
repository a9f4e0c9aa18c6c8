SPECIFICATION Spec
CONSTANTS
  w1 = w1
  w2 = w2
  c1 = c1
  Workers = {w1, w2}
  NoWorker = NoWorker
  Clients = {c1}
  NoClient = NoClient
  Operations = {"create_shipment"}
  Targets = {"SORTING"}
  Texts = {"short"}
  MaxNumber = 1
  MaxVersion = 3
  MaxChecks = 1
  MaxClock = 1
PROPERTY ClientActiveAtIntake
