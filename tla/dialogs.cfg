SPECIFICATION DialogsSpec
CONSTANTS
  CanOverride = TRUE
  MaxVersion = 6
  Precision = 4
  Texts <- SomeTexts
  MAX_MONEY_FEN = 999
  MAX_STORED_MEASUREMENT = 999
  NotANumber = NotANumber
  Empty = Empty
  Error = Error
INVARIANTS OfferedIsAllowed DialogsConsistent
PROPERTIES AppliedAsShown UntouchedIsUnchanged
\* A shipment stops at its last version.
CHECK_DEADLOCK FALSE
