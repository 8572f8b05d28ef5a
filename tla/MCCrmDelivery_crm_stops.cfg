SPECIFICATION FairSpec
CONSTANTS
  Outcomes = {o1}
  Malformed = {}
  CrmWorkers = {w1}
  MaxReceives = 2
  BatchMax = 2
  NoReceipt = NoReceipt
  MaxCrashes = 0
PROPERTIES
  RetriesEnd
CHECK_DEADLOCK FALSE
