SPECIFICATION FairSpec
CONSTANTS
  Outcomes = {o1}
  Malformed = {x1}
  CrmWorkers = {w1, w2}
  MaxReceives = 2
  BatchMax = 2
  NoReceipt = NoReceipt
  MaxCrashes = 1
INVARIANTS
  CrmTypeOK
  LogIsTruthful
  EveryReceiveIsAnAttempt
PROPERTIES
  DeliversAsPromised
  DeliverySettles
CHECK_DEADLOCK FALSE
