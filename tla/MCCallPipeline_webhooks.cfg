SPECIFICATION Spec
CONSTANTS
  c1 = c1
  t1 = t1
  t2 = t2
  z1 = z1
  z2 = z2
  NoTask = NoTask
  NoCall = NoCall
  NoOrder = NoOrder
  Campaigns = {c1}
  Tasks = {t1}
  CampaignOf <- OneCampaign
  MaxConcurrency <- OneSlotEach
  Zones = {z1}
  ZoneOf <- SameZone
  Calls = {k1, k2}
  Poison = {}
  Schedulers = {s1}
  Workers = {w1, w2}
  Hooks = {h1, h2}
  MaxAttempts = 2
  BatchSize = 2
  MaxCrashes = 0
SYMMETRY Symmetric
INVARIANTS
  TypeOK
  AttemptsWithinBudget
  OneOutcomePerCall
  OneOutcomePerTask
  NoOrderLost
PROPERTIES
  StatusMovesAsDeclared
  EndedAttemptIsCounted
  AttemptsAsPromised
