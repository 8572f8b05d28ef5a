SPECIFICATION Spec
CONSTANTS
  c1 = c1
  t1 = t1
  t2 = t2
  z1 = z1
  z2 = z2
  NoTask = NoTask
  NoCall = NoCall
  NoOrder = NoOrder
  Campaigns = {c1}
  Tasks = {t1, t2}
  CampaignOf <- OneCampaign
  MaxConcurrency <- OneSlotEach
  Zones = {z1}
  ZoneOf <- SameZone
  Calls = {k1}
  Poison = {}
  Schedulers = {s1}
  Workers = {w1}
  Hooks = {h1}
  MaxAttempts = 2
  BatchSize = 2
  MaxCrashes = 0
INVARIANTS
  CapHolds
