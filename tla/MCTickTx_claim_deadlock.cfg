SPECIFICATION Spec
CONSTANTS
  c1 = c1
  c2 = c2
  t1 = t1
  t2 = t2
  t3 = t3
  t4 = t4
  z1 = z1
  NoTask = NoTask
  NoCall = NoCall
  Campaigns = {c1, c2}
  Tasks = {t1, t2, t3, t4}
  CampaignOf <- TwoByTwo
  MaxConcurrency <- TwoSlotsEach
  Zones = {z1}
  ZoneOf <- SameZone
  Calls = {k1}
  Poison = {}
  Schedulers = {s1, s2}
  Hooks = {h1}
  MaxAttempts = 1
  BatchSize = 2
  MaxCrashes = 0
SYMMETRY Interchangeable
INVARIANTS
  SchedulersRunConcurrently
