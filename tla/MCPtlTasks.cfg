SPECIFICATION PtlSpec
CONSTANTS
  t1 = t1
  t2 = t2
  r1 = r1
  r2 = r2
  s1 = s1
  s2 = s2
  g1 = g1
  u1 = u1
  u2 = u2
  Task = {t1, t2}
  Spot = {s1, s2}
  Stocked = {r1, r2}
  SpotOf <- TwoSpots
  GoodOf <- OneGood
  Asked <- Overlapping
  Hand = {h1}
  NoTask = NoTask
  NoStock = NoStock
INVARIANTS
  OneTaskPerLocation
  CompletedInFull
PROPERTIES
  ConfirmedStays
CHECK_DEADLOCK FALSE
