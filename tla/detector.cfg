SPECIFICATION Spec
CONSTANTS
  Proxies = {p1}
  Tasks = {r1, r2}
  Interval = 1
  BaselineTtl = 4
  One = 10
  PerTick = 10
  Burst = 100
  MinVariance = 10
  AlphaNum = 9
  AlphaDen = 10
  Threshold = 3
  NoBaseline = NoBaseline
  Forever = 100
  MaxClock = 4
  MaxRequests = 4
  MaxFaults = 1
SYMMETRY Symmetry
INVARIANTS
  TypeOK
  CountersExpire
  BaselinesExpire
  AnomaliesHaveCause
CHECK_DEADLOCK FALSE
