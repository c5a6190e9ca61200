SPECIFICATION Spec
CONSTANTS
  Proxies = {p1}
  Tasks = {r1}
  Interval = 1
  BaselineTtl = 4
  One = 10
  PerTick = 10
  Burst = 100
  MinVariance = 10
  AlphaNum = 9
  AlphaDen = 10
  Threshold = 3
  NoBaseline = NoBaseline
  Forever = 100
  MaxClock = 4
  MaxRequests = 2
  MaxFaults = 0
PROPERTIES
  ActiveBaselinesKept
CHECK_DEADLOCK FALSE
