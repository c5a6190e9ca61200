SPECIFICATION FairSpec
CONSTANTS
  Proxies = {p1}
  Tasks = {r1, r2}
  Slot = 1
  Keep = 2
  Durations <- MCDurations
  MaxLatency = 2
  MaxErrorPercent = 10
  Whole = 100
  MinMultiplier = 30
  Forever = 100
  MaxClock = 3
  MaxFaults = 2
  MaxRequests = 2
INVARIANTS
  TypeOK
  OverloadHasCause
  WhitelistedAreForwarded
  RequestsAreChargedOnce
  LoadsCountForwards
PROPERTIES
  EveryRequestIsAnswered
CHECK_DEADLOCK FALSE
