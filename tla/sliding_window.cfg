SPECIFICATION Spec
CONSTANTS
  Window = 2
  Proxies = {p1}
  Redis = Redis
  Tasks = {r1, r2}
  Limits <- MCLimits
  MaxLimit = 4
  Forever = 100
  MaxClock = 5
  MaxDelay = 2
  MaxFaults = 1
SYMMETRY Symmetry
INVARIANTS
  TypeOK
  WindowsWithinLimit
  SpansWithinTwiceLimit
  RefusalsLeaveNoTrace
  EstimatesAreFaithful
