SPECIFICATION Spec
CONSTANTS
  Cost = 2
  NoBucket = NoBucket
  Proxies = {p1}
  Redis = Redis
  Tasks = {r1, r2}
  Limits <- MCLimits
  MaxRate = 2
  MaxCapacity = 4
  MinRate = 1
  MinCapacity = 2
  Forever = 100
  MaxClock = 3
  MaxFaults = 1
SYMMETRY Symmetry
INVARIANTS
  TypeOK
  AdmissionsBounded
  RefusalsHaveCause
PROPERTIES
  KeepsToPolicer
