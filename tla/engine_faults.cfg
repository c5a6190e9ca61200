SPECIFICATION FairSpec
CONSTANTS
  Cooldown = 2
  TempBlock = 1
  PermBlock = 20
  TtlSlack = 1
  TriggerViolations <- MCTriggerViolations
  TriggerScore <- MCTriggerScore
  Scores <- MCScores
  Clients = {c1}
  Proxies = {p1}
  Tasks = {r1}
  NoKey = NoKey
  Forever = 100
  MaxClock = 6
  MaxFaults = 1
INVARIANTS
  TypeOK
  LevelsCoverViolations
  DeadlinesMatchLevels
  ViolationsStopAtTempBlock
PROPERTIES
  RefusalsKeepTheTerm
  OnlyStaleTasksLiftBlocks
  EveryRequestIsDecided
  KeepsStandings
  BlocksHoldTheirTerm
