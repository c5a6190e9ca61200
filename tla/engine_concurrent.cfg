SPECIFICATION Spec
CONSTANTS
  Cooldown = 2
  TempBlock = 1
  PermBlock = 20
  TtlSlack = 1
  TriggerViolations <- MCTriggerViolations
  TriggerScore <- MCTriggerScore
  Scores <- MCScores
  Clients = {c1}
  Proxies = {p1}
  Tasks = {r1, r2}
  NoKey = NoKey
  Forever = 100
  MaxClock = 4
  MaxFaults = 0
SYMMETRY Symmetry
INVARIANTS
  LevelsCoverViolations
  DeadlinesMatchLevels
  ViolationsStopAtTempBlock
PROPERTIES
  OnlyStaleTasksLiftBlocks
