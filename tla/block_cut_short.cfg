SPECIFICATION Spec
CONSTANTS
  Cooldown = 2
  TempBlock = 4
  PermBlock = 20
  TtlSlack = 1
  TriggerViolations <- MCTriggerViolations
  TriggerScore <- MCTriggerScore
  Scores <- MCScores
  Clients = {c1}
  Proxies = {p1}
  Tasks = {r1}
  NoKey = NoKey
  Forever = 100
  MaxClock = 6
  MaxFaults = 0
SYMMETRY Symmetry
PROPERTIES
  BlocksLastUntilDeadline
