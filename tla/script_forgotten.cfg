SPECIFICATION Spec
CONSTANTS
  Proxies = {p1}
  Tasks = {r1}
  Scripts = {bucket}
  MaxFaults = 1
INVARIANTS
  EvictedScriptsAreReloaded
