SPECIFICATION FairSpec
CONSTANTS
  Proxies = {p1, p2}
  Tasks = {r1, r2}
  Scripts = {bucket, window}
  MaxFaults = 3
INVARIANTS
  TypeOK
PROPERTIES
  RaisesHaveCause
  CallsKeepPromise
  EveryCallEnds
