\* A volume and a node, sweeps, samples, failures and restarts
SPECIFICATION FairSpec
CONSTANTS
  PV = {"v1"}
  Nodes = 1
  NoNode = NoNode
  NoMap = NoMap
  NotRead = NotRead
  Failed = Failed
  NoSample = NoSample
  maxConcurrentSamples = 1
  notifiedLimit = 0
INVARIANTS TypeOK NotEndedWhileFull OpenIsWatched
PROPERTIES FullIsTold
