SPECIFICATION FairSpec
CONSTANTS
  Gateways = {g1, g2}
  Executors = {e1, e2}
  Hangs = {e1}
  NoProcess = NoProcess
  MaxConfigs = 2
  MaxFaults = 1
  Calls = {1, 2}
  Daemons = {d1, d2, d3}
  NoDaemon = NoDaemon
  Commands <- AllCommands
  MaxCommands = 2
INVARIANT StrayNeedsOverlap
INVARIANT ReadyIsServing
INVARIANT RestartHeals
PROPERTY StopEnds
CHECK_DEADLOCK FALSE
CONSTRAINT OverlapOfOne
