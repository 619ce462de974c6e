SPECIFICATION Spec
CONSTANTS
  Gateways = {g1, g2}
  Executors = {e1, e2}
  Hangs = {}
  NoProcess = NoProcess
  MaxConfigs = 2
  MaxFaults = 0
  Calls = {1, 2}
  Daemons = {d1, d2}
  NoDaemon = NoDaemon
  Commands = {"configure", "restart"}
  MaxCommands = 2
INVARIANT RestartLoadsConfig
CHECK_DEADLOCK FALSE
