SPECIFICATION Spec
CONSTANTS
  w1 = w1
  s1 = s1
  Runs = {1, 2}
  Workspaces = {w1}
  Sessions = {s1}
  WorkspaceOf <- OneWorkspace
  SessionOf <- OneSession
  NoRun = NoRun
  NoWorkspace = NoWorkspace
  Ticks = {t1, t2}
  Sweeps = {}
  MaxAborts = 1
  MaxMishaps = 1
  Hangs = {}
SYMMETRY TickSymmetry
CONSTRAINT NoStaleHeartbeat
INVARIANT TypeOK
INVARIANT OneDelivery
INVARIANT OneTickPerWorkspace
INVARIANT CancelledOnRequest
PROPERTY LifecycleSpec
CHECK_DEADLOCK FALSE
