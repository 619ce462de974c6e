SPECIFICATION Spec
CONSTANTS
  w1 = w1
  s1 = s1
  Runs = {1, 2}
  Workspaces = {w1}
  Sessions = {s1}
  WorkspaceOf <- OneWorkspace
  SessionOf <- OneSession
  NoRun = NoRun
  NoWorkspace = NoWorkspace
  Ticks = {t1, t2}
  Sweeps = {k1}
  MaxAborts = 0
  MaxMishaps = 0
  Hangs = {}
SYMMETRY TickSymmetry
CONSTRAINT NoLockLapse
INVARIANT NoStrandedRun
INVARIANT NoLeftovers
PROPERTY LifecycleSpec
CHECK_DEADLOCK FALSE
