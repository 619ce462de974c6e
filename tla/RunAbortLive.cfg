SPECIFICATION FairSpec
CONSTANTS
  w1 = w1
  s1 = s1
  Runs = {1}
  Workspaces = {w1}
  Sessions = {s1}
  WorkspaceOf <- OneWorkspace
  SessionOf <- OneSession
  NoRun = NoRun
  NoWorkspace = NoWorkspace
  Ticks = {t1, t2}
  Sweeps = {}
  MaxAborts = 1
  MaxMishaps = 0
  Hangs = {1}
PROPERTY AbortStopsCodex
CHECK_DEADLOCK FALSE
