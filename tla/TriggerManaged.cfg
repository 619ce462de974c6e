SPECIFICATION Spec
CONSTANTS
  job1 = job1
  hook1 = hook1
  old1 = old1
  made1 = made1
  Definitions = {job1, old1, made1}
  Configured = {job1}
  ConfigEnabled <- AllEnabled
  ConfigSchedule <- JobAndHook
  OldRows <- LeftOver
  MaxTime = 1
  MaxExecutions = 1
  Loops = {l1}
  Requests = {r1}
  Window = 0
  NoDefinition = NoDefinition
  ManagedSchedules <- OtherSchedules
  MaxManaged = 2
  MaxMishaps = 0
INVARIANT NoDueTimeLost
PROPERTY DisableHolds
CHECK_DEADLOCK FALSE
