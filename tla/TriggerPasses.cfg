SPECIFICATION Spec
CONSTANTS
  job1 = job1
  hook1 = hook1
  old1 = old1
  made1 = made1
  Definitions = {job1, hook1}
  Configured = {job1, hook1}
  ConfigEnabled <- AllEnabled
  ConfigSchedule <- JobAndHook
  OldRows <- LeftOver
  MaxTime = 3
  MaxExecutions = 2
  Loops = {l1, l2}
  Requests = {r1}
  Window = 1
  NoDefinition = NoDefinition
  ManagedSchedules <- OtherSchedules
  MaxManaged = 0
  MaxMishaps = 1
SYMMETRY LoopSymmetry
INVARIANT TypeOK
INVARIANT NoDueTimeLost
INVARIANT RepeatNeedsOverlap
INVARIANT QueuedIsPushed
INVARIANT AcceptedIsDispatched
CHECK_DEADLOCK FALSE
