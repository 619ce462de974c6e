SPECIFICATION Spec
CONSTANTS
  c1 = c1
  g1 = g1
  Chats = {c1, g1}
  Private = {c1}
  Keys = {"main", "side", "made"}
  Registered = {"main", "side"}
  DefaultKey <- Main
  ChatBindings <- NoChatBindings
  Modes = {"workspace-write", "danger-full-access"}
  DefaultMode <- OnlyWrite
  None = None
  OverrideTtl = 1
  MaxTime = 1
  MaxRuns = 3
  Handlers = {h1, h2}
  Events <- ChatEvents
  AllowedChats = {c1, g1}
  RequireMention = TRUE
  MaxMessages = 3
  MaxMishaps = 1
SYMMETRY HandlerSymmetry
INVARIANT TypeOK
INVARIANT ContinuationFits
INVARIANT BindHolds
INVARIANT OldSessionNeedsActiveRun
PROPERTY BindSparesActiveRun
PROPERTY ModeOnRequest
PROPERTY AheadIsCounted
CHECK_DEADLOCK FALSE
CONSTRAINT OverlapInTime
CONSTRAINT ThirdIsAsked
CONSTRAINT ThirdMeetsOne
CONSTRAINT ReapedInCalm
