SPECIFICATION Spec
CONSTANTS
  None = None
  NumPads = 2
  OutWidth = 3
  Scenes <- MCScenes
  DmabufPads = {1}
  OutIsDmabuf = FALSE
  MaxFrames = 2
  MaxNegotiations = 2
  MaxChanges = 1
  MaxFaults = 1
INVARIANTS
  TopmostShown
  CrashesOnlyAfterFailure
  SlotsHoldTheirFrames
  JobsEndBeforeCopy
  FrameResourcesReleased
  ContextsHold
  BackgroundIsCurrent
  FinalizedReleases
CHECK_DEADLOCK FALSE
