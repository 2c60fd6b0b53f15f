SPECIFICATION FairSpec
CONSTANTS
  PollLimit = 2
  MayFail = TRUE
  MaxEvents = 3
INVARIANTS TypeOK OneChain PausedOnlyAfterPlaying
PROPERTIES SetPlayingResolves NotLeftPaused
CHECK_DEADLOCK FALSE
