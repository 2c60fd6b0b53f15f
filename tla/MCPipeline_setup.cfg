SPECIFICATION Spec
CONSTANTS
  Config <- MCConfig
  MayLack <- MCMayLack
  MaxLacking = 2
  MaxRefused = 2
INVARIANTS RegionShowsItsInput SelectorHasStream LeftoversExplained CrashesOnlyIf
CHECK_DEADLOCK FALSE
