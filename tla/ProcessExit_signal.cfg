SPECIFICATION Spec
CONSTANTS
  Hosts = {"manager", "matrix", "distributor"}
  MaxSignals = 2
INVARIANTS
  OnlyInputUsesReleased
  TerminatesOnlyIf
  LeftBehind
  NeverMisrouted
PROPERTY
  SignalEnds
CHECK_DEADLOCK FALSE
