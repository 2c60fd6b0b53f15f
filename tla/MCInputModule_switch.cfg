SPECIFICATION FairSpec
CONSTANTS
  u1 = u1
  h1 = h1
  Uridb <- MCUridb
  Hdmi <- MCHdmi
  InitMayFail <- MCHdmi
  MaxErrors = 4
INVARIANTS TypeOK MainShownIsLinked FallbackWhileInvalid MainUntilError
PROPERTIES FailedIsRestarted InvalidIsTemporary
CHECK_DEADLOCK FALSE
