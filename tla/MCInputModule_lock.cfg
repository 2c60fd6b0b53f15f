SPECIFICATION FairSpec
CONSTANTS
  u1 = u1
  h1 = h1
  Uridb <- MCUridb
  Hdmi <- MCHdmi
  InitMayFail <- MCHdmi
  MaxErrors = 1
PROPERTY PadRequestReturns
CHECK_DEADLOCK FALSE
