SPECIFICATION FairSpec
CONSTANTS
  u1 = u1
  h1 = h1
  Uridb <- MCUridb
  Hdmi <- MCHdmi
  InitMayFail <- MCNone
  MaxErrors = 1
PROPERTY BackToMain
CHECK_DEADLOCK FALSE
