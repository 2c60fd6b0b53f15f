SPECIFICATION Spec
CONSTANTS
  NoInfo = NoInfo
  Absent = Absent
  PadIds = {p1, p2}
  Infos <- MCInfos
  Positions <- MCPositions
  Widths <- MCWidths
  Heights <- MCHeights
  OutSizes <- MCOutSizes
  OutPars <- MCOutPars
  MaxChanges = 4
INVARIANTS
  TypeOK
  ClampIsIntersection
  SizeHonoursPolicy
  FixatedHoldsPads
  ObscuringIsDrawn
  PointerInFrame
SYMMETRY MCSymmetry
CHECK_DEADLOCK FALSE
