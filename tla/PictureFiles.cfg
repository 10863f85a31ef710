SPECIFICATION Spec
CONSTANTS
  AllSizes <- MCSizes
  MaxColours = 3
  MaxShifted = 1
  Unset = unset
INVARIANTS
  OwnStream
  InHand
  ShiftedBack
  DrawnFromOwn
