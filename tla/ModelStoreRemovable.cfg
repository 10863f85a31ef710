SPECIFICATION Spec
CONSTANTS
  Names = {plot, image, filter}
  NoName = none
  MaxStreams = 6
  MaxAgain = 1
SYMMETRY NamesSymmetry
CHECK_DEADLOCK FALSE
INVARIANT
  Removable
