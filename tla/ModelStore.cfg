SPECIFICATION Spec
CONSTANTS
  Names = {plot, image}
  NoName = none
  MaxStreams = 6
  MaxAgain = 1
SYMMETRY NamesSymmetry
CHECK_DEADLOCK FALSE
INVARIANTS
  NamesAgree
  OneParent
