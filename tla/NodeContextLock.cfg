SPECIFICATION Spec
CONSTANTS
  Names = {a, b, c}
  Orders = {2}
  MaxNodes = 3
  MaxLocks = 1
SYMMETRY NamesSymmetry
INVARIANTS
  LockKept
