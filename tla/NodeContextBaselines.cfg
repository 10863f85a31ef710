SPECIFICATION Spec
CONSTANTS
  Names = {a, b, c, d}
  Orders = {1, 2, 3}
  MaxNodes = 5
  MaxLocks = 1
SYMMETRY NamesSymmetry
INVARIANTS
  TypeOK
  AllPairs
  NoDeletedNode
  NoOverrun
  OrdersAgree
  RelativeKept
  LookupFindsPair
