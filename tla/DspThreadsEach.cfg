SPECIFICATION Spec
CONSTANTS
  Len = 7
  Threads = 2
  Value <- MCValue
  Zero = 0
  Zeroed = FALSE
  SameStream = FALSE
  Other <- MCOther
  Inputs <- MCInputs
  Made <- MCMask
INVARIANT
  EachElement
