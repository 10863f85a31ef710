SPECIFICATION FairSpec
CONSTANTS
  Len = 7
  Threads = 3
  Value <- MCValue
  Zero = 0
  Zeroed = TRUE
  SameStream = TRUE
  Other <- MCOther
  Inputs <- MCInputs
  Made <- MCMade
INVARIANTS
  NoSharedElement
  AllAtOnce
PROPERTY
  Returns
