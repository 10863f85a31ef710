SPECIFICATION FairSpec
CONSTANTS
  NodeCount <- MCNodeCount
  BaselineCount <- MCBaselineCount
  NodesOf <- MCNodesOf
  StreamLen <- ShortStreams
  Samples <- ShortSamples
  Pixel <- MCPixel
  PlaneSize <- MCPlaneSize
  MaxThreads = 2
  MovingBaseline = TRUE
  Interruptible = FALSE
INVARIANTS
  NoLostTerm
  StoredIsFinal
  NotStranded
PROPERTIES
  Termination
  ImplementsService
