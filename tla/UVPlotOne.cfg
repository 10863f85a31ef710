SPECIFICATION FairSpec
CONSTANTS
  NodeCount <- MCNodeCount
  BaselineCount <- MCBaselineCount
  NodesOf <- MCNodesOf
  StreamLen <- LongStreams
  Samples <- LongSamples
  Pixel <- MCPixel
  PlaneSize <- MCPlaneSize
  MaxThreads = 1
  MovingBaseline = TRUE
  Interruptible = TRUE
INVARIANTS
  TypeOK
  GrowingStride
  OneThread
  OwnLocations
  SequentialOrder
PROPERTY Termination
