SPECIFICATION Spec
CONSTANTS
  NodeCount <- FourNodes
  BaselineCount <- SixBaselines
  NodesOf <- MCNodesOfFour
  StreamLen <- FourStreams
  Samples <- SixSamples
  Pixel <- MCPixel
  PlaneSize <- MCPlaneSize
  MaxThreads = 2
  MovingBaseline = FALSE
  Interruptible = FALSE
INVARIANT ThreadLimit
