------------------------------- MODULE MCUVPlot -------------------------------
(* Three nodes, the three baselines BaselineCollection::update makes of them *)
(* and a geometry in which baselines share pixels, stay in one for some      *)
(* samples and leave the plane.                                              *)
EXTENDS UVPlot

MCNodeCount     == 3
MCBaselineCount == 3
MCNodesOf       == [b \in 0 .. 2 |-> {b, (b + 1) % 3}]
MCPlaneSize     == 3

\* The pixel drifts with the location of the baseline's first node and leaves
\* the plane (3 is outside) for one of the baselines.
MCPixel(b, time, loc) == (b + (loc[b % NodeCount] + time + 3) \div 2) % 4

\* A node with a shorter stream, and enough samples to skip some.
LongStreams == [n \in 0 .. 2 |-> IF n = 2 THEN 2 ELSE 5]
LongSamples == [b \in 0 .. 2 |-> IF b = 1 THEN 2 ELSE 5]

ShortStreams == [n \in 0 .. 2 |-> 2]
ShortSamples == [b \in 0 .. 2 |-> IF b = 0 THEN 2 ELSE 1]

\* Four nodes make six baselines.
FourNodes     == 4
SixBaselines  == 6
MCNodesOfFour ==
  [b \in 0 .. 5 |-> {b % 4, (b + b \div 4 + 1) % 4}]
FourStreams   == [n \in 0 .. 3 |-> 1]
SixSamples    == [b \in 0 .. 5 |-> 1]
===============================================================================
