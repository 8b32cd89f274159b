SPECIFICATION Spec
CONSTANTS
  NumBuffers = 8
  RowWidth = 8
  FrameSize = 60
  Nothing <- MCNothing
  Gateway = "gateway"
  OurIP = "us"
  SizeOfCache = 3
  Leftover <- MCLeftover
  Incoming <- Nobody
  MaxArrivals = 0
  Quality <- Whole
CHECK_DEADLOCK FALSE
PROPERTIES
  ResolveReturns
