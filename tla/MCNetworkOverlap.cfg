SPECIFICATION Spec
CONSTANTS
  NumBuffers = 3
  RowWidth = 8
  FrameSize = 60
  Nothing <- MCNothing
  Gateway = "gateway"
  OurIP = "us"
  SizeOfCache = 2
  Leftover <- MCLeftover
  Incoming <- Asking
  MaxArrivals = 2
  Quality <- Whole
CHECK_DEADLOCK FALSE
INVARIANTS
  FramesStayIntact
