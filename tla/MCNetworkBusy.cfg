SPECIFICATION Spec
CONSTANTS
  NumBuffers = 3
  RowWidth = 2063
  FrameSize = 60
  Nothing <- MCNothing
  Gateway = "gateway"
  OurIP = "us"
  SizeOfCache = 2
  Leftover <- MCLeftover
  Incoming <- BusyIncoming
  MaxArrivals = 3
  Quality <- Any
CHECK_DEADLOCK FALSE
INVARIANTS
  TypeOK
  ReceiveInStep
  SendInStep
  ResolvedIsAnnounced
  
PROPERTIES
  HandlerReturns
