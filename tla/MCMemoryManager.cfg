SPECIFICATION Spec
CONSTANTS
  StartAddress = 1
  HeapSize = 13
  H = 2
  WordSize = 64
  Requests <- MCRequests
INVARIANTS
  TypeOK
  ListDescribesHeap
  FullyCoalesced
  BlocksIntact
PROPERTIES
  ImplementsAllocator
  MallocReturns
