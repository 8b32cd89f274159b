\* kernel_main ends in while (1).
SPECIFICATION Spec
CONSTANTS
  Places = 24
  Machines <- MCMachines
  Rooms = {0, 1, 9}
  Lines = {10, 11, 255}
  Absent = Absent
  Garbage = Garbage
INVARIANTS
  TypeOK
  PortsAreOwn
  EveryCardDriven
  ThirdIsFirstCard
  HandlersAreActive
CHECK_DEADLOCK FALSE
