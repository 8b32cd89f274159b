SPECIFICATION Spec
CONSTANTS
  keyboard = keyboard
  mouse = mouse
  eth0 = eth0
  taskA = taskA
  taskB = taskB
  taskC = taskC
  Tasks <- MCTasks
  TaskLimit = 2
  Drivers <- MCDrivers
  LineOf <- MCLineOf
  Devices <- WithClock
  FaultsAt <- NoFaults
  None = None
  Boot = Boot
  Registers = 2
CHECK_DEADLOCK FALSE
PROPERTIES
  AlwaysReturns
