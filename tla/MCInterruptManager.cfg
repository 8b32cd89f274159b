\* After a panic the processor is in while (1) with interrupts off.
SPECIFICATION Spec
CONSTANTS
  keyboard = keyboard
  mouse = mouse
  eth0 = eth0
  taskA = taskA
  taskB = taskB
  taskC = taskC
  Tasks <- MCTasks
  TaskLimit = 2
  Drivers <- MCDrivers
  LineOf <- MCLineOf
  Devices <- Wired
  FaultsAt <- Code
  None = None
  Boot = Boot
  Registers = 2
CHECK_DEADLOCK FALSE
INVARIANTS
  TypeOK
  ContextKept
  RunsCurrentTask
  NothingInService
PROPERTIES
  EveryTaskRuns
