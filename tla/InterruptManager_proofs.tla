----------------------- MODULE InterruptManager_proofs -----------------------
(****************************************************************************)
(* Proofs about InterruptManager, for any tasks, drivers, devices and       *)
(* exceptions: contexts survive interrupts and task switches, and no line   *)
(* stays in service.                                                        *)
(****************************************************************************)
EXTENDS InterruptManager, TLAPS

\* What the interrupt descriptor table and the stubs pass through.
Before == {"dispatch", "schedule"}         \* Schedule has not chosen yet
After == {"master", "slave", "return"}     \* it has, or was not asked
Stopped == {"panic", "refault"}
Frames == [stack : Stacks, regs : Nat]

\* The stack whose code goes on when the interrupt, if there is one, is over.
Owner == IF cpu.pc \in After THEN cpu.frame.stack ELSE running

\* The frame a stack resumes with if nothing is lost.
FrameOf(s) == [stack |-> s, regs |-> progress[s]]

\* The lines a line puts in service.
Service(l) == IF l \in Slave THEN {l, Cascade} ELSE {l}

----------------------------------------------------------------------------
\* The inductive invariant.

Typed ==
  /\ tasks \in Seq(Tasks) /\ Len(tasks) <= TaskLimit
  /\ currentTask \in -1 .. (Len(tasks) - 1)
  /\ cpuState \in [Tasks -> [stack : Tasks, regs : Nat]]
  /\ handlers \in [Lines -> Drivers \cup {None}]
  /\ irr \subseteq Lines /\ isr \subseteq Lines
  /\ cpu \in [pc : {"boot", "run"} \cup Before \cup After \cup Stopped,
              line : Lines, frame : Frames]
  /\ running \in Stacks /\ regs \in Nat
  /\ progress \in [Stacks -> Nat]

\* The processor belongs to the current task, to boot while there is none.
OwnerIsCurrent ==
  cpu.pc \notin Stopped =>
    Owner = IF currentTask >= 0 THEN TaskAt(currentTask) ELSE Boot

\* Its registers are in the processor, or in the frame of the interrupt.
OwnerIsSafe ==
  /\ cpu.pc \in {"boot", "run"} => regs = progress[running]
  /\ cpu.pc \in Before \cup After => cpu.frame = FrameOf(Owner)

\* Everybody else's are in cpuState.
OthersAreSafe ==
  cpu.pc \notin Stopped => \A t \in Tasks : t # Owner => cpuState[t] = FrameOf(t)

\* Which lines are in service at each point of the handler.
ServiceFollows ==
  /\ cpu.pc \in {"boot", "run", "return"} => isr = {}
  /\ cpu.pc \in Before \cup {"master"} => isr = Service(cpu.line)
  /\ cpu.pc = "slave" => isr = Service(cpu.line) \cap Slave

IInv == Typed /\ OwnerIsCurrent /\ OwnerIsSafe /\ OthersAreSafe /\ ServiceFollows

----------------------------------------------------------------------------
\* The controllers: the end of an interrupt ends that interrupt.

LEMMA RankIsInt == ASSUME NEW l \in Lines PROVE Rank(l) \in Int
BY DEF Rank, Lines, Cascade, Slave

LEMMA OneEnds ==
  ASSUME NEW chip, NEW l \in Lines, isr \cap chip = {l}
  PROVE  Ended(chip) = {l}
<1>1. Rank(l) <= Rank(l)
  BY RankIsInt
<1> QED
  BY <1>1 DEF Ended

LEMMA MasterEnds ==
  ASSUME NEW l \in Lines, isr = Service(l)
  PROVE  isr \ Ended(Master) = Service(l) \cap Slave
<1>1. CASE l \in Slave
  <2>1. isr \cap Master = {Cascade} /\ Cascade \in Lines
    BY <1>1 DEF Service, Slave, Master, Cascade, Lines
  <2>2. Ended(Master) = {Cascade}
    BY <2>1, OneEnds
  <2>3. Cascade \notin Slave /\ Service(l) = {l, Cascade}
    BY <1>1 DEF Service, Slave, Cascade
  <2> QED
    BY <1>1, <2>2, <2>3, Zenon
<1>2. CASE l \notin Slave
  <2>0. l \in Master /\ isr = {l}
    BY <1>2 DEF Service, Slave, Master, Lines
  <2>1. isr \cap Master = {l}
    BY <2>0
  <2>2. Ended(Master) = {l}
    BY <2>1, OneEnds
  <2> QED
    BY <1>2, <2>2 DEF Service
<1> QED
  BY <1>1, <1>2

LEMMA SlaveEnds ==
  ASSUME NEW l \in Lines, isr = Service(l) \cap Slave
  PROVE  (IF l >= 8 THEN isr \ Ended(Slave) ELSE isr) = {}
<1>1. CASE l \in Slave
  <2>1. isr = {l} /\ isr \cap Slave = {l} /\ l >= 8
    BY <1>1 DEF Service, Slave, Cascade
  <2>2. Ended(Slave) = {l}
    BY <2>1, OneEnds
  <2> QED
    BY <2>1, <2>2
<1>2. CASE l \notin Slave
  BY <1>2 DEF Service, Slave, Lines
<1> QED
  BY <1>1, <1>2

----------------------------------------------------------------------------
\* Schedule.

LEMMA NextIndexInTable ==
  ASSUME Typed, numTasks > 0
  PROVE  NextIndex \in 0 .. (numTasks - 1)
BY DEF Typed, NextIndex, numTasks

LEMMA TaskAtIsTask ==
  ASSUME Typed, NEW i \in 0 .. (numTasks - 1)
  PROVE  TaskAt(i) \in Tasks
BY DEF Typed, TaskAt, numTasks

\* Whoever was running is saved, so that everybody is.
LEMMA AllSaved ==
  ASSUME IInv, cpu.pc = "schedule"
  PROVE  /\ Saved(cpu.frame) \in [Tasks -> [stack : Tasks, regs : Nat]]
         /\ \A t \in Tasks : Saved(cpu.frame)[t] = FrameOf(t)
<1>0. Typed /\ cpu.pc \notin Stopped /\ cpu.pc \in Before /\ cpu.pc \notin After
  BY DEF IInv, Stopped, Before, After
<1>1. Owner = running /\ cpu.frame = FrameOf(running)
  BY <1>0 DEF IInv, OwnerIsSafe, Owner
<1>2. running = IF currentTask >= 0 THEN TaskAt(currentTask) ELSE Boot
  BY <1>0, <1>1 DEF IInv, OwnerIsCurrent
<1>3. \A t \in Tasks : t # running => cpuState[t] = FrameOf(t)
  BY <1>0, <1>1 DEF IInv, OthersAreSafe
<1>4. \A t \in Tasks : FrameOf(t) \in [stack : Tasks, regs : Nat]
  BY <1>0 DEF Typed, FrameOf, Stacks
<1>5. CASE currentTask >= 0
  <2>1. running \in Tasks /\ Saved(cpu.frame) = [cpuState EXCEPT ![running] = FrameOf(running)]
    BY <1>0, <1>1, <1>2, <1>5, TaskAtIsTask DEF Saved, Typed, numTasks
  <2> QED
    BY <1>0, <1>3, <1>4, <2>1 DEF Typed
<1>6. CASE ~(currentTask >= 0)
  <2>1. \A t \in Tasks : t # running
    BY <1>2, <1>6, MachineAssumption
  <2> QED
    BY <1>0, <1>3, <1>6, <2>1 DEF Typed, Saved
<1> QED
  BY <1>5, <1>6

----------------------------------------------------------------------------
\* One lemma for each kind of step.

LEMMA InitIInv == Init => IInv
<1> SUFFICES ASSUME Init PROVE IInv
  OBVIOUS
<1>1. /\ tasks = <<>> /\ currentTask = -1
      /\ cpuState = [t \in Tasks |-> FreshFrame(t)]
      /\ cpu = [pc |-> "boot", line |-> Timer, frame |-> NoFrame]
      /\ running = Boot /\ regs = 0 /\ isr = {} /\ irr = {}
      /\ progress = [t \in Stacks |-> 0] /\ handlers = [l \in Lines |-> None]
  BY DEF Init, InitTasks
<1>2. Typed
  BY <1>1, MachineAssumption
  DEF Typed, Stacks, Frames, NoFrame, FreshFrame, Lines, Timer, Before, After, Stopped
<1>3. Owner = Boot /\ Boot \in Stacks /\ Tasks \subseteq Stacks
  BY <1>1 DEF Owner, After, Stacks
<1>4. OwnerIsCurrent /\ OwnerIsSafe /\ ServiceFollows
  BY <1>1, <1>3 DEF OwnerIsCurrent, OwnerIsSafe, ServiceFollows, Before, After
<1>5. OthersAreSafe
  BY <1>1, <1>3 DEF OthersAreSafe, FreshFrame, FrameOf
<1> QED
  BY <1>2, <1>4, <1>5 DEF IInv

\* Steps that only look on: what the invariant relates stays as it is.
LEMMA Unrelated ==
  ASSUME IInv, Typed',
         UNCHANGED <<currentTask, cpuState, isr, cpu, running, regs, progress>>,
         currentTask >= 0 => TaskAt(currentTask)' = TaskAt(currentTask)
  PROVE  IInv'
<1>1. OwnerIsCurrent'
  BY DEF IInv, OwnerIsCurrent, Owner
<1>2. OwnerIsSafe' /\ OthersAreSafe'
  BY DEF IInv, OwnerIsSafe, OthersAreSafe, Owner, FrameOf
<1>3. ServiceFollows'
  BY DEF IInv, ServiceFollows
<1> QED
  BY <1>1, <1>2, <1>3 DEF IInv

LEMMA RegisterHandlerStep ==
  ASSUME IInv, NEW d \in Drivers, RegisterHandler(d) PROVE IInv'
<1>1. Typed'
  BY DEF RegisterHandler, taskVars, IInv, Typed
<1> QED
  BY <1>1, Unrelated DEF RegisterHandler, taskVars, TaskAt

LEMMA AddTaskStep ==
  ASSUME IInv, NEW t \in Tasks, AddTaskAtBoot(t) PROVE IInv'
<1>0. /\ tasks \in Seq(Tasks) /\ Len(tasks) \in Nat /\ Len(tasks) < TaskLimit
      /\ tasks' = Append(tasks, t)
      /\ UNCHANGED <<currentTask, cpuState, handlers, irr, isr, cpu, running, regs, progress>>
  BY DEF AddTaskAtBoot, AddTask, machineVars, IInv, Typed, numTasks
<1>1. tasks' \in Seq(Tasks) /\ Len(tasks') = Len(tasks) + 1
  BY <1>0
<1>2. Typed'
  BY <1>0, <1>1, MachineAssumption DEF IInv, Typed
<1>3. currentTask >= 0 => TaskAt(currentTask)' = TaskAt(currentTask)
  BY <1>0 DEF IInv, Typed, TaskAt
<1> QED
  BY <1>0, <1>2, <1>3, Unrelated

LEMMA RaiseLineStep ==
  ASSUME IInv, NEW l \in Devices, RaiseLine(l) PROVE IInv'
<1>1. Typed'
  BY MachineAssumption DEF RaiseLine, taskVars, IInv, Typed, Lines
<1> QED
  BY <1>1, Unrelated DEF RaiseLine, taskVars, TaskAt

LEMMA ActivateStep == ASSUME IInv, Activate PROVE IInv'
<1>0. /\ cpu.pc = "boot" /\ cpu' = [cpu EXCEPT !.pc = "run"] /\ Typed
      /\ UNCHANGED <<tasks, currentTask, cpuState, handlers, irr, isr, running, regs, progress>>
  BY DEF Activate, taskVars, IInv
<1>1. Typed' /\ cpu'.pc = "run"
  BY <1>0 DEF Typed
<1>2. Owner = running /\ Owner' = running'
  BY <1>0, <1>1 DEF Owner, After
<1>3. OwnerIsCurrent' /\ OwnerIsSafe' /\ OthersAreSafe'
  BY <1>0, <1>1, <1>2
  DEF IInv, OwnerIsCurrent, OwnerIsSafe, OthersAreSafe, FrameOf, TaskAt, Before, After, Stopped
<1>4. ServiceFollows'
  BY <1>0, <1>1 DEF IInv, ServiceFollows, Before
<1> QED
  BY <1>1, <1>3, <1>4 DEF IInv

\* Code that runs changes its own registers and nobody else's.
LEMMA ExecuteStep == ASSUME IInv, Execute PROVE IInv'
<1>0. /\ cpu.pc = "run" /\ Typed
      /\ regs' = (regs + 1) % Registers
      /\ progress' = [progress EXCEPT ![running] = (progress[running] + 1) % Registers]
      /\ UNCHANGED <<tasks, currentTask, cpuState, handlers, irr, isr, cpu, running>>
  BY DEF Execute, taskVars, IInv
<1>1. regs = progress[running] /\ regs \in Nat /\ running \in Stacks
  BY <1>0 DEF IInv, OwnerIsSafe, Typed
<1>2. (regs + 1) % Registers \in Nat
  BY <1>1, MachineAssumption
<1>3. /\ progress' \in [Stacks -> Nat] /\ regs' = progress'[running]
      /\ \A s \in Stacks : s # running => progress'[s] = progress[s]
  BY <1>0, <1>1, <1>2 DEF Typed
<1>4. Typed'
  BY <1>0, <1>2, <1>3 DEF Typed
<1>5. Owner = running /\ Owner' = running /\ Tasks \subseteq Stacks
  BY <1>0 DEF Owner, After, Stacks
<1>6. OwnerIsCurrent' /\ ServiceFollows'
  BY <1>0, <1>5 DEF IInv, OwnerIsCurrent, ServiceFollows, TaskAt
<1>7. OwnerIsSafe'
  BY <1>0, <1>3 DEF OwnerIsSafe, Before, After
<1>8. OthersAreSafe'
  BY <1>0, <1>3, <1>5 DEF IInv, OthersAreSafe, FrameOf, Stopped
<1> QED
  BY <1>4, <1>6, <1>7, <1>8 DEF IInv

\* The stub saves exactly the registers of the stack that owns the processor.
LEMMA TakeInterruptStep == ASSUME IInv, TakeInterrupt PROVE IInv'
<1> PICK l \in irr :
      /\ cpu.pc = "run"
      /\ irr' = irr \ {l}
      /\ isr' = isr \cup (IF l \in Slave THEN {l, Cascade} ELSE {l})
      /\ cpu' = [pc |-> "dispatch", line |-> l,
                 frame |-> [stack |-> running, regs |-> regs]]
      /\ UNCHANGED <<tasks, currentTask, cpuState, handlers, running, regs, progress>>
  BY DEF TakeInterrupt, taskVars
<1>1. Typed /\ l \in Lines /\ isr = {} /\ regs = progress[running]
  BY DEF IInv, Typed, ServiceFollows, OwnerIsSafe
<1>2. isr' = Service(l) /\ isr' \subseteq Lines
  BY <1>1 DEF Service, Cascade, Lines
<1>3. Typed' /\ cpu'.pc = "dispatch" /\ cpu'.line = l
  BY <1>1, <1>2 DEF Typed, Frames, Before
<1>4. Owner = running /\ Owner' = running'
  BY <1>3 DEF Owner, After
<1>5. OwnerIsCurrent' /\ OthersAreSafe'
  BY <1>3, <1>4 DEF IInv, OwnerIsCurrent, OthersAreSafe, FrameOf, TaskAt, Stopped
<1>6. OwnerIsSafe'
  BY <1>1, <1>3, <1>4 DEF OwnerIsSafe, FrameOf
<1>7. ServiceFollows'
  BY <1>2, <1>3 DEF ServiceFollows, Before
<1> QED
  BY <1>3, <1>5, <1>6, <1>7 DEF IInv

\* Where the processor stops nothing is claimed any more.
LEMMA StopStep ==
  ASSUME IInv, NEW pc \in Stopped, cpu' = [cpu EXCEPT !.pc = pc],
         UNCHANGED <<tasks, currentTask, cpuState, handlers, irr, isr, running, regs, progress>>
  PROVE  IInv'
<1>1. Typed' /\ cpu'.pc \in Stopped
  BY DEF IInv, Typed
<1> QED
  BY <1>1 DEF IInv, OwnerIsCurrent, OwnerIsSafe, OthersAreSafe, ServiceFollows,
              Before, After, Stopped

LEMMA FaultStep == ASSUME IInv, FaultAtBoot \/ Fault \/ Panic PROVE IInv'
<1>1. "refault" \in Stopped /\ "panic" \in Stopped
  BY DEF Stopped
<1> QED
  BY <1>1, StopStep DEF FaultAtBoot, Fault, Panic, taskVars

\* Before the end of interrupt no line has left service.
LEMMA CallHandlerStep == ASSUME IInv, CallHandler PROVE IInv'
<1> DEFINE pc == IF cpu.line = Timer THEN "schedule" ELSE "master"
<1>0. /\ cpu.pc = "dispatch" /\ cpu' = [cpu EXCEPT !.pc = pc] /\ Typed
      /\ pc \in {"schedule", "master"}
      /\ UNCHANGED <<tasks, currentTask, cpuState, handlers, irr, isr, running, regs, progress>>
  BY DEF CallHandler, taskVars, IInv
<1> HIDE DEF pc
<1>1. /\ Typed' /\ cpu'.pc \in {"schedule", "master"}
      /\ cpu'.line = cpu.line /\ cpu'.frame = cpu.frame
  BY <1>0 DEF Typed, Before, After
<1>2. Owner = running /\ cpu.frame = FrameOf(running)
  BY <1>0 DEF IInv, OwnerIsSafe, Owner, Before, After
<1>3. Owner' = running'
  BY <1>0, <1>1, <1>2 DEF Owner, FrameOf
<1>4. OwnerIsCurrent' /\ OthersAreSafe'
  BY <1>0, <1>1, <1>2, <1>3 DEF IInv, OwnerIsCurrent, OthersAreSafe, FrameOf, TaskAt, Stopped
<1>5. OwnerIsSafe'
  BY <1>0, <1>1, <1>2, <1>3 DEF OwnerIsSafe, FrameOf
<1>6. ServiceFollows'
  BY <1>0, <1>1 DEF IInv, ServiceFollows, Before
<1> QED
  BY <1>1, <1>4, <1>5, <1>6 DEF IInv

\* Schedule saves the owner's frame and hands over the next task's.
LEMMA ScheduleNextStep == ASSUME IInv, ScheduleNext PROVE IInv'
<1>0. /\ cpu.pc = "schedule" /\ Typed /\ Schedule(cpu.frame)
      /\ cpu' = [cpu EXCEPT !.pc = "master", !.frame = Scheduled(cpu.frame)]
      /\ UNCHANGED <<handlers, irr, isr, running, regs, progress>>
  BY DEF ScheduleNext, IInv
<1>1. Owner = running /\ cpu.frame = FrameOf(running) /\ Len(tasks) \in Nat
  BY <1>0 DEF IInv, OwnerIsSafe, Owner, Before, After, Typed
<1>2. /\ cpu'.pc = "master" /\ cpu'.line = cpu.line
      /\ cpu'.frame = Scheduled(cpu.frame)
  BY <1>0 DEF Typed
<1>3. Owner' = Scheduled(cpu.frame).stack
  BY <1>2 DEF Owner, After
<1>4. ServiceFollows'
  BY <1>0, <1>2 DEF IInv, ServiceFollows, Before
<1>5. CASE numTasks <= 0
  <2>1. Scheduled(cpu.frame) = cpu.frame /\ UNCHANGED taskVars
    BY <1>0, <1>5 DEF Schedule, Scheduled
  <2>2. Owner' = Owner
    BY <1>1, <1>3, <2>1 DEF FrameOf
  <2>3. Typed'
    BY <1>0, <2>1 DEF Typed, taskVars, After
  <2>4. OwnerIsCurrent' /\ OthersAreSafe'
    BY <1>0, <1>2, <2>1, <2>2
    DEF IInv, OwnerIsCurrent, OthersAreSafe, FrameOf, TaskAt, taskVars, Stopped
  <2>5. OwnerIsSafe'
    BY <1>0, <1>1, <1>2, <2>1, <2>2 DEF OwnerIsSafe, FrameOf
  <2> QED
    BY <1>4, <2>3, <2>4, <2>5 DEF IInv
<1>6. CASE ~(numTasks <= 0)
  <2> DEFINE next == TaskAt(NextIndex)
  <2>1. NextIndex \in 0 .. (numTasks - 1) /\ next \in Tasks
    BY <1>0, <1>1, <1>6, NextIndexInTable, TaskAtIsTask DEF numTasks
  <2>2. /\ cpuState' = Saved(cpu.frame) /\ currentTask' = NextIndex /\ tasks' = tasks
        /\ Scheduled(cpu.frame) = Saved(cpu.frame)[next]
    BY <1>0, <1>6 DEF Schedule, Scheduled
  <2>3. /\ cpuState' \in [Tasks -> [stack : Tasks, regs : Nat]]
        /\ \A t \in Tasks : cpuState'[t] = FrameOf(t)
    BY <1>0, <2>2, AllSaved
  <2>4. Scheduled(cpu.frame) = FrameOf(next) /\ Owner' = next
    BY <1>3, <2>1, <2>2, <2>3 DEF FrameOf
  <2>5. currentTask' >= 0 /\ TaskAt(currentTask)' = next
    BY <1>1, <2>1, <2>2 DEF TaskAt, numTasks
  <2>6. FrameOf(next) \in Frames
    BY <1>0, <2>1 DEF FrameOf, Frames, Stacks, Typed
  <2> HIDE DEF next
  <2>7. Typed'
    <3>1. cpu' \in [pc : {"boot", "run"} \cup Before \cup After \cup Stopped,
                    line : Lines, frame : Frames]
      BY <1>0, <2>4, <2>6 DEF Typed, After
    <3>2. currentTask' \in -1 .. (Len(tasks') - 1)
      BY <1>1, <2>1, <2>2 DEF numTasks
    <3> QED
      BY <1>0, <2>2, <2>3, <3>1, <3>2 DEF Typed
  <2>8. OwnerIsCurrent'
    BY <2>4, <2>5 DEF OwnerIsCurrent
  <2>9. OthersAreSafe'
    BY <1>0, <2>3 DEF OthersAreSafe, FrameOf
  <2>10. OwnerIsSafe'
    BY <1>0, <1>2, <2>4 DEF OwnerIsSafe, FrameOf
  <2> QED
    BY <1>4, <2>7, <2>8, <2>9, <2>10 DEF IInv
<1> QED
  BY <1>5, <1>6

\* The two ends of interrupt touch the controllers only.
LEMMA EndStep ==
  ASSUME IInv, cpu.pc \in {"master", "slave"},
         NEW pc \in {"slave", "return"}, cpu' = [cpu EXCEPT !.pc = pc],
         isr' \subseteq isr, ServiceFollows',
         UNCHANGED <<tasks, currentTask, cpuState, handlers, irr, running, regs, progress>>
  PROVE  IInv'
<1>1. /\ Typed' /\ cpu'.pc \in {"slave", "return"}
      /\ cpu'.frame = cpu.frame
  BY DEF IInv, Typed, After
<1>2. Owner = cpu.frame.stack /\ Owner' = Owner
  BY <1>1 DEF Owner, After
<1>3. OwnerIsCurrent' /\ OthersAreSafe'
  BY <1>1, <1>2 DEF IInv, OwnerIsCurrent, OthersAreSafe, FrameOf, TaskAt, Stopped
<1>4. OwnerIsSafe'
  BY <1>1, <1>2 DEF IInv, OwnerIsSafe, FrameOf, After
<1> QED
  BY <1>1, <1>3, <1>4 DEF IInv

LEMMA EndMasterStep == ASSUME IInv, EndMaster PROVE IInv'
<1>0. /\ cpu.pc = "master" /\ cpu' = [cpu EXCEPT !.pc = "slave"] /\ Typed
      /\ isr' = isr \ Ended(Master)
      /\ UNCHANGED <<tasks, currentTask, cpuState, handlers, irr, running, regs, progress>>
  BY DEF EndMaster, taskVars, IInv
<1>1. cpu'.pc = "slave" /\ cpu'.line = cpu.line /\ cpu.line \in Lines
  BY <1>0 DEF Typed
<1>2. isr = Service(cpu.line)
  BY <1>0 DEF IInv, ServiceFollows
<1>3. isr' = Service(cpu.line) \cap Slave
  BY <1>0, <1>1, <1>2, MasterEnds
<1>4. ServiceFollows'
  BY <1>1, <1>3 DEF ServiceFollows, Before
<1> QED
  BY <1>0, <1>4, EndStep

LEMMA EndSlaveStep == ASSUME IInv, EndSlave PROVE IInv'
<1>0. /\ cpu.pc = "slave" /\ cpu' = [cpu EXCEPT !.pc = "return"] /\ Typed
      /\ isr' = IF cpu.line >= 8 THEN isr \ Ended(Slave) ELSE isr
      /\ UNCHANGED <<tasks, currentTask, cpuState, handlers, irr, running, regs, progress>>
  BY DEF EndSlave, taskVars, IInv
<1>1. cpu'.pc = "return" /\ cpu.line \in Lines
  BY <1>0 DEF Typed
<1>2. isr = Service(cpu.line) \cap Slave
  BY <1>0 DEF IInv, ServiceFollows
<1>3. isr' = {}
  BY <1>0, <1>1, <1>2, SlaveEnds
<1>4. ServiceFollows'
  BY <1>1, <1>3 DEF ServiceFollows, Before
<1> QED
  BY <1>0, <1>3, <1>4, EndStep

\* The stub's exit puts the frame's stack and registers on the processor.
LEMMA ReturnStep == ASSUME IInv, Return PROVE IInv'
<1>0. /\ cpu.pc = "return" /\ Typed
      /\ running' = cpu.frame.stack /\ regs' = cpu.frame.regs
      /\ cpu' = [pc |-> "run", line |-> Timer, frame |-> NoFrame]
      /\ UNCHANGED <<tasks, currentTask, cpuState, handlers, irr, isr, progress>>
  BY DEF Return, taskVars, IInv
<1>1. Owner = cpu.frame.stack /\ Owner' = Owner /\ cpu.frame = FrameOf(Owner)
  BY <1>0 DEF IInv, OwnerIsSafe, Owner, After
<1>2. Typed'
  <2>1. cpu.frame.stack \in Stacks /\ cpu.frame.regs \in Nat
    BY <1>0 DEF Typed, Frames
  <2>2. NoFrame \in Frames /\ Timer \in Lines
    BY DEF NoFrame, Frames, Stacks, Timer, Lines
  <2>3. cpu' \in [pc : {"boot", "run"} \cup Before \cup After \cup Stopped,
                  line : Lines, frame : Frames]
    BY <1>0, <2>2
  <2> QED
    BY <1>0, <2>1, <2>3 DEF Typed
<1>3. OwnerIsCurrent' /\ OthersAreSafe'
  BY <1>0, <1>1 DEF IInv, OwnerIsCurrent, OthersAreSafe, FrameOf, TaskAt, Stopped
<1>4. OwnerIsSafe'
  BY <1>0, <1>1 DEF OwnerIsSafe, FrameOf, Before, After
<1>5. ServiceFollows'
  BY <1>0 DEF IInv, ServiceFollows, Before
<1> QED
  BY <1>2, <1>3, <1>4, <1>5 DEF IInv

LEMMA NextKeepsIInv == IInv /\ [Next]_vars => IInv'
<1> SUFFICES ASSUME IInv, [Next]_vars PROVE IInv'
  OBVIOUS
<1>1. ASSUME NEW d \in Drivers, RegisterHandler(d) PROVE IInv'
  BY <1>1, RegisterHandlerStep
<1>2. ASSUME NEW t \in Tasks, AddTaskAtBoot(t) PROVE IInv'
  BY <1>2, AddTaskStep
<1>3. CASE Activate \/ Execute \/ TakeInterrupt
  BY <1>3, ActivateStep, ExecuteStep, TakeInterruptStep
<1>4. CASE Interrupted
  BY <1>4, CallHandlerStep, FaultStep, ScheduleNextStep, EndMasterStep, EndSlaveStep, ReturnStep
  DEF Interrupted
<1>5. ASSUME NEW l \in Devices, RaiseLine(l) PROVE IInv'
  BY <1>5, RaiseLineStep
<1>6. CASE FaultAtBoot \/ Fault
  BY <1>6, FaultStep
<1>7. CASE UNCHANGED vars
  BY <1>7 DEF vars, taskVars, machineVars, IInv, Typed, OwnerIsCurrent, OwnerIsSafe,
              OthersAreSafe, ServiceFollows, Owner, FrameOf, TaskAt
<1> QED
  BY <1>1, <1>2, <1>3, <1>4, <1>5, <1>6, <1>7 DEF Next

----------------------------------------------------------------------------
\* The theorems.

\* The inductive invariant, for any tasks, drivers, devices and exceptions.
THEOREM InterruptInvariant == Spec => []IInv
<1> QED
  BY InitIInv, NextKeepsIInv, PTL DEF Spec

\* The table never grows beyond its limit and Schedule never leaves it.
THEOREM TypeCorrect == Spec => []TypeOK
<1>1. IInv => TypeOK
  BY DEF IInv, Typed, TypeOK, TaskTypeOK, numTasks, Frames
<1> QED
  BY <1>1, InterruptInvariant, PTL

\* Interrupts and task switches give every stack its own registers back.
THEOREM ContextsSurvive == Spec => []ContextKept
<1>1. IInv => ContextKept
  BY DEF IInv, OwnerIsSafe, ContextKept
<1> QED
  BY <1>1, InterruptInvariant, PTL

\* The stub's stack switch and Schedule's index agree.
THEOREM CurrentTaskRuns == Spec => []RunsCurrentTask
<1>1. IInv => RunsCurrentTask
  BY DEF IInv, OwnerIsCurrent, Owner, After, Stopped, RunsCurrentTask
<1> QED
  BY <1>1, InterruptInvariant, PTL

\* DoHandleInterrupt answers every controller that has to be answered.
THEOREM ControllersAnswered == Spec => []NothingInService
<1>1. IInv => NothingInService
  BY DEF IInv, ServiceFollows, NothingInService
<1> QED
  BY <1>1, InterruptInvariant, PTL
==============================================================================
