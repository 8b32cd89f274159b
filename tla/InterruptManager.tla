-------------------------- MODULE InterruptManager --------------------------
(****************************************************************************)
(* os::communication::InterruptManager with the stubs of idt_stubs.s, the   *)
(* two interrupt controllers it programs and the processor it interrupts:   *)
(* an interrupt saves the context on the running stack, goes to the driver  *)
(* registered for it, the timer's also to TaskManager::Schedule, is         *)
(* answered to the controllers, and returns on the stack Schedule chose.    *)
(* The processor's own exceptions (0x00 to 0x13) take the same way, without *)
(* a controller and without anybody registered for them.                    *)
(****************************************************************************)
EXTENDS TaskManager, FiniteSets

CONSTANTS
  Drivers,      \* InterruptHandler objects
  LineOf,       \* Drivers -> the line its constructor is given
  Devices,      \* lines on which some device raises interrupts
  FaultsAt,     \* the values of cpu.pc at which code may raise an exception
  None,         \* the null pointer
  Boot,         \* the stack kernel_main runs on
  Registers     \* bound: how many register contents are told apart

ASSUME MachineAssumption ==
  /\ LineOf \in [Drivers -> 0 .. 15] /\ Devices \subseteq 0 .. 15
  /\ Boot \notin Tasks
  /\ TaskLimit \in Nat /\ Registers \in Nat \ {0}

VARIABLES
  handlers,     \* handlers[0x20 .. 0x2F], by line
  irr, isr,     \* the controllers: lines requested, lines in service
  cpu,          \* pc, line being handled, frame it will return to
  running,      \* the stack the processor is on
  regs,         \* the registers of what runs
  progress      \* per stack: the registers its code has computed so far

machineVars == <<handlers, irr, isr, cpu, running, regs, progress>>
vars == <<taskVars, machineVars>>

Lines == 0 .. 15
Timer == 0
Cascade == 2
Master == 0 .. 7
Slave == 8 .. 15
Stacks == Tasks \cup {Boot}

NoFrame == [stack |-> Boot, regs |-> 0]

\* The constructor: no handlers, the controllers remapped and unmasked.
Init ==
  /\ InitTasks
  /\ handlers = [l \in Lines |-> None]
  /\ irr = {} /\ isr = {}
  /\ cpu = [pc |-> "boot", line |-> Timer, frame |-> NoFrame]
  /\ running = Boot
  /\ regs = 0
  /\ progress = [s \in Stacks |-> 0]

----------------------------------------------------------------------------
\* kernel_main, interrupts off.

\* A driver's constructor registers it: the last one for a line gets it.
RegisterHandler(d) ==
  /\ cpu.pc = "boot"
  /\ handlers[LineOf[d]] # d
  /\ handlers' = [handlers EXCEPT ![LineOf[d]] = d]
  /\ UNCHANGED <<taskVars, irr, isr, cpu, running, regs, progress>>

AddTaskAtBoot(t) ==
  /\ cpu.pc = "boot"
  /\ \A i \in 1 .. numTasks : tasks[i] # t
  /\ AddTask(t)
  /\ UNCHANGED machineVars

\* Activate, once every device that may interrupt has its driver or not.
Activate ==
  /\ cpu.pc = "boot"
  /\ \A d \in Drivers : handlers[LineOf[d]] # None
  /\ cpu' = [cpu EXCEPT !.pc = "run"]
  /\ UNCHANGED <<taskVars, handlers, irr, isr, running, regs, progress>>

----------------------------------------------------------------------------
\* The processor and the devices.

Execute ==
  /\ cpu.pc = "run"
  /\ regs' = (regs + 1) % Registers
  /\ progress' = [progress EXCEPT ![running] = (@ + 1) % Registers]
  /\ UNCHANGED <<taskVars, handlers, irr, isr, cpu, running>>

RaiseLine(l) ==
  /\ l \notin irr
  /\ irr' = irr \cup {l}
  /\ UNCHANGED <<taskVars, handlers, isr, cpu, running, regs, progress>>

\* Priorities of the cascaded controllers: 0, 1, 2 with 8 to 15, 3 to 7.
Rank(l) == IF l <= Cascade THEN l ELSE IF l \in Slave THEN l - 5 ELSE l + 8

Deliverable(l) ==
  /\ l \in irr
  /\ \A s \in isr : Rank(l) < Rank(s)
  /\ \A k \in irr : Rank(l) <= Rank(k)

\* The controllers hand over the line, the processor turns interrupts off, the
\* stub saves the registers on the stack it finds.
TakeInterrupt ==
  \E l \in irr :
    /\ cpu.pc = "run"
    /\ Deliverable(l)
    /\ irr' = irr \ {l}
    /\ isr' = isr \cup (IF l \in Slave THEN {l, Cascade} ELSE {l})
    /\ cpu' = [pc |-> "dispatch", line |-> l,
               frame |-> [stack |-> running, regs |-> regs]]
    /\ UNCHANGED <<taskVars, handlers, running, regs, progress>>

----------------------------------------------------------------------------
\* Exceptions.

\* Before Activate there is no manager to ask: HandleInterrupt gives the stack
\* back, the instruction is run again and faults again, for ever.
FaultAtBoot ==
  /\ cpu.pc = "boot" /\ cpu.pc \in FaultsAt
  /\ cpu' = [cpu EXCEPT !.pc = "refault"]
  /\ UNCHANGED <<taskVars, handlers, irr, isr, running, regs, progress>>

\* Afterwards, in interrupted code or in a handler, it is an interrupt nobody
\* is registered for: DoHandleInterrupt reports it and stays in while(1).
Fault ==
  /\ cpu.pc \in FaultsAt \ {"boot", "refault", "panic"}
  /\ cpu' = [cpu EXCEPT !.pc = "panic"]
  /\ UNCHANGED <<taskVars, handlers, irr, isr, running, regs, progress>>

----------------------------------------------------------------------------
\* DoHandleInterrupt.

\* The driver's HandleInterrupt returns the stack it was given; nobody needs
\* to be registered for the timer.
CallHandler ==
  /\ cpu.pc = "dispatch"
  /\ handlers[cpu.line] # None \/ cpu.line = Timer
  /\ cpu' = [cpu EXCEPT !.pc = IF cpu.line = Timer THEN "schedule" ELSE "master"]
  /\ UNCHANGED <<taskVars, handlers, irr, isr, running, regs, progress>>

\* Anything else is reported, and the processor stays in while(1).
Panic ==
  /\ cpu.pc = "dispatch"
  /\ handlers[cpu.line] = None /\ cpu.line # Timer
  /\ cpu' = [cpu EXCEPT !.pc = "panic"]
  /\ UNCHANGED <<taskVars, handlers, irr, isr, running, regs, progress>>

ScheduleNext ==
  /\ cpu.pc = "schedule"
  /\ Schedule(cpu.frame)
  /\ cpu' = [cpu EXCEPT !.pc = "master", !.frame = Scheduled(cpu.frame)]
  /\ UNCHANGED <<handlers, irr, isr, running, regs, progress>>

\* A non-specific end of interrupt ends the most urgent line in service.
Ended(chip) ==
  {l \in isr \cap chip : \A k \in isr \cap chip : Rank(l) <= Rank(k)}

EndMaster ==
  /\ cpu.pc = "master"
  /\ isr' = isr \ Ended(Master)
  /\ cpu' = [cpu EXCEPT !.pc = "slave"]
  /\ UNCHANGED <<taskVars, handlers, irr, running, regs, progress>>

\* Mutant: the slave is left out for its first four lines.
EndSlaveLate ==
  /\ cpu.pc = "slave"
  /\ isr' = IF cpu.line >= 12 + 1 THEN isr \ Ended(Slave) ELSE isr
  /\ cpu' = [cpu EXCEPT !.pc = "return"]
  /\ UNCHANGED <<taskVars, handlers, irr, running, regs, progress>>

EndSlave ==
  /\ cpu.pc = "slave"
  /\ isr' = IF cpu.line >= 8 THEN isr \ Ended(Slave) ELSE isr
  /\ cpu' = [cpu EXCEPT !.pc = "return"]
  /\ UNCHANGED <<taskVars, handlers, irr, running, regs, progress>>

\* The stub takes the stack that was returned and pops the context from it.
Return ==
  /\ cpu.pc = "return"
  /\ running' = cpu.frame.stack
  /\ regs' = cpu.frame.regs
  /\ cpu' = [pc |-> "run", line |-> Timer, frame |-> NoFrame]
  /\ UNCHANGED <<taskVars, handlers, irr, isr, progress>>

Interrupted ==
  CallHandler \/ Panic \/ ScheduleNext \/ EndMaster \/ EndSlave \/ Return

Next ==
  \/ \E d \in Drivers : RegisterHandler(d)
  \/ \E t \in Tasks : AddTaskAtBoot(t)
  \/ Activate \/ Execute \/ TakeInterrupt \/ Interrupted
  \/ \E l \in Devices : RaiseLine(l)
  \/ FaultAtBoot \/ Fault

\* The processor runs, boot ends, the timer keeps ticking; no other device
\* has to interrupt.
Spec ==
  /\ Init /\ [][Next]_vars
  /\ WF_vars(Activate) /\ WF_vars(\E d \in Drivers : RegisterHandler(d))
  /\ WF_vars(Interrupted) /\ SF_vars(TakeInterrupt)
  /\ WF_vars(RaiseLine(Timer))

----------------------------------------------------------------------------
\* Correctness.

TypeOK ==
  /\ TaskTypeOK
  /\ handlers \in [Lines -> Drivers \cup {None}]
  /\ irr \subseteq Lines /\ isr \subseteq Lines
  /\ running \in Stacks
  /\ cpu.frame.stack \in Stacks

\* Whatever interrupted what, code that runs finds the registers it had when
\* it was interrupted: no task resumes with the context of another, and the
\* boot context survives as long as no task takes the processor from it.
ContextKept == cpu.pc = "run" => regs = progress[running]

\* Once tasks are there the stack the processor runs on is the current task's.
RunsCurrentTask ==
  cpu.pc = "run" /\ currentTask >= 0 => running = TaskAt(currentTask)

\* When the interrupted code goes on, both controllers have been told: no line
\* stays in service and blocks the ones below it.
NothingInService == cpu.pc = "run" => isr = {}

\* The timer gives every task the processor again and again, until a line
\* nobody drives or an exception stops the processor.
EveryTaskRuns ==
  \A t \in Tasks :
    (\E i \in 1 .. numTasks : tasks[i] = t) /\ cpu.pc = "run"
      ~> running = t \/ cpu.pc = "panic"

\* DoHandleInterrupt always returns a stack to go on with, as the comment on it
\* in idt.cpp says ("Lopuksi aina palautetaan ESP").
AlwaysReturns == cpu.pc = "dispatch" ~> cpu.pc = "run"
==============================================================================
