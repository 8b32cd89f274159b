---------------------------- MODULE TaskManager ----------------------------
(****************************************************************************)
(* os::TaskManager: the table of tasks and the round robin that the timer   *)
(* interrupt drives.  A task is known by its stack; cpuState points at the  *)
(* CPUState last saved there, modelled as that stack with the registers.    *)
(****************************************************************************)
EXTENDS Integers, Sequences

CONSTANTS
  Tasks,       \* the Task objects
  TaskLimit    \* length of tasks[], 256 in the header

VARIABLES
  tasks,         \* tasks[0 .. numTasks - 1]
  currentTask,   \* index, -1 before the first switch
  cpuState       \* per task: the frame to return to

taskVars == <<tasks, currentTask, cpuState>>

numTasks == Len(tasks)

\* The Task constructor leaves a frame that starts the entry point with
\* cleared registers.
FreshFrame(t) == [stack |-> t, regs |-> 0]

InitTasks ==
  /\ tasks = <<>>
  /\ currentTask = -1
  /\ cpuState = [t \in Tasks |-> FreshFrame(t)]

\* Mutant: the limit of the table is not looked at.
AddTaskUnbounded(t) ==
  /\ tasks' = Append(tasks, t)
  /\ UNCHANGED <<currentTask, cpuState>>

\* AddTask; it returns false and changes nothing when the table is full.
AddTask(t) ==
  /\ numTasks < TaskLimit
  /\ tasks' = Append(tasks, t)
  /\ UNCHANGED <<currentTask, cpuState>>

TaskAt(i) == tasks[i + 1]

\* Mutant: the first task is taken for "no task".
SavedNotFirst(frame) ==
  IF currentTask > 0 THEN [cpuState EXCEPT ![TaskAt(currentTask)] = frame]
                     ELSE cpuState

\* The frame of the interrupted task is kept, if a task was interrupted: the
\* context that was running before the first switch is not.
Saved(frame) ==
  IF currentTask >= 0 THEN [cpuState EXCEPT ![TaskAt(currentTask)] = frame]
                      ELSE cpuState

\* Mutant: the index wraps one task too early.
NextIndexShort == IF currentTask + 1 >= numTasks - 1 THEN 0 ELSE currentTask + 1

NextIndex ==
  IF currentTask + 1 >= numTasks THEN (currentTask + 1) % numTasks
                                 ELSE currentTask + 1

\* Mutant: the frame is fetched before the index moves on.
ScheduledEarly(frame) ==
  IF numTasks <= 0 \/ currentTask < 0 THEN frame
                                      ELSE Saved(frame)[TaskAt(currentTask)]

\* What Schedule returns for the frame it is given, and what it changes.
Scheduled(frame) ==
  IF numTasks <= 0 THEN frame ELSE Saved(frame)[TaskAt(NextIndex)]

Schedule(frame) ==
  IF numTasks <= 0
    THEN UNCHANGED taskVars
    ELSE /\ cpuState' = Saved(frame)
         /\ currentTask' = NextIndex
         /\ UNCHANGED tasks

TaskTypeOK ==
  /\ \A i \in 1 .. numTasks : tasks[i] \in Tasks
  /\ numTasks <= TaskLimit
  /\ currentTask \in -1 .. (numTasks - 1)
  /\ \A t \in Tasks : cpuState[t].stack \in Tasks /\ cpuState[t].regs \in Nat
=============================================================================
