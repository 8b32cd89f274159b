------------------------- MODULE MCInterruptManager -------------------------
(****************************************************************************)
(* Timer and keyboard on the master, mouse and network card on the slave,   *)
(* and line 8, the real time clock's, for which the kernel has no driver.   *)
(****************************************************************************)
EXTENDS InterruptManager, TLC

CONSTANTS keyboard, mouse, eth0, taskA, taskB, taskC

MCDrivers == {keyboard, mouse, eth0}
MCLineOf == (keyboard :> 1) @@ (mouse :> 12) @@ (eth0 :> 11)
MCTasks == {taskA, taskB, taskC}
Wired == {0, 1, 8, 11, 12}

WithClock == {0, 1, 8}

\* kernel_main, tasks, and the C++ code an interrupt runs; the stubs do not fault.
Code == {"boot", "run", "dispatch", "schedule", "master", "slave"}
NoFaults == {}
==============================================================================
