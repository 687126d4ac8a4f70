-------------------------- MODULE MCExecutionCycle --------------------------
(* ExecutionCycle on small instances. *)
EXTENDS ExecutionCycle, TLC

CONSTANTS p1, p2    \* model values for processes

MCOwners == (Processes \X Slots) \X {1, 2, 3}
=============================================================================
