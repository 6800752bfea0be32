\* Commands on one table, one after the other, with complaints shorter and longer than the
\* pipe; a run may stop at a child that waits for room in the pipe.
SPECIFICATION Spec
CONSTANTS
  Routes <- MCRoutes
  Commands <- MCCommands
  PipeSize = 2
  MaxText = 3
  MaxFaults = 2
INVARIANTS
  RunnerTypeOK
  LeavesLittleBehind
PROPERTIES
  KeepsPromise
  CommandReturns
CHECK_DEADLOCK FALSE
