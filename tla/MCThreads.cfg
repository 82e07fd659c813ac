CONSTANTS
  Worker = {w1, w2, w3}
  Main = main
  Count = 2
  MaxTask = 3
  Instances = {0, 1, 2}
  PerSec = 4
  Timeouts = {0, 1, 3, 5}
  MaxNow = 14
  MaxCalls = 2
SPECIFICATION Spec
INVARIANTS TypeOK BusyExact ShutdownSafe JoinedOnce
PROPERTIES WaitMeansDone TasksExecuted DestructorReturns JoinReturns
