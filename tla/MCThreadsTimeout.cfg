CONSTANTS
  Worker = {w1, w2}
  Main = main
  Count = 1
  MaxTask = 3
  Instances = {0, 1, 2}
  PerSec = 4
  Timeouts = {0, 1, 3, 5}
  MaxNow = 14
  MaxCalls = 2
SPECIFICATION Spec
PROPERTIES WaitsForTimeout
