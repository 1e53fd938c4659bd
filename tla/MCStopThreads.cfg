CONSTANTS
  MaxCount = 2
  MaxTasks = 3
  MaxPeriods = 2
SPECIFICATION Spec
PROPERTIES
  StopStopsThreads
