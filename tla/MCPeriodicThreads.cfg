CONSTANTS
  MaxCount = 2
  MaxTasks = 3
  MaxPeriods = 2
SPECIFICATION Spec
INVARIANTS
  TypeOK
  TidyStop
  TidyRunning
  TidyStatus
PROPERTIES
  StopCompletes
