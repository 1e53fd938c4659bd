CONSTANTS
  TicksPerSecond = 2
  delivery_thread_period = 2
  PollTicks = 1
  MaxFiles = 4
  Slow <- MCSlow
SPECIFICATION
  ProgramsSpec
INVARIANTS
  ProgramsTypeOK
  Alternates
  NothingLost
  FilesOffered
  BuffersSuffice
  DriverServes
  ResultIsTheUsers
PROPERTIES
  Blinks
  TickersEnd
  StuckAtEnd
  FaultingThreadRestarts
CHECK_DEADLOCK FALSE
