\* Periods up to the longest that p * 1000000 does not overflow for.
CONSTANTS
  Periods = {250, 4294}
  Depth = 2
  MaxCommands = 3
  Quantum = 500
SPECIFICATION Spec
INVARIANTS
  TypeOK
  CalmTeardown
  SettledAsWanted
PROPERTIES
  PeriodHonoured
  AcceptedAreHandled
