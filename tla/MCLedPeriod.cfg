\* A period the menu offers, and for which p * 1000000 overflows.
CONSTANTS
  Periods = {250, 10000}
  Depth = 2
  MaxCommands = 2
  Quantum = 500
SPECIFICATION Spec
PROPERTIES
  PeriodHonoured
