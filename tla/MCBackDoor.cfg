CONSTANTS
  Cli = cli
  Tasks = {cli}
  Called = {"putchar", "docommand"}
  Refusable = {}
  MaxAhead = 2
SPECIFICATION Spec
INVARIANT
  NothingUnlockedTwice
CHECK_DEADLOCK FALSE
