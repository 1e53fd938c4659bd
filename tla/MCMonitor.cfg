CONSTANTS
  Cli = cli
  Tasks = {cli, t1}
  Called = {"putchar", "docommand", "timer", "bbc"}
  Refusable = {"timer", "bbc"}
  MaxAhead = 2
SPECIFICATION Spec
INVARIANTS
  TypeOK
  Exclusion
  LockBalanced
  NoSelfDeadlock
  MissingIsTold
CHECK_DEADLOCK FALSE
