CONSTANT
  Slow <- MCSlow
SPECIFICATION
  Spec
PROPERTY
  DemoEnds
CHECK_DEADLOCK FALSE
