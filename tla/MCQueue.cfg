\* Two writers, and two readers that block in Read; one of them also polls.
CONSTANTS
  Writers = {w1, w2}
  Readers = {r1, r2}
  Guarded = {}
  Pollers = {r2}
  Buffers = {b1, b2, b3, b4}
  Msgs = {m1, m2}
  Depth = 2
  SpuriousWakeups = TRUE
  NULL = NULL
SYMMETRY Symmetry
SPECIFICATION Spec
INVARIANTS
  TypeOK
  ExclusiveOwnership
  NoLostWakeup
PROPERTIES
  LeakOnlyWhenFull
  ImplementsFifo
