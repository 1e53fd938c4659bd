\* The LED server's use of the queue: one reader, which asks IsAvailable
\* before it calls Read.
CONSTANTS
  Writers = {w1}
  Readers = {r1}
  Guarded = {r1}
  Pollers = {}
  Buffers = {b1, b2, b3, b4, b5}
  Msgs = {m1}
  Depth = 2
  SpuriousWakeups = TRUE
  NULL = NULL
SPECIFICATION FairSpec
INVARIANTS
  NeverWaits
  PoolBounded
PROPERTIES
  AcceptedIsTaken
