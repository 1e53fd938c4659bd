\* One writer, and one thread that reads and polls.
CONSTANTS
  Writers = {w1}
  Readers = {r1}
  Guarded = {r1}
  Pollers = {r1}
  Buffers = {b1, b2}
  Msgs = {m1}
  Depth = 1
  SpuriousWakeups = FALSE
  NULL = NULL
SPECIFICATION Spec
PROPERTIES
  PollReturnsAvailable
