--------------------------- MODULE MCTriplePeriod ---------------------------
EXTENDS TriplePeriod
MCSlow == [triple_period |-> 1]
=============================================================================
