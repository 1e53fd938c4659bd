------------------------- MODULE MCLocalMessageQueue -------------------------
(* LocalMessageQueue for TLC.  Buffers and messages are interchangeable.   *)
EXTENDS LocalMessageQueue, TLC

Symmetry == Permutations(Buffers) \cup Permutations(Msgs) \cup Permutations(Writers)
==============================================================================
