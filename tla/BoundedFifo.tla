----------------------------- MODULE BoundedFifo -----------------------------
(***************************************************************************)
(* What the message queue of led/complex1 promises its callers, with the   *)
(* buffers, the mutex and the condition variable left out.                 *)
(*                                                                         *)
(* A writer submits a message; the queue then either accepts it, at its    *)
(* tail, or rejects it because Depth messages are pending.  A reader takes *)
(* the oldest pending message.  LocalMessageQueue implements this module,  *)
(* and LedServer is built on it.                                           *)
(***************************************************************************)
EXTENDS Naturals, Sequences

CONSTANTS
  Writers,   \* threads that call Write
  Readers,   \* threads that call Read
  Msgs,      \* the messages
  Depth,     \* how many messages may be pending
  NULL       \* no message

VARIABLES
  outbox,    \* outbox[w]: the message w has submitted and not yet got an answer for
  queue,     \* the messages accepted and not yet taken, oldest first
  inbox      \* inbox[r]: the last message r has taken

fifoVars == <<outbox, queue, inbox>>

FifoInit ==
  /\ outbox = [w \in Writers |-> NULL]
  /\ queue = <<>>
  /\ inbox = [r \in Readers |-> NULL]

Submit(w, m) ==
  /\ outbox[w] = NULL
  /\ outbox' = [outbox EXCEPT ![w] = m]
  /\ UNCHANGED <<queue, inbox>>

\* Mutant: the bound is off by one.
AcceptAtDepth(w) ==
  /\ outbox[w] # NULL
  /\ Len(queue) <= Depth
  /\ queue' = Append(queue, outbox[w])
  /\ outbox' = [outbox EXCEPT ![w] = NULL]
  /\ UNCHANGED inbox

Accept(w) ==
  /\ outbox[w] # NULL
  /\ Len(queue) < Depth
  /\ queue' = Append(queue, outbox[w])
  /\ outbox' = [outbox EXCEPT ![w] = NULL]
  /\ UNCHANGED inbox

Reject(w) ==
  /\ outbox[w] # NULL
  /\ Len(queue) >= Depth
  /\ outbox' = [outbox EXCEPT ![w] = NULL]
  /\ UNCHANGED <<queue, inbox>>

Take(r) ==
  /\ queue # <<>>
  /\ inbox' = [inbox EXCEPT ![r] = Head(queue)]
  /\ queue' = Tail(queue)
  /\ UNCHANGED outbox

FifoNext ==
  \/ \E w \in Writers : (\E m \in Msgs : Submit(w, m)) \/ Accept(w) \/ Reject(w)
  \/ \E r \in Readers : Take(r)

FifoSpec == FifoInit /\ [][FifoNext]_fifoVars
==============================================================================
