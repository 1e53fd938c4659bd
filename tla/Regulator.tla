----------------------------- MODULE Regulator -----------------------------
(***************************************************************************)
(* misc/regulator: a task sends two bursts of messages through a regulator *)
(* of RTEMS, whose thread delivers at most so many of them in each period. *)
(* The task, of priority 1, preempts the thread, of priority 16.           *)
(***************************************************************************)
EXTENDS TaskKernel, Integers

CONSTANT
  delivery_thread_period     \* the ticks of a second

ASSUME RegulatorAssumption == delivery_thread_period \in Nat \ {0}

VARIABLES
  buffers,     \* how many buffers of the regulator are free
  sending,     \* does the task hold a buffer?
  waiting,     \* how many messages are in the regulator's queue
  delivered,
  dequeued,    \* how many messages the thread has taken in this period, or -1 before
               \* it waits for the next
  msg, burst, i,
  outcome      \* "no", "end" or "assertion failed"

stock == <<buffers, sending, waiting, delivered, dequeued>>
sender == <<msg, burst, i, outcome>>
regulatorVars == <<program, kernel, stock, sender>>

maximum_messages == 10
maximum_to_dequeue_per_period == 3
BurstSize == 7
Bursts == 2
PauseSeconds == 5

RegulatorBoot == Boot(<<"Send", "Deliver">>)
RegulatorIdle ==
  /\ buffers = maximum_messages /\ sending = FALSE /\ waiting = 0 /\ delivered = 1
  /\ dequeued = -1
  /\ msg = 0 /\ burst = 0 /\ i = 1 /\ outcome = "no"

(* example_send_messages.                                                  *)

Sending == Runs("Send") /\ outcome = "no"

obtain_buffer ==
  /\ Sending /\ burst < Bursts /\ i <= BurstSize /\ ~sending
  /\ IF buffers = 0
       THEN outcome' = "assertion failed" /\ UNCHANGED <<buffers, sending>>
       ELSE buffers' = buffers - 1 /\ sending' = TRUE /\ outcome' = outcome
  /\ Goes("Send")
  /\ UNCHANGED <<alarm, waiting, delivered, dequeued, msg, burst, i>>

send ==
  /\ Sending /\ sending
  /\ sending' = FALSE /\ waiting' = waiting + 1
  /\ i' = i + 1 /\ msg' = msg + 1
  /\ Goes("Send")
  /\ UNCHANGED <<alarm, buffers, delivered, dequeued, burst, outcome>>

\* Mutant: the pause after a burst is a second.
PauseShort ==
  /\ Sending /\ burst < Bursts /\ i > BurstSize
  /\ Sleeps("Send", delivery_thread_period)
  /\ burst' = burst + 1 /\ i' = 1
  /\ UNCHANGED <<stock, msg, outcome>>

Pause ==
  /\ Sending /\ burst < Bursts /\ i > BurstSize
  /\ Sleeps("Send", PauseSeconds * delivery_thread_period)
  /\ burst' = burst + 1 /\ i' = 1
  /\ UNCHANGED <<stock, msg, outcome>>

Statistics ==
  /\ Sending /\ burst = Bursts
  /\ outcome' = "end"
  /\ Goes("Send")
  /\ UNCHANGED <<alarm, stock, msg, burst, i>>

(* The delivery thread of the regulator.                                   *)

Delivering == Runs("Deliver") /\ outcome = "no"

AwaitPeriod ==
  /\ Delivering /\ dequeued = -1
  /\ CallPeriod("Deliver", "Period1", delivery_thread_period)
  /\ dequeued' = 0
  /\ UNCHANGED <<buffers, sending, waiting, delivered, sender>>

\* example_deliverer returns true: the regulator releases the buffer.
example_deliverer ==
  /\ Delivering
  /\ dequeued \in 0 .. maximum_to_dequeue_per_period - 1 /\ waiting > 0
  /\ waiting' = waiting - 1 /\ delivered' = delivered + 1 /\ buffers' = buffers + 1
  /\ dequeued' = dequeued + 1
  /\ Goes("Deliver")
  /\ UNCHANGED <<alarm, sending, sender>>

DequeuedEnough ==
  /\ Delivering
  /\ dequeued = maximum_to_dequeue_per_period \/ (dequeued >= 0 /\ waiting = 0)
  /\ dequeued' = -1
  /\ Goes("Deliver")
  /\ UNCHANGED <<alarm, buffers, sending, waiting, delivered, sender>>

RegulatorClock ==
  /\ outcome = "no"
  /\ \/ Tick
     \/ SleepIsOver("Send")
     \/ PeriodEnds("Deliver", "Period1", delivery_thread_period)
  /\ UNCHANGED <<stock, sender>>

RegulatorNext ==
  /\ program = "regulator" /\ program' = program
  /\ \/ obtain_buffer \/ send \/ Pause \/ Statistics
     \/ AwaitPeriod \/ example_deliverer \/ DequeuedEnough
     \/ RegulatorClock

-----------------------------------------------------------------------------
\* Type correctness.
RegulatorTypeOK ==
  /\ buffers \in 0 .. maximum_messages /\ waiting \in 0 .. maximum_messages
  /\ sending \in BOOLEAN
  /\ dequeued \in -1 .. maximum_to_dequeue_per_period
  /\ burst \in 0 .. Bursts /\ i \in 1 .. BurstSize + 1
  /\ outcome \in {"no", "end", "assertion failed"}

\* No buffer and no message is lost.
Conserved ==
  /\ buffers + waiting + (IF sending THEN 1 ELSE 0) = maximum_messages
  /\ delivered - 1 + waiting = msg

\* The thread takes seven steps to deliver four messages, the two calls at which it
\* waits for a period included; these fit into the five seconds of a pause.
RegulatorPrompt ==
  /\ Slow["regulator"] \in Nat
  /\ 7 * Slow["regulator"] < PauseSeconds * delivery_thread_period

\* No buffer is lost, and the task, which sends more messages than there are buffers and
\* waits for none, always finds one: when it wakes and preempts the delivery thread for
\* the second burst, four of the first seven messages have been delivered.
BuffersSuffice == Conserved /\ outcome # "assertion failed"
==============================================================================
