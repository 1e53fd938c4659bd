-------------------------- MODULE LocalMessageQueue --------------------------
(***************************************************************************)
(* The message queue of led/complex1: class LocalMessageQueuePOSIX10031c   *)
(* and MessageQueueTemplate's Read and Write on top of it, called by any   *)
(* number of threads.                                                      *)
(*                                                                         *)
(* A method's critical section (lock() ... unlock()) is one action of the  *)
(* thread that owns mutexM; taking the mutex is an action of its own.  The *)
(* copies between the caller's message and the shared buffer are made      *)
(* without the mutex and are actions of their own too.                     *)
(*                                                                         *)
(* The behaviour C++ leaves undefined (front and pop_front of an empty     *)
(* list) ends a behaviour: fate becomes "undefined".  So does `new` with   *)
(* the heap exhausted: nothing catches bad_alloc, the program terminates.  *)
(***************************************************************************)
EXTENDS Naturals, FiniteSets, Sequences, Functions

CONSTANTS
  Writers,          \* threads that call Write
  Readers,          \* threads that call Read
  Guarded,          \* the readers that call Read only after IsAvailable said yes
  Pollers,          \* threads that call ReceivePoll
  Buffers,          \* the messages the heap has room for
  Msgs,             \* what a message may say
  Depth,            \* depthM
  SpuriousWakeups,  \* may pthread_cond_wait return without a signal?
  NULL

ASSUME DepthAssumption == Depth \in Nat \ {0}

ASSUME ThreadsAssumption ==
  /\ IsFiniteSet(Writers \cup Readers \cup Pollers)
  /\ Guarded \subseteq Readers
  /\ Writers \cap (Readers \cup Pollers) = {}
  /\ SpuriousWakeups \in BOOLEAN

ASSUME NullAssumption ==
  NULL \notin Writers \cup Readers \cup Pollers \cup Buffers \cup Msgs

Threads == Writers \cup Readers \cup Pollers

VARIABLES
  mutexM,     \* the owner of the mutex, or NULL
  pendingM,   \* the pending messages: pointers to buffers, oldest first
  inactiveM,  \* the unused buffers
  heap,       \* the buffers `new` has returned so far
  content,    \* content[b]: what buffer b holds
  pc,         \* pc[t]: what t does next
  b,          \* b[t]: the buffer t's local pointer designates, or NULL
  buffer,     \* buffer[t]: the message t's caller passed to Read or Write
  fate        \* "running" until the program terminates or is undefined

lists == <<pendingM, inactiveM>>
memory == <<heap, content>>
locals == <<pc, b, buffer>>
vars == <<mutexM, pendingM, inactiveM, heap, content, pc, b, buffer, fate>>

\* The methods that start by taking the mutex, and the wakeup that takes it back.
Locking ==
  {"Allocate", "Send", "IsAvailable", "Receive", "Woken", "Deallocate", "ReceivePoll"}

Waiting == {t \in Threads : pc[t] = "Wait"}
Woken == {t \in Threads : pc[t] = "Woken"}

-----------------------------------------------------------------------------
Init ==
  /\ mutexM = NULL
  /\ pendingM = <<>>
  /\ inactiveM = <<>>
  /\ heap = {}
  /\ content = [x \in Buffers |-> NULL]
  /\ pc = [t \in Threads |-> "Idle"]
  /\ b = [t \in Threads |-> NULL]
  /\ buffer = [t \in Threads |-> NULL]
  /\ fate = "running"

Goto(t, label) == pc' = [pc EXCEPT ![t] = label]

lock(t) ==
  /\ pc[t] \in Locking
  /\ mutexM = NULL
  /\ mutexM' = t
  /\ UNCHANGED <<lists, memory, locals, fate>>

\* The thread is in its critical section; unlock() ends it.
Holds(t, method) == mutexM = t /\ pc[t] = method
unlock == mutexM' = NULL

-----------------------------------------------------------------------------
(* Write: Allocate, copy, Send.                                            *)

Write(t) ==
  /\ pc[t] = "Idle"
  /\ \E m \in Msgs : buffer' = [buffer EXCEPT ![t] = m]
  /\ Goto(t, "Allocate")
  /\ UNCHANGED <<mutexM, lists, memory, b, fate>>

\* Mutant: the buffer is not popped from inactiveM.
AllocateWithoutPop(t) ==
  /\ Holds(t, "Allocate")
  /\ inactiveM # <<>>
  /\ b' = [b EXCEPT ![t] = Head(inactiveM)]
  /\ unlock
  /\ Goto(t, "WriteCopy")
  /\ UNCHANGED <<lists, memory, buffer, fate>>

AllocateInactive(t) ==
  /\ Holds(t, "Allocate")
  /\ inactiveM # <<>>
  /\ b' = [b EXCEPT ![t] = Head(inactiveM)]
  /\ inactiveM' = Tail(inactiveM)
  /\ unlock
  /\ Goto(t, "WriteCopy")
  /\ UNCHANGED <<pendingM, memory, buffer, fate>>

\* Mutant: inactiveM is not looked at.
AllocateAlwaysNew(t) ==
  /\ Holds(t, "Allocate")
  /\ \E new \in Buffers \ heap :
       /\ heap' = heap \cup {new}
       /\ b' = [b EXCEPT ![t] = new]
  /\ unlock
  /\ Goto(t, "WriteCopy")
  /\ UNCHANGED <<lists, content, buffer, fate>>

AllocateNew(t) ==
  /\ Holds(t, "Allocate")
  /\ inactiveM = <<>>
  /\ \E new \in Buffers \ heap :
       /\ heap' = heap \cup {new}
       /\ b' = [b EXCEPT ![t] = new]
  /\ unlock
  /\ Goto(t, "WriteCopy")
  /\ UNCHANGED <<lists, content, buffer, fate>>

\* bad_alloc is thrown with the mutex held, and nobody catches it.
Throws == fate' = "out of memory" /\ UNCHANGED <<mutexM, lists, memory, locals>>

AllocateFails(t) == Holds(t, "Allocate") /\ inactiveM = <<>> /\ heap = Buffers /\ Throws

WriteCopy(t) ==
  /\ pc[t] = "WriteCopy"
  /\ content' = [content EXCEPT ![b[t]] = buffer[t]]
  /\ Goto(t, "Send")
  /\ UNCHANGED <<mutexM, lists, heap, b, buffer, fate>>

\* The queue is full: Write returns false and forgets its buffer.
SendRejected(t) ==
  /\ Holds(t, "Send")
  /\ Len(pendingM) >= Depth
  /\ unlock
  /\ b' = [b EXCEPT ![t] = NULL]
  /\ Goto(t, "Idle")
  /\ UNCHANGED <<lists, memory, buffer, fate>>

\* Mutant: signal only the message that makes the queue non-empty.
SignalledIfEmpty(t) ==
  IF Waiting = {} \/ pendingM # <<>>
    THEN Goto(t, "Idle")
    ELSE \E w \in Waiting : pc' = [pc EXCEPT ![t] = "Idle", ![w] = "Woken"]

\* signal() wakes one waiting thread, whichever, if there is one.
Signalled(t) ==
  IF Waiting = {}
    THEN Goto(t, "Idle")
    ELSE \E w \in Waiting : pc' = [pc EXCEPT ![t] = "Idle", ![w] = "Woken"]

\* Mutant: push_front.
SendAtFront(t) ==
  /\ Holds(t, "Send")
  /\ Len(pendingM) < Depth
  /\ pendingM' = <<b[t]>> \o pendingM
  /\ Signalled(t)
  /\ unlock
  /\ b' = [b EXCEPT ![t] = NULL]
  /\ UNCHANGED <<inactiveM, memory, buffer, fate>>

Send(t) ==
  /\ Holds(t, "Send")
  /\ Len(pendingM) < Depth
  /\ pendingM' = Append(pendingM, b[t])
  /\ Signalled(t)
  /\ unlock
  /\ b' = [b EXCEPT ![t] = NULL]
  /\ UNCHANGED <<inactiveM, memory, buffer, fate>>

\* push_back allocates a node of the list, whatever is left for buffers.
SendFails(t) == Holds(t, "Send") /\ Len(pendingM) < Depth /\ Throws

-----------------------------------------------------------------------------
(* IsAvailable, and Read: Receive, copy, Deallocate.                       *)

Read(t) ==
  /\ pc[t] = "Idle"
  /\ Goto(t, IF t \in Guarded THEN "IsAvailable" ELSE "Receive")
  /\ UNCHANGED <<mutexM, lists, memory, b, buffer, fate>>

\* Mutant: the answer is yes whatever is pending.
IsAlwaysAvailable(t) ==
  /\ Holds(t, "IsAvailable")
  /\ unlock
  /\ Goto(t, "Receive")
  /\ UNCHANGED <<lists, memory, b, buffer, fate>>

\* Mutant: the test is inverted, as ReceivePoll's is.
IsNotAvailable(t) ==
  /\ Holds(t, "IsAvailable")
  /\ unlock
  /\ Goto(t, IF pendingM = <<>> THEN "Receive" ELSE "Idle")
  /\ UNCHANGED <<lists, memory, b, buffer, fate>>

\* A guarded reader reads if, when it asked, a message was pending.
IsAvailable(t) ==
  /\ Holds(t, "IsAvailable")
  /\ unlock
  /\ Goto(t, IF pendingM # <<>> THEN "Receive" ELSE "Idle")
  /\ UNCHANGED <<lists, memory, b, buffer, fate>>

\* m = front(); pop_front(), from either branch of Receive.
TakeFront(t) ==
  /\ pendingM # <<>>
  /\ b' = [b EXCEPT ![t] = Head(pendingM)]
  /\ pendingM' = Tail(pendingM)
  /\ unlock
  /\ Goto(t, "ReadCopy")
  /\ UNCHANGED <<inactiveM, memory, buffer, fate>>

\* wait() releases the mutex and blocks.
wait(t) ==
  /\ unlock
  /\ Goto(t, "Wait")
  /\ UNCHANGED <<lists, memory, b, buffer, fate>>

Receive(t) == Holds(t, "Receive") /\ TakeFront(t)

ReceiveWaits(t) == Holds(t, "Receive") /\ pendingM = <<>> /\ wait(t)

ReceiveWoken(t) == Holds(t, "Woken") /\ TakeFront(t)

\* Woken with nothing pending, `continue` tests m, which is uninitialised:
\* it may look null, and the thread waits again ...
ReceiveWaitsAgain(t) == Holds(t, "Woken") /\ pendingM = <<>> /\ wait(t)

\* ... or look like a message, and the thread pops an empty list.
ReceivePopsEmpty(t) ==
  /\ Holds(t, "Woken")
  /\ pendingM = <<>>
  /\ fate' = "undefined"
  /\ UNCHANGED <<mutexM, lists, memory, locals>>

\* pthread_cond_wait may return though nobody signalled.
SpuriousWakeup(t) ==
  /\ SpuriousWakeups
  /\ pc[t] = "Wait"
  /\ Goto(t, "Woken")
  /\ UNCHANGED <<mutexM, lists, memory, b, buffer, fate>>

ReadCopy(t) ==
  /\ pc[t] = "ReadCopy"
  /\ buffer' = [buffer EXCEPT ![t] = content[b[t]]]
  /\ Goto(t, "Deallocate")
  /\ UNCHANGED <<mutexM, lists, memory, b, fate>>

\* Mutant: the pointer is cleared before it is pushed.
DeallocateCleared(t) ==
  /\ Holds(t, "Deallocate")
  /\ b' = [b EXCEPT ![t] = NULL]
  /\ inactiveM' = Append(inactiveM, b'[t])
  /\ unlock
  /\ Goto(t, "Idle")
  /\ UNCHANGED <<pendingM, memory, buffer, fate>>

\* Mutant: a second unused buffer is not kept.
DeallocateKeepsOne(t) ==
  /\ Holds(t, "Deallocate")
  /\ inactiveM' = IF inactiveM = <<>> THEN <<b[t]>> ELSE inactiveM
  /\ b' = [b EXCEPT ![t] = NULL]
  /\ unlock
  /\ Goto(t, "Idle")
  /\ UNCHANGED <<pendingM, memory, buffer, fate>>

Deallocate(t) ==
  /\ Holds(t, "Deallocate")
  /\ inactiveM' = Append(inactiveM, b[t])
  /\ b' = [b EXCEPT ![t] = NULL]
  /\ unlock
  /\ Goto(t, "Idle")
  /\ UNCHANGED <<pendingM, memory, buffer, fate>>

DeallocateFails(t) == Holds(t, "Deallocate") /\ Throws

-----------------------------------------------------------------------------
(* ReceivePoll, which nothing in the example calls.                        *)

Poll(t) ==
  /\ pc[t] = "Idle"
  /\ Goto(t, "ReceivePoll")
  /\ UNCHANGED <<mutexM, lists, memory, b, buffer, fate>>

\* Its test is inverted: with a message pending it returns NULL ...
ReceivePoll(t) ==
  /\ Holds(t, "ReceivePoll")
  /\ pendingM # <<>>
  /\ b' = [b EXCEPT ![t] = NULL]
  /\ unlock
  /\ Goto(t, "Idle")
  /\ UNCHANGED <<lists, memory, buffer, fate>>

\* ... and with none it takes the front of an empty list.
ReceivePollPopsEmpty(t) ==
  /\ Holds(t, "ReceivePoll")
  /\ pendingM = <<>>
  /\ fate' = "undefined"
  /\ UNCHANGED <<mutexM, lists, memory, locals>>

-----------------------------------------------------------------------------
WriterStep(t) ==
  \/ Write(t) \/ AllocateInactive(t) \/ AllocateNew(t) \/ AllocateFails(t)
  \/ WriteCopy(t) \/ SendRejected(t) \/ Send(t) \/ SendFails(t)

ReaderStep(t) ==
  \/ Read(t) \/ IsAvailable(t) \/ Receive(t) \/ ReceiveWaits(t) \/ ReceiveWoken(t)
  \/ ReceiveWaitsAgain(t) \/ ReceivePopsEmpty(t) \/ ReadCopy(t)
  \/ Deallocate(t) \/ DeallocateFails(t)

PollerStep(t) == Poll(t) \/ ReceivePoll(t) \/ ReceivePollPopsEmpty(t)

ThreadStep ==
  \/ \E t \in Threads : lock(t)
  \/ \E t \in Writers : WriterStep(t)
  \/ \E t \in Readers : ReaderStep(t) \/ SpuriousWakeup(t)
  \/ \E t \in Pollers : PollerStep(t)

\* After the program has terminated, or become undefined, nothing is said.
Ended == fate # "running" /\ UNCHANGED vars

Next == (fate = "running" /\ ThreadStep) \/ Ended

Spec == Init /\ [][Next]_vars

(* The scheduling the program gets: a thread inside a method runs on, the  *)
(* reader thread calls Read again and again, and mutexM, whose waiters     *)
(* queue up in the operating system, is not withheld from one for ever.    *)
Running(A) == fate = "running" /\ A

Fairness ==
  /\ \A t \in Threads : SF_vars(Running(lock(t)))
  /\ \A t \in Writers : WF_vars(Running(pc[t] # "Idle" /\ WriterStep(t)))
  /\ \A t \in Readers : WF_vars(Running(ReaderStep(t)))

FairSpec == Spec /\ Fairness

-----------------------------------------------------------------------------
(* Properties.                                                             *)

\* Type correctness: the lists and the threads' pointers only designate
\* buffers that `new` returned, and never NULL where the code follows them.
TypeOK ==
  /\ mutexM \in Threads \cup {NULL}
  /\ pendingM \in Seq(heap)
  /\ inactiveM \in Seq(heap)
  /\ heap \subseteq Buffers
  /\ content \in [Buffers -> Msgs \cup {NULL}]
  /\ pc \in [Threads -> Locking \cup {"Idle", "WriteCopy", "Wait", "ReadCopy"}]
  /\ b \in [Threads -> heap \cup {NULL}]
  /\ buffer \in [Threads -> Msgs \cup {NULL}]
  /\ fate \in {"running", "out of memory", "undefined"}

Held == {b[t] : t \in Threads} \ {NULL}
Reachable == Range(pendingM) \cup Range(inactiveM) \cup Held
Leaked == heap \ Reachable

\* A buffer is in one place: once in pendingM, once in inactiveM, or in the
\* hands of one thread.  Read and Write copy into and out of it without the
\* mutex, so this is all that keeps their memcpy from racing.
ExclusiveOwnership ==
  /\ IsInjective(pendingM)
  /\ IsInjective(inactiveM)
  /\ Range(pendingM) \cap Range(inactiveM) = {}
  /\ Held \cap (Range(pendingM) \cup Range(inactiveM)) = {}
  /\ \A s, t \in Threads : s # t /\ b[s] # NULL => b[s] # b[t]

\* No lost wakeup: while a thread is blocked in wait(), each pending message
\* has a woken thread on its way to it.
NoLostWakeup == Waiting # {} => Len(pendingM) <= Cardinality(Woken)

\* Allocate recycles: apart from what was leaked, the queue never has more
\* buffers than the pending messages and the threads can account for.
PoolBounded == Cardinality(heap \ Leaked) <= Depth + Cardinality(Threads)

\* The only way to lose a buffer is a Write that finds the queue full: it
\* drops the buffer it allocated, and nothing ever finds it again.
LeakOnlyWhenFull ==
  [][/\ Leaked \subseteq Leaked'
     /\ \A x \in Leaked' \ Leaked :
          /\ Len(pendingM) >= Depth
          /\ \E w \in Writers : Holds(w, "Send") /\ b[w] = x]_vars

\* A reader that never waits never meets the hazard of Receive's wait loop.
\* True of a queue whose only reader asks IsAvailable first, as the LED
\* thread does: no other thread can take the message it was told about.
NeverWaits == Waiting = {} /\ fate # "undefined"

\* "If a message is available, it will be returned to the caller": what the
\* comment on ReceivePoll says of it.
PollReturnsAvailable ==
  [][\A t \in Pollers :
       Holds(t, "ReceivePoll") /\ pendingM # <<>> /\ mutexM' = NULL
         => b'[t] = Head(pendingM)]_vars

\* A message that was accepted is taken, if the program goes on.
AcceptedIsTaken ==
  \A x \in Buffers : x \in Range(pendingM) ~> x \notin Range(pendingM) \/ fate # "running"

(* The queue implements BoundedFifo: a message is what its buffer holds.   *)
FifoOutbox == [w \in Writers |-> IF pc[w] = "Idle" THEN NULL ELSE buffer[w]]
FifoQueue == [i \in DOMAIN pendingM |-> content[pendingM[i]]]
FifoInbox ==
  [r \in Readers |-> IF pc[r] = "ReadCopy" THEN content[b[r]] ELSE buffer[r]]

Fifo == INSTANCE BoundedFifo
          WITH outbox <- FifoOutbox, queue <- FifoQueue, inbox <- FifoInbox

\* Whatever the threads do, messages are accepted up to Depth, rejected only
\* at Depth, and read unaltered in the order in which they were accepted.
ImplementsFifo == Fifo!FifoSpec
==============================================================================
