----------------------- MODULE LocalMessageQueue_proofs -----------------------
(***************************************************************************)
(* Proofs about LocalMessageQueue, for any number of threads, buffers and  *)
(* messages and any depth.                                                 *)
(***************************************************************************)
EXTENDS LocalMessageQueue, FiniteSetTheorems, TLAPS

-----------------------------------------------------------------------------
(* Sequences used as queues.                                               *)

\* What push_back does to a list: one more element, at the end.
LEMMA PushBack ==
  ASSUME NEW S, NEW s \in Seq(S), NEW x
  PROVE  /\ Range(Append(s, x)) = Range(s) \cup {x}
         /\ x \notin Range(s) /\ IsInjective(s) => IsInjective(Append(s, x))
         /\ Len(Append(s, x)) = Len(s) + 1
         /\ x \in S => Append(s, x) \in Seq(S)
  BY DEF Range, IsInjective

\* A sequence's elements, and the sequences over a larger set.
LEMMA Elements ==
  ASSUME NEW S, NEW T, S \subseteq T, NEW s \in Seq(S)
  PROVE  Range(s) \subseteq S /\ s \in Seq(T)
  BY DEF Range

\* What pop_front does to a list without duplicates: its front is gone.
LEMMA PopFront ==
  ASSUME NEW S, NEW s \in Seq(S), s # <<>>
  PROVE  /\ Tail(s) \in Seq(S)
         /\ Head(s) \in S
         /\ Head(s) \in Range(s)
         /\ Len(Tail(s)) = Len(s) - 1
         /\ Range(s) = Range(Tail(s)) \cup {Head(s)}
         /\ IsInjective(s) => IsInjective(Tail(s)) /\ Head(s) \notin Range(Tail(s))
  <1>1. /\ Tail(s) \in Seq(S)
        /\ Head(s) \in S
        /\ Len(Tail(s)) = Len(s) - 1
        /\ Head(s) = s[1]
        /\ \A i \in 1 .. Len(s) - 1 : Tail(s)[i] = s[i + 1]
    OBVIOUS
  <1>2. DOMAIN s = 1 .. Len(s) /\ DOMAIN Tail(s) = 1 .. Len(s) - 1 /\ Len(s) \in Nat \ {0}
    BY <1>1
  <1>3. Range(s) = Range(Tail(s)) \cup {Head(s)}
    <2>1. ASSUME NEW i \in DOMAIN s PROVE s[i] \in Range(Tail(s)) \cup {Head(s)}
      <3>1. CASE i = 1
        BY <3>1, <1>1
      <3>2. CASE i # 1
        <4>1. i - 1 \in 1 .. Len(s) - 1 /\ s[i] = Tail(s)[i - 1]
          BY <3>2, <1>1, <1>2
        <4>2. QED
          BY <4>1, <1>2 DEF Range
      <3>3. QED
        BY <3>1, <3>2
    <2>2. ASSUME NEW i \in DOMAIN Tail(s) PROVE Tail(s)[i] \in Range(s)
      BY <1>1, <1>2 DEF Range
    <2>3. Head(s) \in Range(s)
      BY <1>1, <1>2 DEF Range
    <2>4. QED
      BY <2>1, <2>2, <2>3 DEF Range
  <1>4. ASSUME IsInjective(s) PROVE IsInjective(Tail(s)) /\ Head(s) \notin Range(Tail(s))
    BY <1>1, <1>2, <1>4 DEF Range, IsInjective
  <1>5. QED
    BY <1>1, <1>3, <1>4 DEF Range

-----------------------------------------------------------------------------
(* The inductive invariant: TypeOK and ExclusiveOwnership, and when a      *)
(* thread has a buffer.                                                    *)

\* A thread has a buffer exactly between allocating and sending it, and
\* between receiving and deallocating it.
Holding == {"WriteCopy", "Send", "ReadCopy", "Deallocate"}
PointerOK == \A t \in Threads : b[t] # NULL <=> pc[t] \in Holding

QueueInv == TypeOK /\ PointerOK /\ ExclusiveOwnership

\* ExclusiveOwnership, one thread's buffer at a time.
LEMMA OwnershipUnfolded ==
  ExclusiveOwnership <=>
    /\ IsInjective(pendingM)
    /\ IsInjective(inactiveM)
    /\ Range(pendingM) \cap Range(inactiveM) = {}
    /\ \A t \in Threads : b[t] # NULL =>
         /\ b[t] \notin Range(pendingM)
         /\ b[t] \notin Range(inactiveM)
         /\ \A s \in Threads : s # t => b[s] # b[t]
  BY DEF ExclusiveOwnership, Held

\* The buffer of a thread that has one.
LEMMA OwnBuffer ==
  ASSUME QueueInv, NEW t \in Threads, pc[t] \in Holding
  PROVE  /\ b[t] \in heap /\ b[t] # NULL
         /\ b[t] \notin Range(pendingM)
         /\ b[t] \notin Range(inactiveM)
         /\ \A s \in Threads : s # t => b[s] # b[t]
  BY OwnershipUnfolded DEF QueueInv, TypeOK, PointerOK

\* A thread that has none.
LEMMA NoBuffer ==
  ASSUME QueueInv, NEW t \in Threads, pc[t] \notin Holding
  PROVE  b[t] = NULL
  BY DEF QueueInv, PointerOK

\* A pointer `new` returned is not NULL.
LEMMA HeapNotNull == QueueInv => NULL \notin heap
  BY NullAssumption DEF QueueInv, TypeOK

\* The lists of a queue whose buffers have one owner each.
LEMMA Lists ==
  ASSUME QueueInv
  PROVE  /\ pendingM \in Seq(heap) /\ inactiveM \in Seq(heap)
         /\ IsInjective(pendingM) /\ IsInjective(inactiveM)
         /\ Range(pendingM) \subseteq heap /\ Range(inactiveM) \subseteq heap
         /\ Range(pendingM) \cap Range(inactiveM) = {}
  <1>1. pendingM \in Seq(heap) /\ inactiveM \in Seq(heap)
    BY DEF QueueInv, TypeOK
  <1>2. QED
    BY <1>1, Elements DEF QueueInv, ExclusiveOwnership

\* Initially nothing is allocated.
LEMMA InitQueueInv == Init => QueueInv
  <1> SUFFICES ASSUME Init PROVE QueueInv
    OBVIOUS
  <1>1. TypeOK
    BY DEF Init, TypeOK, Locking
  <1>2. PointerOK
    BY DEF Init, PointerOK, Holding
  <1>3. ExclusiveOwnership
    BY DEF Init, ExclusiveOwnership, Held, Range, IsInjective
  <1>4. QED
    BY <1>1, <1>2, <1>3 DEF QueueInv

\* A step that leaves the lists and the threads' pointers alone, and moves
\* threads between program points on the same side of Holding.
LEMMA PointersUnchanged ==
  ASSUME QueueInv, UNCHANGED <<pendingM, inactiveM, b, heap>>,
         \A t \in Threads : pc'[t] \in Holding <=> pc[t] \in Holding
  PROVE  PointerOK' /\ ExclusiveOwnership'
  BY DEF QueueInv, PointerOK, ExclusiveOwnership, Held

\* How the four steps that move a buffer between a list and a thread move it.
LEMMA AllocateInactiveMoves ==
  ASSUME QueueInv, NEW t \in Threads, AllocateInactive(t)
  PROVE  /\ b[t] = NULL /\ b' = [b EXCEPT ![t] = Head(inactiveM)]
         /\ Head(inactiveM) \in heap /\ Head(inactiveM) # NULL
         /\ Head(inactiveM) \notin Range(inactiveM')
         /\ Range(inactiveM) = Range(inactiveM') \cup {Head(inactiveM)}
         /\ inactiveM' \in Seq(heap) /\ IsInjective(inactiveM')
  <1>1. /\ b[t] = NULL /\ inactiveM # <<>> /\ inactiveM' = Tail(inactiveM)
        /\ b' = [b EXCEPT ![t] = Head(inactiveM)]
    BY NoBuffer DEF AllocateInactive, Holds, Holding
  <1>2. QED
    BY <1>1, PopFront, Lists, HeapNotNull

LEMMA TakeFrontMoves ==
  ASSUME QueueInv, NEW t \in Threads, Receive(t) \/ ReceiveWoken(t)
  PROVE  /\ b[t] = NULL /\ b' = [b EXCEPT ![t] = Head(pendingM)]
         /\ Head(pendingM) \in heap /\ Head(pendingM) # NULL
         /\ Head(pendingM) \notin Range(pendingM')
         /\ Range(pendingM) = Range(pendingM') \cup {Head(pendingM)}
         /\ pendingM' \in Seq(heap) /\ IsInjective(pendingM')
         /\ Len(pendingM') = Len(pendingM) - 1
  <1>1. /\ b[t] = NULL /\ pendingM # <<>> /\ pendingM' = Tail(pendingM)
        /\ b' = [b EXCEPT ![t] = Head(pendingM)]
    BY NoBuffer DEF Receive, ReceiveWoken, TakeFront, Holds, Holding
  <1>2. QED
    BY <1>1, PopFront, Lists, HeapNotNull

LEMMA SendMoves ==
  ASSUME QueueInv, NEW t \in Threads, Send(t)
  PROVE  /\ b[t] \in heap /\ b[t] # NULL /\ b' = [b EXCEPT ![t] = NULL]
         /\ b[t] \notin Range(pendingM) /\ b[t] \notin Range(inactiveM)
         /\ Range(pendingM') = Range(pendingM) \cup {b[t]}
         /\ pendingM' \in Seq(heap) /\ IsInjective(pendingM')
         /\ Len(pendingM') = Len(pendingM) + 1
  <1>1. /\ pc[t] \in Holding /\ pendingM' = Append(pendingM, b[t])
        /\ b' = [b EXCEPT ![t] = NULL]
    BY DEF Send, Holds, Holding
  <1>2. QED
    BY <1>1, PushBack, Lists, OwnBuffer

LEMMA DeallocateMoves ==
  ASSUME QueueInv, NEW t \in Threads, Deallocate(t)
  PROVE  /\ b[t] \in heap /\ b[t] # NULL /\ b' = [b EXCEPT ![t] = NULL]
         /\ b[t] \notin Range(pendingM) /\ b[t] \notin Range(inactiveM)
         /\ Range(inactiveM') = Range(inactiveM) \cup {b[t]}
         /\ inactiveM' \in Seq(heap) /\ IsInjective(inactiveM')
  <1>1. /\ pc[t] \in Holding /\ inactiveM' = Append(inactiveM, b[t])
        /\ b' = [b EXCEPT ![t] = NULL]
    BY DEF Deallocate, Holds, Holding
  <1>2. QED
    BY <1>1, PushBack, Lists, OwnBuffer

\* A thread that takes a buffer no thread has, from one list or the other:
\* what then remains of ExclusiveOwnership.
LEMMA TakesOwnership ==
  ASSUME QueueInv, NEW t \in Threads, NEW x, b' = [b EXCEPT ![t] = x],
         x \notin Range(pendingM'), x \notin Range(inactiveM'),
         \A s \in Threads : b[s] # x,
         Range(pendingM') \subseteq Range(pendingM),
         Range(inactiveM') \subseteq Range(inactiveM),
         IsInjective(pendingM'), IsInjective(inactiveM')
  PROVE  ExclusiveOwnership'
  <1>1. b \in [Threads -> heap \cup {NULL}]
    BY DEF QueueInv, TypeOK
  <1>2. QED
    BY <1>1, OwnershipUnfolded DEF QueueInv, ExclusiveOwnership, Held

\* A thread that gives its buffer up, to a list or to nobody.
LEMMA GivesOwnership ==
  ASSUME QueueInv, NEW t \in Threads, b[t] # NULL, b' = [b EXCEPT ![t] = NULL],
         Range(pendingM') \subseteq Range(pendingM) \cup {b[t]},
         Range(inactiveM') \subseteq Range(inactiveM) \cup {b[t]},
         Range(pendingM') \cap Range(inactiveM') = {},
         IsInjective(pendingM'), IsInjective(inactiveM')
  PROVE  ExclusiveOwnership'
  <1>1. \A s \in Threads : b'[s] # NULL => s # t /\ b'[s] = b[s]
    BY DEF QueueInv, TypeOK
  <1>2. \A s \in Threads : b'[s] # NULL =>
          b'[s] \notin Range(pendingM') /\ b'[s] \notin Range(inactiveM')
    BY <1>1, OwnershipUnfolded DEF QueueInv
  <1>3. \A r, s \in Threads : b'[r] # NULL /\ r # s => b'[s] # b'[r]
    BY <1>1, OwnershipUnfolded DEF QueueInv, TypeOK
  <1>4. QED
    BY <1>2, <1>3 DEF ExclusiveOwnership, Held

\* Every step preserves the invariant.
LEMMA NextQueueInv == QueueInv /\ [Next]_vars => QueueInv'
  <1> SUFFICES ASSUME QueueInv, [Next]_vars PROVE QueueInv'
    OBVIOUS
  <1> USE DEF QueueInv, TypeOK, Holds, Goto, unlock, lists, memory, locals
  <1>1. ASSUME NEW t \in Threads, lock(t) PROVE QueueInv'
    <2>1. TypeOK'
      BY <1>1 DEF lock
    <2>2. QED
      BY <2>1, <1>1, PointersUnchanged DEF lock
  <1>2. ASSUME NEW t \in Threads, Write(t) PROVE QueueInv'
    <2>1. TypeOK'
      BY <1>2 DEF Write, Locking
    <2>2. QED
      BY <2>1, <1>2, PointersUnchanged DEF Write, Holding
  <1>3. ASSUME NEW t \in Threads, AllocateInactive(t) PROVE QueueInv'
    <2>1. TypeOK'
      BY <1>3, AllocateInactiveMoves DEF AllocateInactive, Locking
    <2>2. PointerOK'
      BY <1>3, AllocateInactiveMoves DEF AllocateInactive, PointerOK, Holding
    <2>3. ExclusiveOwnership'
      <3> HIDE DEF QueueInv, TypeOK
      <3>1. \A s \in Threads : b[s] # Head(inactiveM)
        BY <1>3, AllocateInactiveMoves, OwnershipUnfolded DEF QueueInv
      <3>2. Head(inactiveM) \notin Range(pendingM) /\ pendingM' = pendingM
        BY <1>3, AllocateInactiveMoves, Lists DEF AllocateInactive
      <3>3. QED
        BY <1>3, <3>1, <3>2, AllocateInactiveMoves, Lists, TakesOwnership
    <2>4. QED
      BY <2>1, <2>2, <2>3
  <1>4. ASSUME NEW t \in Threads, AllocateNew(t) PROVE QueueInv'
    <2>1. PICK new \in Buffers \ heap :
             /\ heap' = heap \cup {new}
             /\ b' = [b EXCEPT ![t] = new]
      BY <1>4 DEF AllocateNew
    <2>2. b[t] = NULL /\ new # NULL
      BY <1>4, NullAssumption DEF AllocateNew, PointerOK, Holding
    <2>3. new \notin Range(pendingM) /\ new \notin Range(inactiveM)
      BY <2>1, Lists
    <2>4. pendingM' \in Seq(heap') /\ inactiveM' \in Seq(heap')
      <3>1. pendingM' = pendingM /\ inactiveM' = inactiveM /\ heap \subseteq heap'
        BY <1>4, <2>1 DEF AllocateNew
      <3>2. QED
        BY <3>1, Lists, Elements
    <2>5. TypeOK'
      BY <1>4, <2>1, <2>4 DEF AllocateNew, Locking
    <2>6. PointerOK'
      BY <1>4, <2>1, <2>2 DEF AllocateNew, PointerOK, Holding
    <2>7. ExclusiveOwnership'
      <3> HIDE DEF QueueInv, TypeOK
      <3>1. b \in [Threads -> heap \cup {NULL}] /\ \A s \in Threads : b[s] # new
        BY <2>1, <2>2 DEF QueueInv, TypeOK
      <3>2. b' = [b EXCEPT ![t] = new] /\ pendingM' = pendingM /\ inactiveM' = inactiveM
        BY <1>4, <2>1 DEF AllocateNew
      <3>3. QED
        BY <2>2, <2>3, <3>1, <3>2 DEF QueueInv, ExclusiveOwnership, Held
    <2>8. QED
      BY <2>5, <2>6, <2>7
  <1>5. ASSUME NEW t \in Threads, AllocateFails(t) \/ SendFails(t) \/ DeallocateFails(t)
        PROVE  QueueInv'
    BY <1>5, PointersUnchanged DEF AllocateFails, SendFails, DeallocateFails, Throws
  <1>6. ASSUME NEW t \in Threads, t \in Writers, WriteCopy(t) PROVE QueueInv'
    <2>1. TypeOK'
      BY <1>6 DEF WriteCopy, Locking
    <2>2. QED
      BY <2>1, <1>6, PointersUnchanged DEF WriteCopy, Holding
  <1>7. ASSUME NEW t \in Threads, SendRejected(t) PROVE QueueInv'
    <2>1. TypeOK'
      BY <1>7 DEF SendRejected
    <2>2. PointerOK'
      BY <1>7 DEF SendRejected, PointerOK, Holding
    <2>3. ExclusiveOwnership'
      BY <1>7 DEF SendRejected, ExclusiveOwnership, Held
    <2>4. QED
      BY <2>1, <2>2, <2>3
  <1>8. ASSUME NEW t \in Threads, Send(t) PROVE QueueInv'
    <2>1. /\ pc' \in [Threads -> Locking \cup {"Idle", "WriteCopy", "Wait", "ReadCopy"}]
          /\ \A s \in Threads \ {t} : pc'[s] \in Holding <=> pc[s] \in Holding
          /\ pc'[t] = "Idle"
      <3>1. CASE Waiting = {}
        BY <3>1, <1>8 DEF Send, Signalled
      <3>2. CASE Waiting # {}
        <4>1. PICK w \in Waiting : pc' = [pc EXCEPT ![t] = "Idle", ![w] = "Woken"]
          BY <3>2, <1>8 DEF Send, Signalled
        <4>2. w \in Threads /\ pc[w] = "Wait" /\ w # t
          BY <1>8 DEF Waiting, Send
        <4>3. QED
          BY <4>1, <4>2 DEF Locking, Holding
      <3>3. QED
        BY <3>1, <3>2
    <2>2. TypeOK'
      BY <1>8, <2>1, SendMoves DEF Send
    <2>3. PointerOK'
      BY <1>8, <2>1 DEF Send, PointerOK, Holding
    <2>4. ExclusiveOwnership'
      <3> HIDE DEF QueueInv, TypeOK
      <3>1. inactiveM' = inactiveM
        BY <1>8 DEF Send
      <3>2. QED
        BY <1>8, <3>1, SendMoves, Lists, GivesOwnership
    <2>5. QED
      BY <2>2, <2>3, <2>4
  <1>9. ASSUME NEW t \in Threads, Read(t) \/ IsAvailable(t) \/ Poll(t) PROVE QueueInv'
    <2>1. TypeOK'
      BY <1>9 DEF Read, IsAvailable, Poll, Locking
    <2>2. QED
      BY <2>1, <1>9, PointersUnchanged DEF Read, IsAvailable, Poll, Holding
  <1>10. ASSUME NEW t \in Threads, Receive(t) \/ ReceiveWoken(t) PROVE QueueInv'
    <2>1. TakeFront(t) /\ mutexM = t /\ pc[t] \in {"Receive", "Woken"}
      BY <1>10 DEF Receive, ReceiveWoken
    <2>2. TypeOK'
      BY <1>10, <2>1, TakeFrontMoves DEF TakeFront, Locking
    <2>3. PointerOK'
      BY <1>10, <2>1, TakeFrontMoves DEF TakeFront, PointerOK, Holding
    <2>4. ExclusiveOwnership'
      <3> HIDE DEF QueueInv, TypeOK
      <3>1. \A s \in Threads : b[s] # Head(pendingM)
        BY <1>10, TakeFrontMoves, OwnershipUnfolded DEF QueueInv
      <3>2. Head(pendingM) \notin Range(inactiveM) /\ inactiveM' = inactiveM
        BY <1>10, <2>1, TakeFrontMoves, Lists DEF TakeFront
      <3>3. QED
        BY <1>10, <3>1, <3>2, TakeFrontMoves, Lists, TakesOwnership
    <2>5. QED
      BY <2>2, <2>3, <2>4
  <1>11. ASSUME NEW t \in Threads,
                ReceiveWaits(t) \/ ReceiveWaitsAgain(t) \/ SpuriousWakeup(t)
         PROVE  QueueInv'
    <2>1. TypeOK'
      BY <1>11 DEF ReceiveWaits, ReceiveWaitsAgain, SpuriousWakeup, wait, Locking
    <2>2. QED
      BY <2>1, <1>11, PointersUnchanged
         DEF ReceiveWaits, ReceiveWaitsAgain, SpuriousWakeup, wait, Holding
  <1>12. ASSUME NEW t \in Threads, ReceivePopsEmpty(t) \/ ReceivePollPopsEmpty(t)
         PROVE  QueueInv'
    BY <1>12, PointersUnchanged DEF ReceivePopsEmpty, ReceivePollPopsEmpty
  <1>13. ASSUME NEW t \in Threads, ReadCopy(t) PROVE QueueInv'
    <2>1. b[t] \in Buffers
      BY <1>13 DEF ReadCopy, PointerOK, Holding
    <2>2. TypeOK'
      BY <1>13, <2>1 DEF ReadCopy, Locking
    <2>3. QED
      BY <2>2, <1>13, PointersUnchanged DEF ReadCopy, Holding
  <1>14. ASSUME NEW t \in Threads, Deallocate(t) PROVE QueueInv'
    <2>1. TypeOK'
      BY <1>14, DeallocateMoves DEF Deallocate
    <2>2. PointerOK'
      BY <1>14 DEF Deallocate, PointerOK, Holding
    <2>3. ExclusiveOwnership'
      <3> HIDE DEF QueueInv, TypeOK
      <3>1. pendingM' = pendingM
        BY <1>14 DEF Deallocate
      <3>2. QED
        BY <1>14, <3>1, DeallocateMoves, Lists, GivesOwnership
    <2>4. QED
      BY <2>1, <2>2, <2>3
  <1>15. ASSUME NEW t \in Threads, ReceivePoll(t) PROVE QueueInv'
    <2>1. b' = b
      BY <1>15 DEF ReceivePoll, PointerOK, Holding
    <2>2. TypeOK'
      BY <1>15, <2>1 DEF ReceivePoll
    <2>3. QED
      BY <2>1, <2>2, <1>15, PointersUnchanged DEF ReceivePoll, Holding
  <1>16. CASE UNCHANGED vars
    BY <1>16, PointersUnchanged DEF vars
  <1>17. QED
    BY <1>1, <1>2, <1>3, <1>4, <1>5, <1>6, <1>7, <1>8, <1>9, <1>10, <1>11, <1>12,
       <1>13, <1>14, <1>15, <1>16
       DEF Next, Ended, ThreadStep, WriterStep, ReaderStep, PollerStep, Threads

\* The invariant holds throughout.
LEMMA QueueInvHolds == Spec => []QueueInv
  BY InitQueueInv, NextQueueInv, PTL DEF Spec

\* Type correctness: no list holds, and no thread follows, a pointer that
\* `new` did not return.
THEOREM TypeCorrect == Spec => []TypeOK
  BY QueueInvHolds, PTL DEF QueueInv

\* Every buffer has one owner, so the copies Read and Write make without the
\* mutex never touch a buffer another thread is using.
THEOREM OwnershipIsExclusive == Spec => []ExclusiveOwnership
  BY QueueInvHolds, PTL DEF QueueInv

-----------------------------------------------------------------------------
(* No wakeup is lost.                                                      *)

\* There are finitely many threads on their way from wait().
LEMMA WokenFinite == IsFiniteSet(Woken) /\ Cardinality(Woken) \in Nat
  <1>1. Woken \subseteq Threads
    BY DEF Woken
  <1>2. IsFiniteSet(Threads)
    BY ThreadsAssumption DEF Threads
  <1>3. QED
    BY <1>1, <1>2, FS_Subset, FS_CardinalityType

\* A step which makes no thread wait, unwakes none, and adds no message.
LEMMA NoWaiterNoMessage ==
  ASSUME NoLostWakeup, Waiting' \subseteq Waiting, Woken' = Woken,
         pendingM' = pendingM
  PROVE  NoLostWakeup'
  BY DEF NoLostWakeup

\* Every step preserves NoLostWakeup.
LEMMA NextNoLostWakeup ==
  QueueInv /\ NoLostWakeup /\ [Next]_vars => NoLostWakeup'
  <1> SUFFICES ASSUME QueueInv, NoLostWakeup, [Next]_vars PROVE NoLostWakeup'
    OBVIOUS
  <1>0. pc \in [Threads -> Locking \cup {"Idle", "WriteCopy", "Wait", "ReadCopy"}]
    BY DEF QueueInv, TypeOK
  <1> USE DEF Holds, Goto, lists, memory, locals
  <1>1. CASE \E t \in Threads :
               \/ lock(t) \/ AllocateFails(t) \/ SendFails(t) \/ DeallocateFails(t)
               \/ ReceivePopsEmpty(t) \/ ReceivePollPopsEmpty(t)
    BY <1>1, NoWaiterNoMessage
       DEF lock, AllocateFails, SendFails, DeallocateFails, Throws, ReceivePopsEmpty, ReceivePollPopsEmpty, Waiting, Woken
  <1>2. CASE \E t \in Threads :
               Write(t) \/ AllocateInactive(t) \/ AllocateNew(t) \/ WriteCopy(t)
    <2>1. pendingM' = pendingM /\ Waiting' = Waiting /\ Woken' = Woken
      BY <1>0, <1>2 DEF Write, AllocateInactive, AllocateNew, WriteCopy, Waiting, Woken
    <2>2. QED
      BY <2>1, NoWaiterNoMessage
  <1>3. CASE \E t \in Threads :
               SendRejected(t) \/ Deallocate(t) \/ ReceivePoll(t) \/ ReadCopy(t)
    <2>1. pendingM' = pendingM /\ Waiting' = Waiting /\ Woken' = Woken
      BY <1>0, <1>3 DEF SendRejected, Deallocate, ReceivePoll, ReadCopy, Waiting, Woken
    <2>2. QED
      BY <2>1, NoWaiterNoMessage
  <1>4. CASE \E t \in Threads : Read(t) \/ IsAvailable(t) \/ Poll(t)
    <2>1. pendingM' = pendingM /\ Waiting' = Waiting /\ Woken' = Woken
      BY <1>0, <1>4 DEF Read, IsAvailable, Poll, Waiting, Woken
    <2>2. QED
      BY <2>1, NoWaiterNoMessage
  <1>5. ASSUME NEW t \in Threads, Send(t) PROVE NoLostWakeup'
    <2>1. CASE Waiting = {}
      <3>1. Waiting' = {}
        BY <2>1, <1>0, <1>5 DEF Send, Signalled, Waiting
      <3>2. QED
        BY <3>1 DEF NoLostWakeup
    <2>2. CASE Waiting # {}
      <3>1. PICK w \in Waiting : pc' = [pc EXCEPT ![t] = "Idle", ![w] = "Woken"]
        BY <2>2, <1>5 DEF Send, Signalled
      <3>2. w \in Threads /\ w \notin Woken /\ Woken' = Woken \cup {w}
        BY <3>1, <1>0, <1>5 DEF Waiting, Woken, Send
      <3>3. Cardinality(Woken') = Cardinality(Woken) + 1
        BY <3>2, WokenFinite, FS_AddElement
      <3>4. Len(pendingM') = Len(pendingM) + 1 /\ Len(pendingM) \in Nat
        BY <1>5, SendMoves, Lists
      <3>5. QED
        BY <2>2, <3>3, <3>4, WokenFinite DEF NoLostWakeup
    <2>3. QED
      BY <2>1, <2>2
  <1>6. ASSUME NEW t \in Threads, Receive(t) PROVE NoLostWakeup'
    <2>1. Waiting' = Waiting /\ Woken' = Woken
      BY <1>0, <1>6 DEF Receive, TakeFront, Waiting, Woken
    <2>2. Len(pendingM') = Len(pendingM) - 1 /\ Len(pendingM) \in Nat
      BY <1>6, TakeFrontMoves, Lists
    <2>3. QED
      BY <2>1, <2>2, WokenFinite DEF NoLostWakeup
  <1>7. ASSUME NEW t \in Threads, ReceiveWoken(t) PROVE NoLostWakeup'
    <2>1. Waiting' = Waiting /\ t \in Woken /\ Woken' = Woken \ {t}
      BY <1>0, <1>7 DEF ReceiveWoken, TakeFront, Waiting, Woken
    <2>2. Cardinality(Woken') = Cardinality(Woken) - 1
      BY <2>1, WokenFinite, FS_RemoveElement
    <2>3. Len(pendingM') = Len(pendingM) - 1 /\ Len(pendingM) \in Nat
      BY <1>7, TakeFrontMoves, Lists
    <2>4. QED
      BY <2>1, <2>2, <2>3, WokenFinite DEF NoLostWakeup
  <1>8. ASSUME NEW t \in Threads, ReceiveWaits(t) \/ ReceiveWaitsAgain(t)
        PROVE  NoLostWakeup'
    <2>1. Len(pendingM') = 0
      BY <1>8 DEF ReceiveWaits, ReceiveWaitsAgain, wait
    <2>2. Woken' \subseteq Threads /\ IsFiniteSet(Threads)
      BY ThreadsAssumption DEF Woken, Threads
    <2>3. Cardinality(Woken') \in Nat
      BY <2>2, FS_Subset, FS_CardinalityType
    <2>4. QED
      BY <2>1, <2>3 DEF NoLostWakeup
  <1>9. ASSUME NEW t \in Threads, SpuriousWakeup(t) PROVE NoLostWakeup'
    <2>1. t \notin Woken /\ Waiting # {} /\ Woken' = Woken \cup {t} /\ pendingM' = pendingM
      BY <1>0, <1>9 DEF SpuriousWakeup, Waiting, Woken
    <2>2. Cardinality(Woken') = Cardinality(Woken) + 1
      BY <2>1, WokenFinite, FS_AddElement
    <2>3. Len(pendingM) \in Nat
      BY Lists
    <2>4. QED
      BY <2>1, <2>2, <2>3, WokenFinite DEF NoLostWakeup
  <1>10. CASE UNCHANGED vars
    BY <1>10, NoWaiterNoMessage DEF vars, Waiting, Woken
  <1>11. QED
    BY <1>1, <1>2, <1>3, <1>4, <1>5, <1>6, <1>7, <1>8, <1>9, <1>10
       DEF Next, Ended, ThreadStep, WriterStep, ReaderStep, PollerStep, Threads

\* A blocked reader is never left behind with messages pending that no woken
\* thread is coming for, however many readers and writers there are and
\* however often wakeups are spurious.
THEOREM WakeupsAreNotLost == Spec => []NoLostWakeup
  <1>1. Init => NoLostWakeup
    BY DEF Init, NoLostWakeup, Waiting
  <1>2. QED
    BY <1>1, NextNoLostWakeup, QueueInvHolds, PTL DEF Spec

-----------------------------------------------------------------------------
(* Buffers are lost by rejected messages only.                             *)

\* A step that changes neither what is allocated nor what can be found.
LEMMA NothingLeaks ==
  ASSUME heap' = heap, Reachable' = Reachable
  PROVE  Leaked' = Leaked
  BY DEF Leaked

\* What a step does to the set of leaked buffers.
LEMMA NextLeaked ==
  ASSUME QueueInv, [Next]_vars
  PROVE  \/ Leaked' = Leaked
         \/ \E w \in Writers : /\ Holds(w, "Send") /\ Len(pendingM) >= Depth
                               /\ Leaked \subseteq Leaked'
                               /\ Leaked' \subseteq Leaked \cup {b[w]}
  <1>0. b \in [Threads -> heap \cup {NULL}]
    BY DEF QueueInv, TypeOK
  <1>1. CASE UNCHANGED <<pendingM, inactiveM, heap, b>>
    BY <1>1 DEF Leaked, Reachable, Held
  <1>2. ASSUME NEW t \in Threads, AllocateInactive(t) PROVE Leaked' = Leaked
    <2>1. Held' = Held \cup {Head(inactiveM)}
      BY <1>0, <1>2, AllocateInactiveMoves DEF Held
    <2>2. pendingM' = pendingM /\ heap' = heap
      BY <1>2 DEF AllocateInactive, memory
    <2>3. QED
      BY <1>2, <2>1, <2>2, AllocateInactiveMoves, NothingLeaks DEF Reachable
  <1>3. ASSUME NEW t \in Threads, AllocateNew(t) PROVE Leaked' = Leaked
    <2>1. PICK new \in Buffers \ heap :
             heap' = heap \cup {new} /\ b' = [b EXCEPT ![t] = new]
      BY <1>3 DEF AllocateNew
    <2>2. b[t] = NULL /\ new # NULL
      BY <1>3, NoBuffer, NullAssumption DEF AllocateNew, Holds, Holding
    <2>3. Held' = Held \cup {new}
      BY <1>0, <2>1, <2>2 DEF Held
    <2>4. Range(pendingM') = Range(pendingM) /\ Range(inactiveM') = Range(inactiveM)
      BY <1>3 DEF AllocateNew, lists
    <2>5. QED
      BY <2>1, <2>3, <2>4 DEF Leaked, Reachable
  <1>4. ASSUME NEW t \in Writers, SendRejected(t)
        PROVE  /\ Holds(t, "Send") /\ Len(pendingM) >= Depth
               /\ Leaked \subseteq Leaked' /\ Leaked' \subseteq Leaked \cup {b[t]}
    <2>1. /\ Holds(t, "Send") /\ Len(pendingM) >= Depth /\ heap' = heap
          /\ pendingM' = pendingM /\ inactiveM' = inactiveM
          /\ b' = [b EXCEPT ![t] = NULL]
      BY <1>4 DEF SendRejected, lists, memory
    <2>2. Held' \subseteq Held /\ Held \subseteq Held' \cup {b[t]}
      BY <1>0, <2>1 DEF Held, Threads
    <2>3. QED
      BY <2>1, <2>2 DEF Leaked, Reachable
  <1>5. ASSUME NEW t \in Threads, Send(t) PROVE Leaked' = Leaked
    <2>1. /\ Held' \subseteq Held /\ Held \subseteq Held' \cup {b[t]} /\ b[t] \in Held
      BY <1>0, <1>5, SendMoves DEF Held
    <2>2. inactiveM' = inactiveM /\ heap' = heap
      BY <1>5 DEF Send, memory
    <2>3. QED
      BY <1>5, <2>1, <2>2, SendMoves, NothingLeaks DEF Reachable
  <1>6. ASSUME NEW t \in Threads, Deallocate(t) PROVE Leaked' = Leaked
    <2>1. /\ Held' \subseteq Held /\ Held \subseteq Held' \cup {b[t]} /\ b[t] \in Held
      BY <1>0, <1>6, DeallocateMoves DEF Held
    <2>2. pendingM' = pendingM /\ heap' = heap
      BY <1>6 DEF Deallocate, memory
    <2>3. QED
      BY <1>6, <2>1, <2>2, DeallocateMoves, NothingLeaks DEF Reachable
  <1>7. ASSUME NEW t \in Threads, Receive(t) \/ ReceiveWoken(t) PROVE Leaked' = Leaked
    <2>1. Held' = Held \cup {Head(pendingM)}
      BY <1>0, <1>7, TakeFrontMoves DEF Held
    <2>2. inactiveM' = inactiveM /\ heap' = heap
      BY <1>7 DEF Receive, ReceiveWoken, TakeFront, memory
    <2>3. QED
      BY <1>7, <2>1, <2>2, TakeFrontMoves, NothingLeaks DEF Reachable
  <1>8. ASSUME NEW t \in Threads, ReceivePoll(t)
        PROVE  UNCHANGED <<pendingM, inactiveM, heap, b>>
    BY <1>0, <1>8, NoBuffer DEF ReceivePoll, Holds, Holding, lists, memory
  <1>9. QED
    BY <1>1, <1>2, <1>3, <1>4, <1>5, <1>6, <1>7, <1>8
       DEF Next, Ended, ThreadStep, WriterStep, ReaderStep, PollerStep, Threads, vars,
           lock, Write, AllocateFails, SendFails, DeallocateFails, Throws, WriteCopy,
           Read, IsAvailable, ReceiveWaits,
           ReceiveWaitsAgain, wait, ReceivePopsEmpty, SpuriousWakeup, ReadCopy, Poll,
           ReceivePollPopsEmpty, lists, memory, locals

\* Reading, and writing to a queue with room, never lose a buffer: the set of
\* buffers nobody can find grows only when a full queue rejects a message.
THEOREM LeaksAreRejections == Spec => LeakOnlyWhenFull
  <1>1. QueueInv /\ [Next]_vars =>
          [/\ Leaked \subseteq Leaked'
           /\ \A x \in Leaked' \ Leaked :
                /\ Len(pendingM) >= Depth
                /\ \E w \in Writers : Holds(w, "Send") /\ b[w] = x]_vars
    BY NextLeaked
  <1>2. QED
    BY <1>1, QueueInvHolds, PTL DEF Spec, LeakOnlyWhenFull

-----------------------------------------------------------------------------
(* A sole reader that asks first.                                          *)

\* Once a sole reader was told that a message is available, one is.
SoleReaderInv ==
  /\ NeverWaits
  /\ Woken = {}
  /\ \A t \in Threads : pc[t] = "Receive" => t \in Readers /\ pendingM # <<>>

\* The LED server's arrangement, one reader that calls IsAvailable and then
\* Read: it never blocks in Read, so it never comes to the wait loop of Receive
\* that may pop an empty list.
THEOREM SoleGuardedReader ==
  ASSUME NEW r, Readers = {r}, Guarded = {r}, Pollers = {}
  PROVE  Spec => []NeverWaits
  <1>1. Init => SoleReaderInv
    BY DEF Init, SoleReaderInv, NeverWaits, Waiting, Woken
  <1>2. QueueInv /\ SoleReaderInv /\ [Next]_vars => SoleReaderInv'
    <2> SUFFICES ASSUME QueueInv, SoleReaderInv, [Next]_vars PROVE SoleReaderInv'
      OBVIOUS
    <2>0. pc \in [Threads -> Locking \cup {"Idle", "WriteCopy", "Wait", "ReadCopy"}]
      BY DEF QueueInv, TypeOK
    <2> USE DEF Holds, Goto, lists, memory, locals, SoleReaderInv, NeverWaits,
                Waiting, Woken
    <2>1. CASE \E t \in Threads : lock(t)
      BY <2>1 DEF lock
    <2>2. CASE \E t \in Writers :
                 \/ Write(t) \/ AllocateInactive(t) \/ AllocateNew(t) \/ AllocateFails(t)
                 \/ WriteCopy(t) \/ SendRejected(t) \/ SendFails(t)
      BY <2>0, <2>2 DEF Write, AllocateInactive, AllocateNew, AllocateFails, WriteCopy,
                        SendRejected, SendFails, Throws
    <2>3. ASSUME NEW t \in Writers, Send(t) PROVE SoleReaderInv'
      <3>1. pc' = [pc EXCEPT ![t] = "Idle"] /\ fate' = fate
        BY <2>3 DEF Send, Signalled
      <3>2. pendingM' # <<>>
        <4>1. Len(pendingM') = Len(pendingM) + 1 /\ Len(pendingM) \in Nat
          BY <2>3, SendMoves, Lists DEF Threads
        <4>2. QED
          BY <4>1
      <3>3. QED
        BY <2>0, <3>1, <3>2
    <2>4. ASSUME NEW t \in Readers, Read(t) \/ IsAvailable(t) PROVE SoleReaderInv'
      BY <2>0, <2>4 DEF Read, IsAvailable
    <2>5. ASSUME NEW t \in Readers, Receive(t) PROVE SoleReaderInv'
      <3>1. pc' = [pc EXCEPT ![t] = "ReadCopy"] /\ fate' = fate
        BY <2>5 DEF Receive, TakeFront
      <3>2. QED
        BY <2>0, <3>1
    <2>6. ASSUME NEW t \in Readers,
                 \/ ReceiveWaits(t) \/ ReceiveWoken(t) \/ ReceiveWaitsAgain(t)
                 \/ ReceivePopsEmpty(t) \/ SpuriousWakeup(t)
          PROVE  FALSE
      BY <2>6 DEF ReceiveWaits, ReceiveWoken, ReceiveWaitsAgain, ReceivePopsEmpty,
                  SpuriousWakeup, Threads
    <2>7. ASSUME NEW t \in Readers, ReadCopy(t) \/ Deallocate(t) \/ DeallocateFails(t)
          PROVE  SoleReaderInv'
      BY <2>0, <2>7 DEF ReadCopy, Deallocate, DeallocateFails, Throws
    <2>8. CASE UNCHANGED vars
      BY <2>8 DEF vars
    <2>9. QED
      BY <2>1, <2>2, <2>3, <2>4, <2>5, <2>6, <2>7, <2>8
         DEF Next, Ended, ThreadStep, WriterStep, ReaderStep
  <1>3. QED
    BY <1>1, <1>2, QueueInvHolds, PTL DEF Spec, SoleReaderInv

-----------------------------------------------------------------------------
(* The queue implements BoundedFifo.                                       *)

\* What a queue of pointers stands for, after push_back and after pop_front.
LEMMA MappedPushBack ==
  ASSUME NEW S, NEW s \in Seq(S), NEW x, NEW f
  PROVE  [i \in DOMAIN Append(s, x) |-> f[Append(s, x)[i]]]
           = Append([i \in DOMAIN s |-> f[s[i]]], f[x])
  OBVIOUS

LEMMA MappedPopFront ==
  ASSUME NEW S, NEW s \in Seq(S), s # <<>>, NEW f
  PROVE  LET q == [i \in DOMAIN s |-> f[s[i]]]
         IN  /\ q # <<>> /\ Head(q) = f[Head(s)]
             /\ Tail(q) = [i \in DOMAIN Tail(s) |-> f[Tail(s)[i]]]
  OBVIOUS

\* A writer's buffer holds the writer's message when it is sent, and a writer
\* inside Write has a message.
MessageOK ==
  \A w \in Writers :
    /\ pc[w] = "Send" => content[b[w]] = buffer[w]
    /\ pc[w] # "Idle" => buffer[w] \in Msgs

\* Only the copies change what a buffer holds, and what a caller passed.
LEMMA NextMessageOK == QueueInv /\ MessageOK /\ [Next]_vars => MessageOK'
  <1> SUFFICES ASSUME QueueInv, MessageOK, [Next]_vars PROVE MessageOK'
    OBVIOUS
  <1>0. /\ pc \in [Threads -> Locking \cup {"Idle", "WriteCopy", "Wait", "ReadCopy"}]
        /\ buffer \in [Threads -> Msgs \cup {NULL}]
        /\ content \in [Buffers -> Msgs \cup {NULL}]
        /\ b \in [Threads -> heap \cup {NULL}]
    BY DEF QueueInv, TypeOK
  <1> USE DEF Holds, Goto, lists, memory, locals
  <1>1. CASE UNCHANGED <<pc, content, b, buffer>>
    BY <1>1 DEF MessageOK
  <1>2. ASSUME NEW t \in Writers, Write(t) PROVE MessageOK'
    <2>1. PICK m \in Msgs : buffer' = [buffer EXCEPT ![t] = m]
      BY <1>2 DEF Write
    <2>2. pc' = [pc EXCEPT ![t] = "Allocate"] /\ UNCHANGED <<content, b>>
      BY <1>2 DEF Write
    <2>3. QED
      BY <1>0, <2>1, <2>2 DEF MessageOK, Threads
  <1>3. ASSUME NEW t \in Writers, AllocateInactive(t) \/ AllocateNew(t) PROVE MessageOK'
    <2>1. /\ pc[t] = "Allocate" /\ pc' = [pc EXCEPT ![t] = "WriteCopy"]
          /\ \E x : b' = [b EXCEPT ![t] = x]
          /\ UNCHANGED <<content, buffer>>
      BY <1>3 DEF AllocateInactive, AllocateNew
    <2>2. QED
      BY <1>0, <2>1 DEF MessageOK, Threads
  <1>4. ASSUME NEW t \in Writers, WriteCopy(t) PROVE MessageOK'
    <2>1. /\ pc[t] = "WriteCopy" /\ pc' = [pc EXCEPT ![t] = "Send"]
          /\ content' = [content EXCEPT ![b[t]] = buffer[t]]
          /\ UNCHANGED <<b, buffer>>
      BY <1>4 DEF WriteCopy
    <2>2. b[t] \in Buffers /\ \A s \in Threads : s # t => b[s] # b[t]
      BY <2>1, OwnBuffer DEF Holding, Threads, QueueInv, TypeOK
    <2>3. QED
      BY <1>0, <2>1, <2>2 DEF MessageOK, Threads
  <1>5. ASSUME NEW t \in Threads,
               SendRejected(t) \/ Send(t) \/ Deallocate(t) \/ ReceivePoll(t)
        PROVE  MessageOK'
    <2>1. /\ \A w \in Threads : pc'[w] \in {pc[w], "Idle", "Woken"}
          /\ \A w \in Threads : pc'[w] = "Woken" => pc[w] # "Idle"
          /\ pc'[t] = "Idle"
      <3>1. CASE Send(t) /\ Waiting # {}
        <4>1. PICK w \in Waiting : pc' = [pc EXCEPT ![t] = "Idle", ![w] = "Woken"]
          BY <3>1 DEF Send, Signalled
        <4>2. QED
          BY <1>0, <3>1, <4>1 DEF Send, Waiting
      <3>2. CASE Send(t) /\ Waiting = {}
        BY <1>0, <3>2 DEF Send, Signalled
      <3>3. CASE SendRejected(t) \/ Deallocate(t) \/ ReceivePoll(t)
        BY <1>0, <3>3 DEF SendRejected, Deallocate, ReceivePoll
      <3>4. QED
        BY <1>5, <3>1, <3>2, <3>3
    <2>2. b' = [b EXCEPT ![t] = NULL] /\ UNCHANGED <<content, buffer>>
      BY <1>5 DEF SendRejected, Send, Deallocate, ReceivePoll
    <2>3. QED
      BY <1>0, <2>1, <2>2 DEF MessageOK, Threads
  <1>6. ASSUME NEW t \in Readers \cup Pollers,
               \/ Read(t) \/ IsAvailable(t) \/ Poll(t) \/ ReceiveWaits(t)
               \/ ReceiveWaitsAgain(t) \/ SpuriousWakeup(t)
        PROVE  MessageOK'
    <2>1. /\ \E l : pc' = [pc EXCEPT ![t] = l]
          /\ UNCHANGED <<content, b, buffer>>
      BY <1>6 DEF Read, IsAvailable, Poll, ReceiveWaits, ReceiveWaitsAgain, wait,
                  SpuriousWakeup
    <2>2. QED
      BY <1>0, <2>1, ThreadsAssumption DEF MessageOK, Threads
  <1>7. ASSUME NEW t \in Readers, Receive(t) \/ ReceiveWoken(t) \/ ReadCopy(t)
        PROVE  MessageOK'
    <2>1. /\ \E l : pc' = [pc EXCEPT ![t] = l]
          /\ \A w \in Writers : b'[w] = b[w] /\ buffer'[w] = buffer[w]
          /\ content' = content
      BY <1>0, <1>7, ThreadsAssumption
         DEF Receive, ReceiveWoken, TakeFront, ReadCopy, Threads
    <2>2. QED
      BY <1>0, <2>1, ThreadsAssumption DEF MessageOK, Threads
  <1>8. QED
    BY <1>1, <1>2, <1>3, <1>4, <1>5, <1>6, <1>7
       DEF Next, Ended, ThreadStep, WriterStep, ReaderStep, PollerStep, Threads, vars,
           lock, AllocateFails, SendFails, DeallocateFails, Throws,
           ReceivePopsEmpty, ReceivePollPopsEmpty

\* A step that leaves the queue, the buffers and every thread's view alone.
LEMMA FifoStutters ==
  ASSUME pendingM' = pendingM, content' = content,
         FifoOutbox' = FifoOutbox, FifoInbox' = FifoInbox
  PROVE  UNCHANGED Fifo!fifoVars
  BY DEF Fifo!fifoVars, FifoQueue

\* A step of the queue is a step of BoundedFifo, or changes nothing it sees.
LEMMA NextFifo ==
  QueueInv /\ MessageOK /\ [Next]_vars => [Fifo!FifoNext]_(Fifo!fifoVars)
  <1> SUFFICES ASSUME QueueInv, MessageOK, [Next]_vars
               PROVE  Fifo!FifoNext \/ UNCHANGED Fifo!fifoVars
    OBVIOUS
  <1>0. /\ pc \in [Threads -> Locking \cup {"Idle", "WriteCopy", "Wait", "ReadCopy"}]
        /\ buffer \in [Threads -> Msgs \cup {NULL}]
        /\ b \in [Threads -> heap \cup {NULL}]
        /\ content \in [Buffers -> Msgs \cup {NULL}]
        /\ Writers \cap (Readers \cup Pollers) = {}
    BY ThreadsAssumption DEF QueueInv, TypeOK
  <1> USE DEF Holds, Goto, lists, memory, locals
  <1>1. CASE UNCHANGED <<pendingM, pc, content, b, buffer>>
    BY <1>1, FifoStutters DEF FifoOutbox, FifoInbox
  <1>2. ASSUME NEW t \in Writers, Write(t) PROVE \E m \in Msgs : Fifo!Submit(t, m)
    <2>1. PICK m \in Msgs : buffer' = [buffer EXCEPT ![t] = m]
      BY <1>2 DEF Write
    <2>2. /\ pc[t] = "Idle" /\ pc' = [pc EXCEPT ![t] = "Allocate"]
          /\ UNCHANGED <<pendingM, content, b>>
      BY <1>2 DEF Write
    <2>3. FifoOutbox[t] = NULL /\ FifoOutbox' = [FifoOutbox EXCEPT ![t] = m]
      BY <1>0, <2>1, <2>2 DEF FifoOutbox, Threads
    <2>4. FifoInbox' = FifoInbox
      BY <1>0, <2>1, <2>2 DEF FifoInbox, Threads
    <2>5. FifoQueue' = FifoQueue
      BY <2>2 DEF FifoQueue
    <2>6. QED
      BY <2>3, <2>4, <2>5 DEF Fifo!Submit
  <1>3. ASSUME NEW t \in Writers, AllocateInactive(t) \/ AllocateNew(t)
        PROVE  UNCHANGED Fifo!fifoVars
    <2>1. /\ pc[t] = "Allocate" /\ pc' = [pc EXCEPT ![t] = "WriteCopy"]
          /\ \E x : b' = [b EXCEPT ![t] = x]
          /\ UNCHANGED <<pendingM, content, buffer>>
      BY <1>3 DEF AllocateInactive, AllocateNew
    <2>2. FifoOutbox' = FifoOutbox /\ FifoInbox' = FifoInbox
      BY <1>0, <2>1 DEF FifoOutbox, FifoInbox, Threads
    <2>3. QED
      BY <2>1, <2>2, FifoStutters
  <1>4. ASSUME NEW t \in Writers, WriteCopy(t) PROVE UNCHANGED Fifo!fifoVars
    <2>1. /\ pc[t] = "WriteCopy" /\ pc' = [pc EXCEPT ![t] = "Send"]
          /\ content' = [content EXCEPT ![b[t]] = buffer[t]]
          /\ UNCHANGED <<pendingM, b, buffer>>
      BY <1>4 DEF WriteCopy
    <2>2. /\ b[t] \notin Range(pendingM)
          /\ \A s \in Threads : s # t => b[s] # b[t]
      BY <2>1, OwnBuffer DEF Holding, Threads
    <2>3. \A i \in DOMAIN pendingM : content'[pendingM[i]] = content[pendingM[i]]
      BY <1>0, <2>1, <2>2 DEF Range
    <2>4. FifoQueue' = FifoQueue
      BY <2>1, <2>3 DEF FifoQueue
    <2>5. FifoOutbox' = FifoOutbox
      BY <1>0, <2>1 DEF FifoOutbox, Threads
    <2>6. \A r \in Readers : pc[r] = "ReadCopy" => content'[b[r]] = content[b[r]]
      BY <1>0, <2>1, <2>2 DEF Threads
    <2>7. FifoInbox' = FifoInbox
      BY <1>0, <2>1, <2>6 DEF FifoInbox, Threads
    <2>8. QED
      BY <2>4, <2>5, <2>7 DEF Fifo!fifoVars
  <1>5. ASSUME NEW t \in Writers, SendRejected(t) PROVE Fifo!Reject(t)
    <2>1. /\ pc[t] = "Send" /\ pc' = [pc EXCEPT ![t] = "Idle"]
          /\ b' = [b EXCEPT ![t] = NULL] /\ Len(pendingM) >= Depth
          /\ UNCHANGED <<pendingM, content, buffer>>
      BY <1>5 DEF SendRejected
    <2>2. FifoOutbox[t] # NULL /\ FifoOutbox' = [FifoOutbox EXCEPT ![t] = NULL]
      BY <1>0, <2>1, NullAssumption DEF FifoOutbox, MessageOK, Threads
    <2>3. FifoInbox' = FifoInbox
      BY <1>0, <2>1 DEF FifoInbox, Threads
    <2>4. FifoQueue' = FifoQueue /\ Len(FifoQueue) = Len(pendingM)
      BY <2>1, Lists DEF FifoQueue
    <2>5. QED
      BY <2>1, <2>2, <2>3, <2>4 DEF Fifo!Reject
  <1>6. ASSUME NEW t \in Writers, Send(t) PROVE Fifo!Accept(t)
    <2>1. /\ pc[t] = "Send" /\ b' = [b EXCEPT ![t] = NULL]
          /\ Len(pendingM) < Depth /\ pendingM' = Append(pendingM, b[t])
          /\ UNCHANGED <<content, buffer>>
      BY <1>6 DEF Send
    <2>2. /\ pc'[t] = "Idle"
          /\ \A s \in Threads \ {t} : pc'[s] = pc[s] \/ (pc[s] = "Wait" /\ pc'[s] = "Woken")
      <3>1. CASE Waiting = {}
        BY <1>0, <1>6, <3>1 DEF Send, Signalled, Threads
      <3>2. CASE Waiting # {}
        <4>1. PICK w \in Waiting : pc' = [pc EXCEPT ![t] = "Idle", ![w] = "Woken"]
          BY <1>6, <3>2 DEF Send, Signalled
        <4>2. QED
          BY <1>0, <2>1, <4>1 DEF Waiting, Threads
      <3>3. QED
        BY <3>1, <3>2
    <2>3. buffer[t] # NULL /\ buffer[t] = content[b[t]]
      BY <2>1, NullAssumption DEF MessageOK
    <2>4. FifoOutbox[t] = buffer[t] /\ FifoOutbox' = [FifoOutbox EXCEPT ![t] = NULL]
      BY <1>0, <2>1, <2>2 DEF FifoOutbox, Threads
    <2>5. FifoInbox' = FifoInbox
      BY <1>0, <2>1, <2>2 DEF FifoInbox, Threads
    <2>6. FifoQueue' = Append(FifoQueue, content[b[t]]) /\ Len(FifoQueue) = Len(pendingM)
      <3>1. FifoQueue' = [i \in DOMAIN Append(pendingM, b[t]) |->
                            content[Append(pendingM, b[t])[i]]]
        BY <2>1 DEF FifoQueue
      <3>2. QED
        BY <3>1, Lists, MappedPushBack DEF FifoQueue
    <2>7. QED
      BY <2>1, <2>3, <2>4, <2>5, <2>6 DEF Fifo!Accept
  <1>7. ASSUME NEW t \in Readers \cup Pollers,
               \/ Read(t) \/ IsAvailable(t) \/ Poll(t) \/ ReceiveWaits(t)
               \/ ReceiveWaitsAgain(t) \/ SpuriousWakeup(t) \/ ReceivePoll(t)
               \/ Deallocate(t)
        PROVE  UNCHANGED Fifo!fifoVars
    <2>1. /\ pc[t] # "ReadCopy"
          /\ \E l : l # "ReadCopy" /\ pc' = [pc EXCEPT ![t] = l]
          /\ \A s \in Threads \ {t} : b'[s] = b[s]
          /\ UNCHANGED <<pendingM, content, buffer>>
      BY <1>0, <1>7 DEF Read, IsAvailable, Poll, ReceiveWaits, ReceiveWaitsAgain, wait,
                  SpuriousWakeup, ReceivePoll, Deallocate, Threads
    <2>2. FifoOutbox' = FifoOutbox /\ FifoInbox' = FifoInbox
      BY <1>0, <2>1 DEF FifoOutbox, FifoInbox, Threads
    <2>3. QED
      BY <2>1, <2>2, FifoStutters
  <1>8. ASSUME NEW t \in Readers, Receive(t) \/ ReceiveWoken(t) PROVE Fifo!Take(t)
    <2>1. /\ pendingM # <<>> /\ pendingM' = Tail(pendingM)
          /\ b' = [b EXCEPT ![t] = Head(pendingM)]
          /\ pc' = [pc EXCEPT ![t] = "ReadCopy"]
          /\ UNCHANGED <<content, buffer>>
      BY <1>8 DEF Receive, ReceiveWoken, TakeFront
    <2>2. /\ FifoQueue # <<>> /\ Head(FifoQueue) = content[Head(pendingM)]
          /\ FifoQueue' = Tail(FifoQueue)
      BY <2>1, Lists, MappedPopFront DEF FifoQueue
    <2>3. FifoInbox' = [FifoInbox EXCEPT ![t] = content[Head(pendingM)]]
      BY <1>0, <2>1 DEF FifoInbox, Threads
    <2>4. FifoOutbox' = FifoOutbox
      BY <1>0, <2>1 DEF FifoOutbox, Threads
    <2>5. QED
      BY <2>2, <2>3, <2>4 DEF Fifo!Take
  <1>9. ASSUME NEW t \in Readers, ReadCopy(t) PROVE UNCHANGED Fifo!fifoVars
    <2>1. /\ pc[t] = "ReadCopy" /\ pc' = [pc EXCEPT ![t] = "Deallocate"]
          /\ buffer' = [buffer EXCEPT ![t] = content[b[t]]]
          /\ UNCHANGED <<pendingM, content, b>>
      BY <1>9 DEF ReadCopy
    <2>2. FifoOutbox' = FifoOutbox /\ FifoInbox' = FifoInbox
      BY <1>0, <2>1 DEF FifoOutbox, FifoInbox, Threads
    <2>3. QED
      BY <2>1, <2>2, FifoStutters
  <1>10. QED
    BY <1>1, <1>2, <1>3, <1>4, <1>5, <1>6, <1>7, <1>8, <1>9
       DEF Next, Ended, ThreadStep, WriterStep, ReaderStep, PollerStep, Threads, vars,
           lock, AllocateFails, SendFails, DeallocateFails, Throws,
           ReceivePopsEmpty, ReceivePollPopsEmpty, Fifo!FifoNext

\* The queue implements BoundedFifo, for any number of readers and writers, any
\* depth and any number of spurious wakeups: what Read returns is what Write
\* was given, in order, none twice, and Write fails only on a full queue.
THEOREM QueueImplementsFifo == Spec => ImplementsFifo
  <1>1. Init => MessageOK /\ Fifo!FifoInit
    <2> SUFFICES ASSUME Init PROVE MessageOK /\ Fifo!FifoInit
      OBVIOUS
    <2>1. MessageOK
      BY DEF Init, MessageOK, Threads
    <2>2. FifoQueue = <<>>
      BY DEF Init, FifoQueue
    <2>3. FifoOutbox = [w \in Writers |-> NULL] /\ FifoInbox = [r \in Readers |-> NULL]
      BY DEF Init, FifoOutbox, FifoInbox, Threads
    <2>4. QED
      BY <2>1, <2>2, <2>3 DEF Fifo!FifoInit
  <1>2. Spec => []MessageOK
    BY <1>1, NextMessageOK, QueueInvHolds, PTL DEF Spec
  <1>3. QED
    BY <1>1, <1>2, NextFifo, QueueInvHolds, PTL DEF Spec, ImplementsFifo, Fifo!FifoSpec

-----------------------------------------------------------------------------
(* The pool of buffers is bounded.                                         *)

\* A finite function has no more values than arguments.
LEMMA FewValues ==
  ASSUME NEW S, IsFiniteSet(S), NEW T, NEW f \in [S -> T]
  PROVE  IsFiniteSet(Range(f)) /\ Cardinality(Range(f)) <= Cardinality(S)
  <1>1. f \in Surjection(S, Range(f))
    BY DEF Surjection, Range
  <1>2. QED
    BY <1>1, FS_Surjection

\* A sequence has as many positions as it is long.
LEMMA Positions ==
  ASSUME NEW n \in Nat
  PROVE  IsFiniteSet(1 .. n) /\ Cardinality(1 .. n) = n
  BY FS_Interval

\* When no buffer is unused, somebody has each buffer that can still be found:
\* they are at most the pending messages and one for each thread.
LEMMA FullPool ==
  QueueInv /\ Len(pendingM) <= Depth /\ inactiveM = <<>>
    => IsFiniteSet(heap \ Leaked) /\ PoolBounded
  <1> SUFFICES ASSUME QueueInv, Len(pendingM) <= Depth, inactiveM = <<>>
               PROVE  IsFiniteSet(heap \ Leaked) /\ PoolBounded
    OBVIOUS
  <1>1. /\ pendingM \in [1 .. Len(pendingM) -> heap] /\ Len(pendingM) \in Nat
        /\ b \in [Threads -> heap \cup {NULL}] /\ Range(inactiveM) = {}
    <2>1. pendingM \in Seq(heap)
      BY Lists
    <2>2. b \in [Threads -> heap \cup {NULL}]
      BY DEF QueueInv, TypeOK
    <2>3. Range(inactiveM) = {}
      BY DEF Range
    <2>4. QED
      BY <2>1, <2>2, <2>3
  <1>2. /\ IsFiniteSet(Range(pendingM)) /\ Cardinality(Range(pendingM)) \in Nat
        /\ Cardinality(Range(pendingM)) <= Len(pendingM)
    <2>1. /\ IsFiniteSet(1 .. Len(pendingM))
          /\ Cardinality(1 .. Len(pendingM)) = Len(pendingM)
      BY <1>1, Positions
    <2>2. /\ IsFiniteSet(Range(pendingM))
          /\ Cardinality(Range(pendingM)) <= Cardinality(1 .. Len(pendingM))
      BY <1>1, <2>1, FewValues
    <2>3. QED
      BY <2>1, <2>2, FS_CardinalityType
  <1>3. /\ IsFiniteSet(Threads) /\ Cardinality(Threads) \in Nat
        /\ IsFiniteSet(Range(b)) /\ Cardinality(Range(b)) \in Nat
        /\ Cardinality(Range(b)) <= Cardinality(Threads)
    BY <1>1, FewValues, FS_CardinalityType, ThreadsAssumption DEF Threads
  <1>4. heap \ Leaked \in SUBSET (Range(pendingM) \cup Range(b))
    BY <1>1 DEF Leaked, Reachable, Held, Range
  <1>5. /\ IsFiniteSet(Range(pendingM) \cup Range(b))
        /\ Cardinality(Range(pendingM) \cup Range(b)) \in Nat
        /\ Cardinality(Range(pendingM) \cup Range(b))
             <= Cardinality(Range(pendingM)) + Cardinality(Range(b))
    <2>1. /\ IsFiniteSet(Range(pendingM) \cap Range(b))
          /\ Cardinality(Range(pendingM) \cap Range(b)) \in Nat
      BY <1>2, FS_Subset, FS_CardinalityType
    <2>2. /\ IsFiniteSet(Range(pendingM) \cup Range(b))
          /\ Cardinality(Range(pendingM) \cup Range(b))
               = Cardinality(Range(pendingM)) + Cardinality(Range(b))
                   - Cardinality(Range(pendingM) \cap Range(b))
      BY <1>2, <1>3, FS_Union
    <2>3. Cardinality(Range(pendingM) \cup Range(b)) \in Nat
      BY <2>2, FS_CardinalityType
    <2>4. QED
      BY <1>2, <1>3, <2>1, <2>2, <2>3
  <1>6. /\ IsFiniteSet(heap \ Leaked) /\ Cardinality(heap \ Leaked) \in Nat
        /\ Cardinality(heap \ Leaked) <= Cardinality(Range(pendingM) \cup Range(b))
    BY <1>4, <1>5, FS_Subset, FS_CardinalityType
  <1>7. Depth \in Nat
    BY DepthAssumption
  <1>8. QED
    BY <1>1, <1>2, <1>3, <1>5, <1>6, <1>7 DEF PoolBounded

\* The pool is finite and bounded, and so is the queue, which is what keeps an
\* Allocate that finds no unused buffer within the bound.
PoolInv == Len(pendingM) <= Depth /\ IsFiniteSet(heap \ Leaked) /\ PoolBounded

\* A step by which no more buffers can be found.
LEMMA PoolShrinks ==
  ASSUME PoolInv, heap' \ Leaked' \in SUBSET (heap \ Leaked), Len(pendingM') <= Depth
  PROVE  PoolInv'
  <1>1. /\ IsFiniteSet(heap' \ Leaked')
        /\ Cardinality(heap' \ Leaked') <= Cardinality(heap \ Leaked)
        /\ Cardinality(heap' \ Leaked') \in Nat /\ Cardinality(heap \ Leaked) \in Nat
    BY FS_Subset, FS_CardinalityType DEF PoolInv
  <1>2. Depth \in Nat /\ Cardinality(Threads) \in Nat
    BY DepthAssumption, ThreadsAssumption, FS_CardinalityType DEF Threads
  <1>3. QED
    BY <1>1, <1>2 DEF PoolInv, PoolBounded

\* Every step keeps the bound: only AllocateNew adds a buffer, and then none is
\* unused.
LEMMA NextPoolInv == QueueInv /\ PoolInv /\ [Next]_vars => PoolInv'
  <1> SUFFICES ASSUME QueueInv, PoolInv, [Next]_vars PROVE PoolInv'
    OBVIOUS
  <1>1. QueueInv'
    BY NextQueueInv
  <1>2. Len(pendingM) \in Nat /\ Depth \in Nat /\ Len(pendingM) <= Depth
    BY DepthAssumption, Lists DEF PoolInv
  <1>3. ASSUME NEW t \in Threads, AllocateNew(t) PROVE PoolInv'
    <2>1. pendingM' = pendingM /\ inactiveM' = <<>>
      BY <1>3 DEF AllocateNew, lists
    <2>2. Len(pendingM') <= Depth
      BY <1>2, <2>1
    <2>3. (QueueInv /\ Len(pendingM) <= Depth /\ inactiveM = <<>>
             => IsFiniteSet(heap \ Leaked) /\ PoolBounded)'
      BY FullPool, PTL
    <2>4. QED
      BY <1>1, <2>1, <2>2, <2>3 DEF PoolInv
  <1>4. ASSUME heap' = heap, Len(pendingM') <= Depth PROVE PoolInv'
    BY <1>4, NextLeaked, PoolShrinks
  <1>5. ASSUME NEW t \in Threads, Send(t) PROVE heap' = heap /\ Len(pendingM') <= Depth
    BY <1>2, <1>5, SendMoves DEF Send, memory
  <1>6. ASSUME NEW t \in Threads, Receive(t) \/ ReceiveWoken(t)
        PROVE  heap' = heap /\ Len(pendingM') <= Depth
    BY <1>2, <1>6, TakeFrontMoves DEF Receive, ReceiveWoken, TakeFront, memory
  <1>7. CASE UNCHANGED <<pendingM, heap>>
    BY <1>2, <1>4, <1>7
  <1>8. QED
    BY <1>3, <1>4, <1>5, <1>6, <1>7
       DEF Next, Ended, ThreadStep, WriterStep, ReaderStep, PollerStep, Threads, vars,
           lock, Write, AllocateInactive, AllocateFails, SendFails, DeallocateFails, Throws,
           WriteCopy, SendRejected, Read,
           IsAvailable, ReceiveWaits, ReceiveWaitsAgain, wait, ReceivePopsEmpty,
           SpuriousWakeup, ReadCopy, Deallocate, Poll, ReceivePoll,
           ReceivePollPopsEmpty, lists, memory, locals

\* Allocate recycles: whatever is leaked, the buffers that can still be found
\* are never more than the depth of the queue and one for each thread.
THEOREM PoolIsBounded == Spec => []PoolBounded
  <1>1. Init => PoolInv
    <2> SUFFICES ASSUME Init PROVE PoolInv
      OBVIOUS
    <2>1. Len(pendingM) <= Depth /\ inactiveM = <<>>
      BY DepthAssumption DEF Init
    <2>2. QED
      BY <2>1, InitQueueInv, FullPool DEF PoolInv
  <1>2. PoolInv => PoolBounded
    BY DEF PoolInv
  <1>3. QED
    BY <1>1, <1>2, NextPoolInv, QueueInvHolds, PTL DEF Spec


===============================================================================
