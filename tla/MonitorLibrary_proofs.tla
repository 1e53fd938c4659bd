----------------------- MODULE MonitorLibrary_proofs -----------------------
(***************************************************************************)
(* Proofs about MonitorLibrary, for any tasks, any functions they call and *)
(* any monitor.                                                            *)
(*                                                                         *)
(* FramesInv says in which wrappers a task can be; it holds always.        *)
(* PointersInv, what a task that has tested a pointer to the lock may rely *)
(* on, holds until the locks are changed while a task is in the library.   *)
(* DoorOK, what the back door can look like, and HoldersOK, who has the    *)
(* lock, hold as long as the library is used properly.                     *)
(***************************************************************************)
EXTENDS MonitorLibrary, SequenceTheorems, FiniteSetTheorems, TLAPS

Stages ==
  {"out", "lock", "count", "store", "call", "wait", "enter", "inside", "unlock", "uncount",
   "unstore", "release"}

\* Stages that only the wrappers with a lock have.
LockStages ==
  {"lock", "count", "store", "call", "wait", "unlock", "uncount", "unstore", "release"}

\* The stages of a task that has tested a pointer and is about to call through it.
LockTested == {"call", "wait"}
UnlockTested == {"uncount", "unstore", "release"}

Idle(t) == frames[t] = <<>> /\ At(t, "out")
Single(t) == ~At(t, "out") /\ \E f \in Wrappers : frames[t] = <<f>>
Nested(t) ==
  t = Cli /\ ~At(t, "out") /\ \E f \in Wrappers \ {"docommand"} : frames[t] = <<f, "docommand">>

FramesOK(t) ==
  /\ Idle(t) \/ Single(t) \/ Nested(t)
  /\ stage[t] \in LockStages => frames[t][1] \notin Unlocked
  /\ rc = -1 => At(t, "out")

FramesInv ==
  /\ stage \in [Tasks -> Stages]
  /\ frames \in [Tasks -> Seq(Wrappers)]
  /\ \A t \in Tasks : FramesOK(t)

ConnectedInv ==
  /\ rc \in Nat \cup {-1}
  /\ rc = 0 => Wrappers \subseteq connected
  /\ relocked \in BOOLEAN
  /\ crashed => rc > 0 \/ relocked

\* Only the first monConnect fetches pointers.
ConnectingInv == connecting = "pointers" => rc = -1

\* Until a careless change of the locks, no task is in the library between the two
\* stores, so that each finds the pointer it has tested.
PointersInv ==
  /\ monlock \in BOOLEAN /\ monunlock \in BOOLEAN
  /\ connecting \in {"no", "unlock", "pointers"}
  /\ connecting # "unlock" => monunlock = monlock
  /\ ~relocked =>
       /\ connecting = "unlock" => \A t \in Tasks : At(t, "out")
       /\ \A t \in Tasks : /\ stage[t] \in LockTested => monlock
                           /\ stage[t] \in UnlockTested => monunlock

\* ignorelock and what is read of it.
CountInv ==
  /\ ignorelock \in Int /\ ignorelock <= 2
  /\ read \in [Tasks -> Int] /\ \A t \in Tasks : read[t] <= 2

DoorOK ==
  /\ ignorelock \in {0, 1, 2}
  /\ opened \in BOOLEAN
  /\ (ignorelock # 0) <=> opened
  /\ opened => Nested(Cli) \/ InCommand
  /\ Nested(Cli) => opened /\ stage[Cli] \in {"lock", "count", "store", "enter", "inside", "unlock"}
  /\ Nested(Cli) /\ monlock /\ frames[Cli][1] \notin Unlocked
       /\ stage[Cli] \in {"enter", "inside", "unlock"} => ignorelock = 1
  /\ \A t \in Tasks :
       /\ At(t, "count") \/ At(t, "store") => t = Cli /\ Nested(t) /\ ignorelock = 2 /\ monlock
       /\ At(t, "store") => read[t] = 2
       /\ ~At(t, "uncount") /\ ~At(t, "unstore")

\* The task has the lock, taken by its outermost wrapper.
Holds(t) ==
  /\ monlock
  /\ \/ Nested(t)
     \/ /\ Single(t) /\ frames[t][1] \notin Unlocked
        /\ stage[t] \in {"enter", "inside", "unlock", "release"}

HoldersOK ==
  /\ took \in [Tasks -> {0, 1}]
  /\ tokens \in {0, 1}
  /\ \A t \in Tasks : stage[t] \in LockTested \/ At(t, "release") => monlock
  /\ \A t \in Tasks : took[t] = 1 <=> Holds(t)
  /\ \A t, u \in Tasks : Holds(t) /\ Holds(u) => t = u
  /\ tokens = 1 <=> \A t \in Tasks : ~Holds(t)

MonitorInv ==
  /\ misused \in BOOLEAN /\ relocked \in BOOLEAN
  /\ Proper => DoorOK /\ HoldersOK

-----------------------------------------------------------------------------
(* Where the tasks are.                                                    *)

LEMMA TheWrappers ==
  /\ Cli \in Tasks
  /\ Called \subseteq Wrappers
  /\ Wrappers \subseteq GetMonFunc \cup {"com"}
  /\ "docommand" \in Wrappers /\ "docommand" \notin Unlocked
<1>1. Wrappers \subseteq GetMonFunc \cup {"com"}
  <2>1. ConsoleCalls \cup EnvironmentCalls \cup TfsCalls \subseteq GetMonFunc \cup {"com"}
    BY DEF ConsoleCalls, EnvironmentCalls, TfsCalls, GetMonFunc
  <2>2. FileCalls \cup CommandCalls \cup HeapCalls \subseteq GetMonFunc \cup {"com"}
    BY DEF FileCalls, CommandCalls, HeapCalls, GetMonFunc
  <2>3. Unlocked \cup BusCalls \cup DeviceCalls \subseteq GetMonFunc \cup {"com"}
    BY DEF Unlocked, BusCalls, DeviceCalls, GetMonFunc
  <2> QED
    BY <2>1, <2>2, <2>3 DEF Wrappers
<1>2. "docommand" \in Wrappers /\ "docommand" \notin Unlocked
  BY DEF Wrappers, CommandCalls, Unlocked
<1> QED
  BY <1>1, <1>2, MonitorAssumption

\* A task goes on within its innermost wrapper.
LEMMA Moves ==
  ASSUME FramesInv, NEW t \in Tasks, ~At(t, "out"), NEW s \in Stages \ {"out"},
         s \in LockStages => frames[t][1] \notin Unlocked,
         Goto(t, s), frames' = frames, rc' = rc
  PROVE  /\ FramesInv'
         /\ stage'[t] = s /\ frames'[t] = frames[t]
         /\ \A u \in Tasks \ {t} : frames'[u] = frames[u] /\ stage'[u] = stage[u]
<1>1. stage' \in [Tasks -> Stages] /\ stage'[t] = s
      /\ \A u \in Tasks \ {t} : stage'[u] = stage[u]
  BY DEF FramesInv, Goto
<1>2. ASSUME NEW u \in Tasks
      PROVE  FramesOK(u)'
  BY <1>1 DEF FramesInv, FramesOK, Idle, Single, Nested, At, Stages
<1> QED
  BY <1>1, <1>2 DEF FramesInv

\* A task enters a wrapper, from the application or from a command.
LEMMA Enters ==
  ASSUME FramesInv, NEW t \in Tasks, NEW f \in Wrappers, EnterWrapper(t, f),
         rc' = rc, rc # -1,
         At(t, "out") \/ (t = Cli /\ InCommand /\ f # "docommand")
  PROVE  /\ FramesInv'
         /\ \A u \in Tasks \ {t} : frames'[u] = frames[u] /\ stage'[u] = stage[u]
         /\ frames'[t] = IF At(t, "out") THEN <<f>> ELSE <<f, "docommand">>
         /\ stage'[t] = IF f \in Unlocked THEN "enter" ELSE "lock"
<1>1. /\ stage' \in [Tasks -> Stages]
      /\ \A u \in Tasks \ {t} : stage'[u] = stage[u]
      /\ stage'[t] = IF f \in Unlocked THEN "enter" ELSE "lock"
  BY DEF FramesInv, EnterWrapper, Goto, Stages
<1>2. /\ frames' \in [Tasks -> Seq(Wrappers)]
      /\ \A u \in Tasks \ {t} : frames'[u] = frames[u]
      /\ frames'[t] = <<f>> \o frames[t]
  BY DEF FramesInv, EnterWrapper
<1>3. CASE At(t, "out")
  <2>1. frames[t] = <<>>
    BY <1>3 DEF FramesInv, FramesOK, Idle, Single, Nested
  <2>2. frames'[t] = <<f>>
    BY <1>2, <2>1
  <2>3. FramesOK(t)'
    BY <1>1, <2>2 DEF FramesOK, Single, At, LockStages
  <2> QED
    BY <1>1, <1>2, <1>3, <2>2, <2>3 DEF FramesInv, FramesOK, Idle, Single, Nested, At
<1>4. CASE ~At(t, "out") /\ t = Cli /\ InCommand /\ f # "docommand"
  <2>1. frames[t] = <<"docommand">>
    BY <1>4 DEF InCommand
  <2>2. frames'[t] = <<f, "docommand">>
    <3>1. ASSUME NEW g \in Wrappers
          PROVE  <<f>> \o <<g>> = <<f, g>>
      <4>1. <<f>> \in Seq(Wrappers) /\ <<g>> \in Seq(Wrappers) /\ <<f, g>> \in Seq(Wrappers)
        OBVIOUS
      <4>2. Len(<<f>> \o <<g>>) = 2 /\ Len(<<f, g>>) = 2
        BY <4>1, ConcatProperties
      <4>3. \A i \in 1 .. 2 : (<<f>> \o <<g>>)[i] = <<f, g>>[i]
        BY <4>1, ConcatProperties
      <4> QED
        BY <4>1, <4>2, <4>3, ConcatProperties, SeqEqual
    <3> QED
      BY <1>2, <2>1, <3>1, TheWrappers
  <2>3. FramesOK(t)'
    BY <1>1, <1>4, <2>2 DEF FramesOK, Nested, At, LockStages
  <2> QED
    BY <1>1, <1>2, <1>4, <2>2, <2>3 DEF FramesInv, FramesOK, Idle, Single, Nested, At
<1> QED
  BY <1>3, <1>4

\* A task leaves a wrapper, for the application or for the command it was called from.
LEMMA Leaves ==
  ASSUME FramesInv, NEW t \in Tasks, ~At(t, "out"), LeaveWrapper(t), rc' = rc
  PROVE  /\ FramesInv'
         /\ \A u \in Tasks \ {t} : frames'[u] = frames[u] /\ stage'[u] = stage[u]
         /\ Single(t) => Idle(t)'
         /\ Nested(t) => frames'[t] = <<"docommand">> /\ stage'[t] = "inside"
<1>1. /\ stage' \in [Tasks -> Stages]
      /\ \A u \in Tasks \ {t} : stage'[u] = stage[u]
      /\ stage'[t] = IF Len(frames[t]) = 1 THEN "out" ELSE "inside"
  BY DEF FramesInv, LeaveWrapper, Goto, Stages
<1>2. /\ \A u \in Tasks \ {t} : frames'[u] = frames[u]
      /\ frames'[t] = Tail(frames[t])
      /\ frames' = [frames EXCEPT ![t] = Tail(frames[t])]
  BY DEF FramesInv, LeaveWrapper
<1>3. CASE Single(t)
  <2>1. PICK f \in Wrappers : frames[t] = <<f>>
    BY <1>3 DEF Single
  <2>2. Len(frames[t]) = 1 /\ Tail(frames[t]) = <<>>
    BY <2>1
  <2>3. Idle(t)' /\ FramesOK(t)'
    BY <1>1, <1>2, <2>2 DEF Idle, FramesOK, At, LockStages
  <2>4. <<>> \in Seq(Wrappers)
    OBVIOUS
  <2>5. frames' \in [Tasks -> Seq(Wrappers)]
    BY <1>2, <2>2, <2>4 DEF FramesInv
  <2>6. ~Nested(t)
    BY <2>1, Len(<<"docommand", "docommand">>) = 2 DEF Nested
  <2> QED
    BY <1>1, <1>2, <2>3, <2>5, <2>6 DEF FramesInv, FramesOK, Idle, Single, Nested, At
<1>4. CASE Nested(t)
  <2>1. PICK f \in Wrappers \ {"docommand"} : frames[t] = <<f, "docommand">>
    BY <1>4 DEF Nested
  <2>2. Len(frames[t]) = 2 /\ Tail(frames[t]) = <<"docommand">>
    BY <2>1
  <2>3. frames'[t] = <<"docommand">> /\ stage'[t] = "inside"
    BY <1>1, <1>2, <2>2
  <2>4. rc # -1
    BY DEF FramesInv, FramesOK
  <2>5. FramesOK(t)'
    BY <2>3, <2>4, TheWrappers DEF FramesOK, Single, At, LockStages
  <2>6. <<"docommand">> \in Seq(Wrappers)
    BY TheWrappers
  <2>7. frames' \in [Tasks -> Seq(Wrappers)]
    BY <1>2, <2>2, <2>6 DEF FramesInv
  <2>8. ~Single(t)
    BY <2>2 DEF Single
  <2> QED
    BY <1>1, <1>2, <2>3, <2>5, <2>7, <2>8 DEF FramesInv, FramesOK, Idle, Single, Nested, At
<1>5. Single(t) \/ Nested(t)
  BY DEF FramesInv, FramesOK, Idle
<1> QED
  BY <1>3, <1>4, <1>5

LEMMA ConnectingKept ==
  ASSUME ConnectingInv, [Next]_vars
  PROVE  ConnectingInv'
<1>1. \/ UNCHANGED <<rc, connecting>>
      \/ \E l \in BOOLEAN : StoreLock(l)
      \/ StoreUnlock
      \/ \E refused \in SUBSET Refusable : Connect(GetMonFunc \ refused)
  BY DEF Next, vars, TaskStep, UserStep, Call, MonLock, LockCount, CountRead, CountStored,
       LockCall, LockTake, CallMonitor, MonitorReturns, MonUnlock, UnlockCount, LockRelease,
       PointerGone, DisableMonLock, EnableMonLock, CallFunction, monitor, pointers
<1> QED
  BY <1>1 DEF ConnectingInv, StoreLock, StoreUnlock, Connect, monitor

\* Each step keeps FramesInv.
LEMMA FramesKept ==
  ASSUME FramesInv, ConnectingInv, [Next]_vars
  PROVE  FramesInv'
<1>1. CASE UNCHANGED vars
  BY <1>1 DEF vars, monitor, FramesInv, FramesOK, Idle, Single, Nested, At
<1>2. ASSUME NEW mon, Connect(mon)
      PROVE  FramesInv'
  BY <1>2 DEF ConnectingInv, Connect, FramesInv, FramesOK, Idle, Single, Nested, At, LockStages
<1>3. ASSUME NEW l, StoreLock(l) \/ StoreUnlock
      PROVE  FramesInv'
  BY <1>3 DEF StoreLock, StoreUnlock, monitor, FramesInv, FramesOK, Idle, Single, Nested, At
<1>4. ASSUME NEW t \in Tasks, NEW f \in Called, Call(t, f)
      PROVE  FramesInv'
  BY <1>4, Enters, TheWrappers DEF Call, monitor
<1>5. ASSUME NEW t \in Tasks, MonLock(t)
      PROVE  FramesInv'
  <2>1. frames[t][1] \notin Unlocked /\ ~At(t, "out")
    BY <1>5 DEF MonLock, At, FramesInv, FramesOK, LockStages
  <2> QED
    BY <1>5, <2>1, Moves DEF MonLock, monitor, Stages
<1>6. ASSUME NEW t \in Tasks, LockCount(t) \/ UnlockCount(t) \/ LockCall(t) \/ LockTake(t)
      PROVE  FramesInv'
  <2>1. frames[t][1] \notin Unlocked /\ ~At(t, "out")
    BY <1>6 DEF LockCount, UnlockCount, CountRead, CountStored, LockCall, LockTake, At,
         FramesInv, FramesOK, LockStages
  <2>2. /\ \E s \in {"store", "enter", "unstore", "release", "wait"} : Goto(t, s)
        /\ frames' = frames /\ rc' = rc
    BY <1>6 DEF LockCount, UnlockCount, CountRead, CountStored, LockCall, LockTake, monitor
  <2> QED
    BY <2>1, <2>2, Moves DEF Stages
<1>7. ASSUME NEW t \in Tasks, CallMonitor(t)
      PROVE  FramesInv'
  <2>1. CASE Head(frames[t]) \in connected
    BY <1>7, <2>1, Moves DEF CallMonitor, Stages, LockStages, At
  <2>2. CASE Head(frames[t]) \notin connected
    BY <1>7, <2>2 DEF CallMonitor, FramesInv, FramesOK, Idle, Single, Nested, At
  <2> QED
    BY <2>1, <2>2
<1>8. ASSUME NEW t \in Tasks, MonitorReturns(t)
      PROVE  FramesInv'
  <2>1. ~At(t, "out")
    BY <1>8 DEF MonitorReturns, At
  <2>2. Head(frames[t]) = frames[t][1]
    BY <2>1 DEF FramesInv, FramesOK, Idle, Single, Nested
  <2>3. CASE Head(frames[t]) \in Unlocked
    BY <1>8, <2>1, <2>3, Leaves DEF MonitorReturns, monitor
  <2>4. CASE Head(frames[t]) \notin Unlocked
    BY <1>8, <2>1, <2>2, <2>4, Moves DEF MonitorReturns, monitor, Stages
  <2> QED
    BY <2>3, <2>4
<1>9. ASSUME NEW t \in Tasks, MonUnlock(t)
      PROVE  FramesInv'
  <2>1. frames[t][1] \notin Unlocked /\ ~At(t, "out")
    BY <1>9 DEF MonUnlock, At, FramesInv, FramesOK, LockStages
  <2>2. LeaveWrapper(t) \/ (\E s \in {"uncount", "release"} : Goto(t, s) /\ frames' = frames)
    BY <1>9 DEF MonUnlock
  <2> QED
    BY <1>9, <2>1, <2>2, Moves, Leaves DEF MonUnlock, monitor, Stages
<1>10. ASSUME NEW t \in Tasks, PointerGone(t)
       PROVE  FramesInv'
  BY <1>10 DEF PointerGone, FramesInv, FramesOK, Idle, Single, Nested, At
<1>11. ASSUME NEW t \in Tasks, LockRelease(t)
       PROVE  FramesInv'
  BY <1>11, Leaves DEF LockRelease, monitor, At
<1>12. CASE DisableMonLock \/ EnableMonLock
  BY <1>12 DEF DisableMonLock, EnableMonLock, monitor, FramesInv, FramesOK, Idle, Single,
       Nested, At
<1>13. ASSUME NEW f \in Called, CallFunction(f)
       PROVE  FramesInv'
  <2>1. rc # -1
    BY <1>13, TheWrappers DEF CallFunction, InCommand, At, FramesInv, FramesOK
  <2> QED
    BY <1>13, <2>1, Enters, TheWrappers DEF CallFunction, monitor
<1> QED
  BY <1>1, <1>2, <1>3, <1>4, <1>5, <1>6, <1>7, <1>8, <1>9, <1>10, <1>11, <1>12, <1>13
     DEF Next, TaskStep, UserStep

-----------------------------------------------------------------------------
(* The pointers to the lock, and to the functions.                         *)

LEMMA RelockedGrows ==
  ASSUME relocked \in BOOLEAN, [Next]_vars
  PROVE  relocked' \in BOOLEAN /\ (relocked => relocked')
<1>1. \/ relocked' = relocked
      \/ relocked' = (relocked \/ \E t \in Tasks : stage[t] # "out")
      \/ relocked' = (relocked \/ connecting = "unlock")
  BY DEF Next, vars, TaskStep, UserStep, StoreLock, StoreUnlock, Connect, Call, MonLock,
       LockCount, CountRead, CountStored, LockCall, LockTake, CallMonitor, MonitorReturns,
       MonUnlock, UnlockCount, LockRelease, PointerGone, DisableMonLock, EnableMonLock,
       CallFunction, history
<1> QED
  BY <1>1

\* A step of one task within the library that leaves the pointers alone.
LEMMA PointersSame ==
  ASSUME FramesInv, PointersInv, NEW t \in Tasks, UNCHANGED pointers, relocked' = relocked,
         \A u \in Tasks \ {t} : stage'[u] = stage[u], stage[t] # "out",
         stage'[t] \in LockTested => stage[t] \in LockTested \/ monlock,
         stage'[t] \in UnlockTested => stage[t] \in UnlockTested \/ monunlock
  PROVE  PointersInv'
<1>1. ASSUME ~relocked, NEW u \in Tasks
      PROVE  /\ stage'[u] \in LockTested => monlock
             /\ stage'[u] \in UnlockTested => monunlock
  BY <1>1 DEF PointersInv
<1>2. ~relocked => connecting # "unlock"
  BY DEF PointersInv, At
<1> QED
  BY <1>1, <1>2 DEF PointersInv, pointers

LEMMA PointersKept ==
  ASSUME FramesInv, PointersInv, relocked \in BOOLEAN, [Next]_vars
  PROVE  PointersInv'
<1>a. stage \in [Tasks -> Stages]
  BY DEF FramesInv
<1>1. CASE UNCHANGED <<pointers, stage, relocked>>
  BY <1>1 DEF pointers, PointersInv, At
<1>2. ASSUME NEW l \in BOOLEAN, StoreLock(l)
      PROVE  PointersInv'
  <2>1. /\ monlock' = l /\ monunlock' = monunlock /\ connecting' = "unlock"
        /\ stage' = stage /\ relocked' = (relocked \/ \E t \in Tasks : stage[t] # "out")
    BY <1>2 DEF StoreLock
  <2>2. ~relocked' => \A t \in Tasks : stage[t] = "out"
    BY <2>1
  <2> QED
    BY <2>1, <2>2 DEF PointersInv, LockTested, UnlockTested, At
<1>3. CASE StoreUnlock
  <2>1. /\ monlock' = monlock /\ monunlock' = monlock /\ connecting' \in {"no", "pointers"}
        /\ stage' = stage /\ relocked' = relocked /\ connecting = "unlock"
    BY <1>3 DEF StoreUnlock, history
  <2> QED
    BY <2>1 DEF PointersInv, LockTested, UnlockTested, At
<1>4. ASSUME NEW mon, Connect(mon)
      PROVE  PointersInv'
  BY <1>4 DEF Connect, history, PointersInv, At
<1>5. ASSUME NEW t \in Tasks, NEW f \in Called, Call(t, f)
      PROVE  PointersInv'
  <2>1. /\ \A u \in Tasks \ {t} : stage'[u] = stage[u]
        /\ stage'[t] \in {"enter", "lock"}
        /\ UNCHANGED pointers /\ relocked' = (relocked \/ connecting = "unlock")
    BY <1>a, <1>5 DEF Call, EnterWrapper, Goto
  <2>2. \A u \in Tasks : /\ stage'[u] \in LockTested => stage[u] \in LockTested
                         /\ stage'[u] \in UnlockTested => stage[u] \in UnlockTested
    BY <2>1 DEF LockTested, UnlockTested
  <2> QED
    BY <2>1, <2>2 DEF PointersInv, pointers
<1>6. ASSUME NEW t \in Tasks, MonLock(t)
      PROVE  PointersInv'
  <2>1. /\ stage[t] = "lock" /\ stage' = [stage EXCEPT ![t] = stage'[t]]
        /\ stage'[t] \in {"enter", "count", "call"} /\ (stage'[t] = "call" => monlock)
        /\ UNCHANGED pointers /\ relocked' = relocked
    <3>1. PICK s \in {"enter", "count", "call"} : Goto(t, s) /\ (s = "call" => monlock)
      BY <1>6 DEF MonLock, PointersInv
    <3> QED
      BY <1>a, <1>6, <3>1 DEF MonLock, Goto, At
  <2> QED
    BY <1>a, <2>1, PointersSame DEF LockTested, UnlockTested
<1>7. ASSUME NEW t \in Tasks, NEW s, NEW r, At(t, s), Goto(t, r), s # "out",
             UNCHANGED pointers, relocked' = relocked,
             r \in LockTested => s \in LockTested,
             r \in UnlockTested => s \in UnlockTested \/ monunlock
      PROVE  PointersInv'
  <2>1. \A u \in Tasks \ {t} : stage'[u] = stage[u]
    BY <1>a, <1>7 DEF Goto
  <2>2. stage[t] = s /\ stage'[t] = r
    BY <1>a, <1>7 DEF Goto, At
  <2> QED
    BY <1>7, <2>1, <2>2, PointersSame
<1>8. ASSUME NEW t \in Tasks, LockCount(t) \/ UnlockCount(t) \/ LockCall(t) \/ LockTake(t)
      PROVE  PointersInv'
  <2>1. UNCHANGED pointers /\ relocked' = relocked
    BY <1>8 DEF LockCount, UnlockCount, CountRead, CountStored, LockCall, LockTake, history
  <2>2. \/ At(t, "count") /\ Goto(t, "store")
        \/ At(t, "store") /\ Goto(t, "enter")
        \/ At(t, "uncount") /\ Goto(t, "unstore")
        \/ At(t, "unstore") /\ Goto(t, "release")
        \/ At(t, "call") /\ Goto(t, "wait")
        \/ At(t, "wait") /\ Goto(t, "enter")
    BY <1>8 DEF LockCount, UnlockCount, CountRead, CountStored, LockCall, LockTake
  <2> QED
    BY <1>7, <2>1, <2>2 DEF LockTested, UnlockTested
<1>9. ASSUME NEW t \in Tasks,
             CallMonitor(t) \/ MonitorReturns(t) \/ MonUnlock(t) \/ LockRelease(t)
      PROVE  PointersInv'
  <2>1. UNCHANGED pointers /\ relocked' = relocked
    BY <1>9 DEF CallMonitor, MonitorReturns, MonUnlock, LockRelease, history
  <2>2. \/ stage' = stage
        \/ \E s \in {"enter", "inside", "unlock", "release"},
              r \in {"out", "inside", "unlock", "uncount", "release"} :
             At(t, s) /\ Goto(t, r) /\ (r \in UnlockTested => monunlock)
    BY <1>9 DEF CallMonitor, MonitorReturns, MonUnlock, LockRelease, LeaveWrapper,
         UnlockTested
  <2>3. CASE stage' = stage
    BY <1>1, <2>1, <2>3 DEF pointers
  <2>4. ASSUME NEW s \in {"enter", "inside", "unlock", "release"},
               NEW r \in {"out", "inside", "unlock", "uncount", "release"},
               At(t, s), Goto(t, r), r \in UnlockTested => monunlock
        PROVE  PointersInv'
    BY <1>7, <2>1, <2>4 DEF LockTested
  <2> QED
    BY <2>2, <2>3, <2>4
<1>10. ASSUME NEW f \in Called, CallFunction(f)
       PROVE  PointersInv'
  <2>1. UNCHANGED pointers /\ relocked' = relocked /\ At(Cli, "inside")
        /\ \E r \in {"enter", "lock"} : Goto(Cli, r)
    BY <1>10 DEF CallFunction, EnterWrapper, InCommand, history
  <2> QED
    BY <1>7, <2>1, TheWrappers DEF LockTested, UnlockTested
<1>11. \/ UNCHANGED <<pointers, stage, relocked>>
       \/ \E l \in BOOLEAN : StoreLock(l)
       \/ StoreUnlock
       \/ \E refused \in SUBSET Refusable : Connect(GetMonFunc \ refused)
       \/ \E t \in Tasks : TaskStep(t) /\ ~PointerGone(t)
       \/ \E f \in Called : CallFunction(f)
  BY DEF Next, vars, TaskStep, UserStep, PointerGone, DisableMonLock, EnableMonLock, history
<1> QED
  BY <1>1, <1>2, <1>3, <1>4, <1>5, <1>6, <1>8, <1>9, <1>10, <1>11 DEF TaskStep

LEMMA ConnectedKept ==
  ASSUME FramesInv, PointersInv, ConnectedInv, [Next]_vars
  PROVE  ConnectedInv'
<1>1. ASSUME NEW refused \in SUBSET Refusable, ~crashed, Connect(GetMonFunc \ refused)
      PROVE  ConnectedInv'
  <2>1. GetMonFunc \ (GetMonFunc \ refused) = refused
    BY MonitorAssumption
  <2>2. IsFiniteSet(refused)
    BY MonitorAssumption, FS_Subset
  <2>3. rc' = Cardinality(refused) /\ Cardinality(refused) \in Nat
    BY <1>1, <2>1, <2>2, FS_CardinalityType DEF Connect
  <2>4. ASSUME rc' = 0
        PROVE  Wrappers \subseteq connected'
    <3>1. refused = {}
      BY <2>2, <2>3, <2>4, FS_EmptySet
    <3> QED
      BY <1>1, <3>1, TheWrappers DEF Connect
  <2>5. relocked' = relocked /\ crashed' = crashed
    BY <1>1 DEF Connect, history
  <2> QED
    BY <1>1, <2>3, <2>4, <2>5 DEF ConnectedInv
<1>2. ASSUME NEW t \in Tasks, CallMonitor(t), ~crashed
      PROVE  ConnectedInv'
  <2>1. Head(frames[t]) \in Wrappers /\ rc # -1
    BY <1>2, TheWrappers DEF CallMonitor, At, FramesInv, FramesOK, Idle, Single, Nested
  <2>2. relocked' = relocked /\ rc' = rc /\ connected' = connected
    BY <1>2 DEF CallMonitor, history
  <2>3. Head(frames[t]) \in connected \/ rc > 0
    BY <2>1 DEF ConnectedInv
  <2>4. crashed' = TRUE => rc > 0
    BY <1>2, <2>3 DEF CallMonitor
  <2>5. crashed' = TRUE \/ crashed' = crashed
    BY <1>2 DEF CallMonitor
  <2> QED
    BY <1>2, <2>2, <2>4, <2>5 DEF ConnectedInv
<1>3. ASSUME NEW t \in Tasks, PointerGone(t), ~crashed
      PROVE  ConnectedInv'
  <2>1. relocked
    BY <1>3 DEF PointerGone, PointersInv, LockTested, UnlockTested, At
  <2> QED
    BY <1>3, <2>1 DEF PointerGone, history, ConnectedInv
<1>4. CASE UNCHANGED monitor
  <2>1. relocked' \in BOOLEAN /\ (relocked => relocked')
    BY RelockedGrows DEF ConnectedInv
  <2> QED
    BY <1>4, <2>1 DEF monitor, ConnectedInv
<1>5. \/ UNCHANGED monitor
      \/ ~crashed /\ \E t \in Tasks : CallMonitor(t) \/ PointerGone(t)
      \/ ~crashed /\ \E refused \in SUBSET Refusable : Connect(GetMonFunc \ refused)
  BY DEF Next, vars, TaskStep, UserStep, StoreLock, StoreUnlock, Call, MonLock, LockCount,
       CountRead, CountStored, LockCall, LockTake, MonitorReturns, MonUnlock, UnlockCount,
       LockRelease, DisableMonLock, EnableMonLock, CallFunction
<1> QED
  BY <1>1, <1>2, <1>3, <1>4, <1>5

-----------------------------------------------------------------------------
(* The back door.                                                          *)

\* Where the user's task is if the back door is open, closed, or not looked at.
LEMMA DoorStages ==
  ASSUME FramesInv, DoorOK
  PROVE  /\ ~opened => ~Nested(Cli) /\ ignorelock = 0
         /\ stage[Cli] \in {"out", "call", "wait", "uncount", "unstore", "release"} => ~opened
         /\ ~InCommand /\ ~Nested(Cli) => ~opened
         /\ InCommand => Single(Cli) /\ ~Nested(Cli)
<1>1. Len(<<"docommand">>) = 1 /\ \A f : Len(<<f, "docommand">>) = 2
  OBVIOUS
<1>2. InCommand => Single(Cli) /\ ~Nested(Cli)
  BY <1>1, TheWrappers DEF InCommand, Single, Nested, At
<1> QED
  BY <1>2 DEF DoorOK, InCommand, At, Nested

LEMMA NotBoth ==
  ASSUME NEW t
  PROVE  ~(Single(t) /\ Nested(t))
<1>1. \A f, g : Len(<<f>>) = 1 /\ Len(<<g, "docommand">>) = 2
  OBVIOUS
<1> QED
  BY <1>1 DEF Single, Nested

\* The stages of ignorelock--.
Counting == {"count", "store", "uncount", "unstore"}

\* A step of another task that does not count.
LEMMA DoorOther ==
  ASSUME DoorOK, NEW t \in Tasks, t # Cli, stage'[t] \notin Counting,
         \A u \in Tasks \ {t} : frames'[u] = frames[u] /\ stage'[u] = stage[u],
         UNCHANGED <<ignorelock, read, opened, monlock>>
  PROVE  DoorOK'
  BY TheWrappers DEF DoorOK, Nested, InCommand, At, Counting

\* A step of the user's task with the back door closed.
LEMMA DoorClosed ==
  ASSUME FramesInv, DoorOK, ~opened, stage'[Cli] \notin Counting, ~Nested(Cli)',
         \A u \in Tasks \ {Cli} : frames'[u] = frames[u] /\ stage'[u] = stage[u],
         UNCHANGED <<ignorelock, opened>>
  PROVE  DoorOK'
  BY TheWrappers DEF DoorOK, Nested, At, Counting

\* Improper use is not forgotten.
LEMMA TypesKept ==
  ASSUME MonitorInv, [Next]_vars
  PROVE  /\ Proper' => Proper /\ DoorOK /\ HoldersOK
         /\ misused' \in BOOLEAN /\ relocked' \in BOOLEAN
<1>1. misused \in BOOLEAN /\ relocked \in BOOLEAN
  BY DEF MonitorInv
<1>2. \/ misused' = misused
      \/ \E t \in Tasks : PassedBy(t)
      \/ \E t \in Tasks : misused' = (misused \/ (opened /\ frames[t] = <<"docommand">>))
  BY DEF Next, vars, TaskStep, UserStep, StoreLock, StoreUnlock, Connect, Call, MonLock,
       LockCount, CountRead, CountStored, LockCall, LockTake, CallMonitor, MonitorReturns,
       MonUnlock, UnlockCount, LockRelease, PointerGone, DisableMonLock, EnableMonLock,
       CallFunction, history
<1>3. relocked' \in BOOLEAN /\ (relocked => relocked')
  BY <1>1, RelockedGrows
<1>4. misused' \in BOOLEAN /\ (misused => misused')
  BY <1>1, <1>2 DEF PassedBy
<1>5. Proper' => Proper
  BY <1>3, <1>4 DEF Proper
<1> QED
  BY <1>3, <1>4, <1>5 DEF MonitorInv

\* A step of a task within a wrapper with a lock: it stays there or leaves.
LEMMA LockedStep ==
  ASSUME FramesInv, NEW t \in Tasks, stage[t] \in LockStages
  PROVE  /\ ~At(t, "out") /\ ~Idle(t) /\ frames[t][1] \notin Unlocked
         /\ Single(t) \/ Nested(t)
         /\ t # Cli => Single(t)
  BY DEF FramesInv, FramesOK, Idle, Single, Nested, At, LockStages

\* Each step keeps what the back door can look like.
LEMMA DoorKept ==
  ASSUME FramesInv, FramesInv', PointersInv, CountInv, MonitorInv, [Next]_vars, Proper'
  PROVE  DoorOK'
<1>a. Proper /\ DoorOK /\ misused' = FALSE /\ relocked' = FALSE /\ monlock \in BOOLEAN
  BY TypesKept DEF Proper, PointersInv
<1>1. CASE UNCHANGED <<lock, monlock, frames, stage, opened>>
  BY <1>a, <1>1 DEF lock, DoorOK, Nested, InCommand, At
<1>2. ASSUME NEW l, StoreLock(l)
      PROVE  DoorOK'
  <2>1. \A t \in Tasks : At(t, "out")
    BY <1>a, <1>2 DEF StoreLock, At
  <2>2. ~opened /\ ~Nested(Cli)
    BY <1>a, <2>1, DoorStages, TheWrappers DEF At
  <2>3. UNCHANGED <<ignorelock, opened, frames, stage>>
    BY <1>2 DEF StoreLock, lock
  <2> QED
    BY <1>a, <2>1, <2>2, <2>3, DoorClosed, TheWrappers DEF Nested, At, Counting
<1>3. ASSUME NEW t \in Tasks, NEW f \in Called, Call(t, f)
      PROVE  DoorOK'
  <2>1. /\ \A u \in Tasks \ {t} : frames'[u] = frames[u] /\ stage'[u] = stage[u]
        /\ frames'[t] = <<f>> /\ stage'[t] \in {"enter", "lock"}
        /\ UNCHANGED <<ignorelock, read, opened, monlock>> /\ At(t, "out")
    BY <1>3, Enters, TheWrappers DEF Call, monitor, lock, pointers
  <2>2. CASE t # Cli
    BY <1>a, <2>1, <2>2, DoorOther DEF Counting
  <2>3. CASE t = Cli
    <3>1. ~opened
      BY <1>a, <2>1, <2>3, DoorStages DEF At
    <3>2. ~Nested(Cli)'
      <4>1. Single(Cli)'
        BY <2>1, <2>3, TheWrappers DEF Single, At
      <4> QED
        BY <4>1, NotBoth, Len(<<f>>) = 1, \A g : Len(<<g, "docommand">>) = 2, <2>1, <2>3
           DEF Nested
    <3> QED
      BY <1>a, <2>1, <2>3, <3>1, <3>2, DoorClosed DEF Counting
  <2> QED
    BY <2>2, <2>3
<1>4. ASSUME NEW t \in Tasks, MonLock(t)
      PROVE  DoorOK'
  <2>1. stage[t] \in LockStages
    BY <1>4 DEF MonLock, At, LockStages
  <2>2. PICK s \in {"enter", "count", "call"} :
          /\ Goto(t, s)
          /\ s = "enter" => ~monlock \/ ignorelock = 1
          /\ s = "count" => monlock /\ ignorelock = 2
          /\ s = "call" => monlock /\ ignorelock \notin {1, 2}
    BY <1>4, <1>a DEF MonLock
  <2>3. /\ \A u \in Tasks \ {t} : frames'[u] = frames[u] /\ stage'[u] = stage[u]
        /\ frames'[t] = frames[t] /\ stage'[t] = s /\ s # "out"
        /\ UNCHANGED <<ignorelock, read, opened, monlock>>
    BY <1>4, <2>1, <2>2, LockedStep, Moves DEF MonLock, Stages, monitor, lock, pointers
  <2>4. ignorelock = 0 \/ t = Cli
    BY <1>4, <1>a DEF MonLock, PassedBy
  <2>5. CASE t # Cli
    BY <1>a, <2>2, <2>3, <2>4, <2>5, DoorOther DEF Counting
  <2>6. CASE t = Cli /\ ~opened
    <3>1. ~Nested(Cli)' /\ stage'[Cli] \notin Counting
      BY <1>a, <1>4, <2>2, <2>3, <2>6, DoorStages DEF Counting, Nested, MonLock, At
    <3> QED
      BY <1>a, <2>3, <2>6, <3>1, DoorClosed DEF Counting
  <2>7. CASE t = Cli /\ opened
    <3>1. Nested(Cli) /\ ignorelock \in {1, 2}
      BY <1>4, <1>a, <2>7, DoorStages DEF InCommand, MonLock, At, DoorOK
    <3>2. Nested(Cli)' /\ s \in {"enter", "count"}
      BY <2>2, <2>3, <2>7, <3>1 DEF Nested, At
    <3> QED
      BY <1>a, <2>2, <2>3, <2>7, <3>1, <3>2 DEF DoorOK, At
  <2> QED
    BY <2>5, <2>6, <2>7, <1>a DEF DoorOK
<1>5. ASSUME NEW t \in Tasks, LockCount(t)
      PROVE  DoorOK'
  <2>1. t = Cli /\ Nested(Cli) /\ ignorelock = 2 /\ opened
    BY <1>5, <1>a DEF LockCount, CountRead, CountStored, DoorOK
  <2>2. /\ \A u \in Tasks \ {t} : frames'[u] = frames[u] /\ stage'[u] = stage[u]
        /\ frames'[t] = frames[t] /\ stage'[t] \in {"store", "enter"}
        /\ UNCHANGED <<opened, monlock>>
    BY <1>5, LockedStep, Moves DEF LockCount, CountRead, CountStored, Stages, monitor, At,
       LockStages, pointers
  <2>3. Nested(Cli)'
    BY <2>1, <2>2 DEF Nested, At
  <2>4. CASE CountRead(t, "count", "store")
    <3>1. ignorelock' = 2 /\ stage'[t] = "store" /\ monlock
      BY <1>a, <2>1, <2>4 DEF CountRead, Goto, FramesInv, DoorOK
    <3>2. read'[t] = 2
      BY <2>1, <2>4 DEF CountRead, CountInv
    <3> QED
      BY <1>a, <2>1, <2>2, <2>3, <3>1, <3>2 DEF DoorOK, At
  <2>5. CASE CountStored(t, "store", "enter")
    <3>1. ignorelock' = 1 /\ stage'[t] = "enter"
      BY <1>a, <2>5 DEF CountStored, Goto, FramesInv, DoorOK
    <3> QED
      BY <1>a, <2>1, <2>2, <2>3, <3>1 DEF DoorOK, At
  <2> QED
    BY <1>5, <2>4, <2>5 DEF LockCount
<1>6. ASSUME NEW t \in Tasks, LockCall(t) \/ LockTake(t)
      PROVE  DoorOK'
  <2>1. /\ \A u \in Tasks \ {t} : frames'[u] = frames[u] /\ stage'[u] = stage[u]
        /\ frames'[t] = frames[t] /\ stage'[t] \in {"wait", "enter"}
        /\ stage[t] \in {"call", "wait"}
        /\ UNCHANGED <<opened, monlock, ignorelock, read>>
    BY <1>6, LockedStep, Moves DEF LockCall, LockTake, Stages, monitor, lock, pointers, At,
       LockStages
  <2>2. CASE t # Cli
    BY <1>a, <2>1, <2>2, DoorOther DEF Counting
  <2>3. CASE t = Cli
    BY <1>a, <2>1, <2>3, DoorStages, DoorClosed DEF Counting, Nested, At
  <2> QED
    BY <2>2, <2>3
<1>7. ASSUME NEW t \in Tasks, CallMonitor(t)
      PROVE  DoorOK'
  <2>1. /\ \A u \in Tasks \ {t} : frames'[u] = frames[u] /\ stage'[u] = stage[u]
        /\ frames'[t] = frames[t] /\ stage'[t] \in {"enter", "inside"} /\ stage[t] = "enter"
        /\ UNCHANGED <<opened, monlock, ignorelock, read>>
    BY <1>7 DEF CallMonitor, Goto, FramesInv, At, lock, pointers
  <2>2. CASE t # Cli
    BY <1>a, <2>1, <2>2, DoorOther DEF Counting
  <2>3. CASE t = Cli /\ Nested(Cli)
    <3>1. Nested(Cli)'
      BY <2>1, <2>3 DEF Nested, At
    <3> QED
      BY <1>a, <2>1, <2>3, <3>1 DEF DoorOK, At
  <2>4. CASE t = Cli /\ ~Nested(Cli)
    <3>1. ~opened /\ ~Nested(Cli)'
      BY <1>a, <2>1, <2>4, DoorStages DEF Nested, InCommand, At
    <3> QED
      BY <1>a, <2>1, <2>4, <3>1, DoorClosed DEF Counting
  <2> QED
    BY <2>2, <2>3, <2>4
<1>8. ASSUME NEW t \in Tasks, MonitorReturns(t)
      PROVE  DoorOK'
  <2>1. stage[t] = "inside" /\ UNCHANGED <<ignorelock, read, opened, monlock>>
    BY <1>8 DEF MonitorReturns, At, lock, pointers
  <2>2. Head(frames[t]) = frames[t][1]
    BY <2>1 DEF FramesInv, FramesOK, Idle, Single, Nested, At
  <2>3. \/ frames[t][1] \in Unlocked /\ LeaveWrapper(t)
        \/ frames[t][1] \notin Unlocked /\ Goto(t, "unlock") /\ frames' = frames
    BY <1>8, <2>2 DEF MonitorReturns
  <2>4. /\ \A u \in Tasks \ {t} : frames'[u] = frames[u] /\ stage'[u] = stage[u]
        /\ \/ /\ Single(t) => Idle(t)'
              /\ Nested(t) => frames'[t] = <<"docommand">> /\ stage'[t] = "inside"
           \/ stage'[t] = "unlock" /\ frames'[t] = frames[t] /\ frames[t][1] \notin Unlocked
    BY <1>8, <2>1, <2>3, Leaves, Moves DEF MonitorReturns, At, Stages, monitor
  <2>5. Single(t) \/ Nested(t)
    BY <2>1 DEF FramesInv, FramesOK, Idle, At
  <2>6. stage'[t] \in {"out", "inside", "unlock"}
    BY <2>4, <2>5 DEF Idle, At
  <2>7. CASE t # Cli
    BY <1>a, <2>1, <2>4, <2>6, <2>7, DoorOther DEF Counting
  <2>8. CASE t = Cli /\ Single(Cli)
    <3>1. ~opened
      BY <1>8, <1>a, <2>8, DoorStages, NotBoth DEF MonitorReturns, InCommand
    <3>2. ~Nested(Cli)'
      BY <2>4, <2>8, NotBoth DEF Idle, Nested, At, Single
    <3> QED
      BY <1>a, <2>1, <2>4, <2>6, <2>8, <3>1, <3>2, DoorClosed DEF Counting
  <2>9. CASE t = Cli /\ Nested(Cli)
    <3>1. opened
      BY <1>a, <2>9 DEF DoorOK
    <3>2. CASE frames'[t] = <<"docommand">> /\ stage'[t] = "inside"
      <4>1. InCommand'
        BY <2>9, <3>2 DEF InCommand, At
      <4> QED
        BY <1>a, <2>1, <2>4, <2>9, <3>1, <3>2, <4>1, DoorStages, Len(<<"docommand">>) = 1,
           \A g : Len(<<g, "docommand">>) = 2 DEF DoorOK, At, Nested
    <3>3. CASE stage'[t] = "unlock" /\ frames'[t] = frames[t]
      <4>1. Nested(Cli)'
        BY <2>9, <3>3 DEF Nested, At
      <4>2. monlock /\ frames[Cli][1] \notin Unlocked => ignorelock = 1
        BY <1>a, <2>1, <2>9 DEF DoorOK
      <4> QED
        BY <1>a, <2>1, <2>4, <2>9, <3>1, <3>3, <4>1, <4>2 DEF DoorOK, At
    <3> QED
      BY <2>4, <2>9, <3>2, <3>3
  <2> QED
    BY <2>5, <2>7, <2>8, <2>9
<1>9. ASSUME NEW t \in Tasks, MonUnlock(t)
      PROVE  DoorOK'
  <2>0. monunlock = monlock
    BY <1>a, <1>9 DEF MonUnlock, PointersInv, At, Proper
  <2>1. stage[t] = "unlock" /\ UNCHANGED <<ignorelock, read, opened, monlock>>
    BY <1>9 DEF MonUnlock, At, lock, pointers
  <2>2. ignorelock = 0 \/ t = Cli
    BY <1>9, <1>a DEF MonUnlock, PassedBy
  <2>3. CASE ~monlock \/ ignorelock = 1
    <3>1. /\ \A u \in Tasks \ {t} : frames'[u] = frames[u] /\ stage'[u] = stage[u]
          /\ Single(t) => Idle(t)'
          /\ Nested(t) => frames'[t] = <<"docommand">> /\ stage'[t] = "inside"
      BY <1>9, <2>0, <2>1, <2>3, Leaves DEF MonUnlock, At, monitor
    <3>2. Single(t) \/ Nested(t)
      BY <2>1, LockedStep DEF LockStages
    <3>3. stage'[t] \in {"out", "inside"}
      BY <3>1, <3>2 DEF Idle, At
    <3>4. CASE t # Cli
      BY <1>a, <2>1, <3>1, <3>3, <3>4, DoorOther DEF Counting
    <3>5. CASE t = Cli /\ Single(Cli)
      <4>1. ~opened
        BY <1>a, <2>1, <3>5, DoorStages, NotBoth DEF InCommand, At
      <4>2. ~Nested(Cli)'
        BY <3>1, <3>5 DEF Idle, Nested
      <4> QED
        BY <1>a, <2>1, <3>1, <3>3, <3>5, <4>1, <4>2, DoorClosed DEF Counting
    <3>6. CASE t = Cli /\ Nested(Cli)
      <4>1. opened
        BY <1>a, <3>6 DEF DoorOK
      <4>2. InCommand' /\ stage'[Cli] = "inside"
        BY <3>1, <3>6 DEF InCommand, At
      <4>3. ~Nested(Cli)'
        BY <3>1, <3>6, Len(<<"docommand">>) = 1, \A g : Len(<<g, "docommand">>) = 2 DEF Nested
      <4> QED
        BY <1>a, <2>1, <3>1, <3>6, <4>1, <4>2, <4>3 DEF DoorOK, At
    <3> QED
      BY <3>2, <3>4, <3>5, <3>6
  <2>4. CASE monlock /\ ignorelock # 1
    <3>1. ignorelock = 0
      <4>1. CASE t = Cli /\ opened
        <5>1. Nested(Cli)
          BY <1>a, <2>1, <4>1, DoorStages DEF InCommand, At
        <5> QED
          BY <1>a, <2>1, <2>4, <4>1, <5>1, LockedStep DEF DoorOK, LockStages
      <4> QED
        BY <1>a, <2>2, <4>1 DEF DoorOK
    <3>2. /\ \A u \in Tasks \ {t} : frames'[u] = frames[u] /\ stage'[u] = stage[u]
          /\ frames'[t] = frames[t] /\ stage'[t] = "release"
      BY <1>9, <2>0, <2>1, <2>4, <3>1, Moves, LockedStep DEF MonUnlock, At, Stages, LockStages, monitor
    <3>3. CASE t # Cli
      BY <1>a, <2>1, <3>2, <3>3, DoorOther DEF Counting
    <3>4. CASE t = Cli
      BY <1>a, <2>1, <3>1, <3>2, <3>4, DoorClosed, DoorStages DEF Counting, DoorOK, Nested, At
    <3> QED
      BY <3>3, <3>4
  <2> QED
    BY <1>a, <2>3, <2>4
<1>10. ASSUME NEW t \in Tasks, UnlockCount(t)
       PROVE  DoorOK'
  BY <1>10, <1>a DEF UnlockCount, CountRead, CountStored, DoorOK
<1>11. ASSUME NEW t \in Tasks, LockRelease(t)
       PROVE  DoorOK'
  <2>1. stage[t] = "release" /\ UNCHANGED <<ignorelock, read, opened, monlock>>
    BY <1>11 DEF LockRelease, At, pointers
  <2>2. /\ \A u \in Tasks \ {t} : frames'[u] = frames[u] /\ stage'[u] = stage[u]
        /\ Single(t) => Idle(t)'
        /\ Nested(t) => frames'[t] = <<"docommand">> /\ stage'[t] = "inside"
    BY <1>11, <2>1, Leaves DEF LockRelease, At, monitor
  <2>3. Single(t) \/ Nested(t)
    BY <2>1, LockedStep DEF LockStages
  <2>4. ~Nested(t)
    BY <1>a, <2>1 DEF DoorOK, Nested
  <2>5. Idle(t)'
    BY <2>2, <2>3, <2>4
  <2>6. CASE t # Cli
    BY <1>a, <2>1, <2>2, <2>5, <2>6, DoorOther DEF Counting, Idle, At
  <2>7. CASE t = Cli
    BY <1>a, <2>1, <2>2, <2>5, <2>7, DoorClosed, DoorStages DEF Counting, Idle, Nested, At
  <2> QED
    BY <2>6, <2>7
<1>12. CASE DisableMonLock \/ EnableMonLock
  <2>1. /\ InCommand /\ UNCHANGED <<frames, stage, monlock, read>>
        /\ \/ ignorelock' = 2 /\ opened' = TRUE
           \/ ignorelock' = 0 /\ opened' = FALSE
    BY <1>12 DEF DisableMonLock, EnableMonLock, pointers
  <2>2. ~Nested(Cli) /\ InCommand' /\ ~Nested(Cli)'
    BY <1>a, <2>1, DoorStages DEF InCommand, Nested, At
  <2>3. ignorelock' \in {0, 1, 2} /\ opened' \in BOOLEAN /\ (ignorelock' # 0 <=> opened')
    <3>1. opened' \in BOOLEAN
      BY <2>1
    <3>2. ignorelock' \in {0, 1, 2}
      BY <2>1
    <3>3. CASE ignorelock' = 2 /\ opened'
      BY <3>1, <3>2, <3>3
    <3>4. CASE ignorelock' = 0 /\ ~opened'
      BY <3>1, <3>2, <3>4
    <3> QED
      BY <2>1, <3>3, <3>4
  <2>4. \A t \in Tasks : stage'[t] \notin Counting
    BY <1>a, <2>1, <2>2 DEF DoorOK, At, Counting
  <2> QED
    BY <2>2, <2>3, <2>4 DEF DoorOK, At, Counting
<1>13. ASSUME NEW f \in Called, CallFunction(f)
       PROVE  DoorOK'
  <2>1. rc # -1
    BY <1>13, TheWrappers DEF CallFunction, InCommand, At, FramesInv, FramesOK
  <2>2. /\ \A u \in Tasks \ {Cli} : frames'[u] = frames[u] /\ stage'[u] = stage[u]
        /\ frames'[Cli] = <<f, "docommand">>
        /\ stage'[Cli] = IF f \in Unlocked THEN "enter" ELSE "lock"
        /\ UNCHANGED <<ignorelock, read, opened, monlock>> /\ opened /\ f # "docommand"
    BY <1>13, <2>1, Enters, TheWrappers DEF CallFunction, InCommand, At, monitor, lock, pointers
  <2>3. Nested(Cli)' /\ frames'[Cli][1] = f
    BY <2>2, TheWrappers DEF Nested, At
  <2>4. /\ stage'[Cli] \in {"lock", "enter"}
        /\ stage'[Cli] \in {"enter", "inside", "unlock"} => frames'[Cli][1] \in Unlocked
    BY <2>2, <2>3
  <2>5. \A t \in Tasks : stage'[t] \notin Counting
    BY <1>a, <1>13, <2>2, <2>4 DEF DoorOK, At, CallFunction, InCommand, Counting
  <2> QED
    <3>1. ignorelock' \in {0, 1, 2} /\ opened' \in BOOLEAN /\ (ignorelock' # 0 <=> opened')
      BY <1>a, <2>2 DEF DoorOK
    <3>2. opened' /\ Nested(Cli)'
      BY <2>2, <2>3
    <3> QED
      BY <2>4, <2>5, <3>1, <3>2 DEF DoorOK, At, Counting
<1>14. \/ UNCHANGED <<lock, monlock, frames, stage, opened>>
       \/ \E l \in BOOLEAN : StoreLock(l)
       \/ \E t \in Tasks : TaskStep(t) /\ ~PointerGone(t)
       \/ UserStep
  BY DEF Next, vars, pointers, StoreUnlock, Connect, TaskStep, PointerGone
<1> QED
  BY <1>1, <1>2, <1>3, <1>4, <1>5, <1>6, <1>7, <1>8, <1>9, <1>10, <1>11, <1>12, <1>13, <1>14
     DEF TaskStep, UserStep

LEMMA CountKept ==
  ASSUME CountInv, [Next]_vars
  PROVE  CountInv'
<1>1. CASE UNCHANGED <<ignorelock, read>>
  BY <1>1 DEF CountInv
<1>2. CASE DisableMonLock \/ EnableMonLock
  BY <1>2 DEF DisableMonLock, EnableMonLock, CountInv
<1>3. ASSUME NEW t \in Tasks, NEW s, NEW r, CountRead(t, s, r)
      PROVE  CountInv'
  BY <1>3 DEF CountRead, CountInv
<1>4. ASSUME NEW t \in Tasks, NEW s, NEW r, CountStored(t, s, r)
      PROVE  CountInv'
  BY <1>4 DEF CountStored, CountInv
<1>5. \/ UNCHANGED <<ignorelock, read>>
      \/ DisableMonLock \/ EnableMonLock
      \/ \E t \in Tasks : LockCount(t) \/ UnlockCount(t)
  BY DEF Next, vars, TaskStep, UserStep, StoreLock, StoreUnlock, Connect, Call, MonLock,
       LockCall, LockTake, CallMonitor, MonitorReturns, MonUnlock, LockRelease, PointerGone,
       CallFunction, lock
<1> QED
  BY <1>1, <1>2, <1>3, <1>4, <1>5 DEF LockCount, UnlockCount

-----------------------------------------------------------------------------
(* The holder of the lock.                                                 *)

\* Who holds the lock depends on the form of the task's frames only.
LEMMA HoldsWhen ==
  ASSUME NEW t
  PROVE  /\ Idle(t) => ~Holds(t)
         /\ Nested(t) => (Holds(t) <=> monlock)
         /\ Single(t) => (Holds(t) <=> /\ monlock /\ frames[t][1] \notin Unlocked
                                       /\ stage[t] \in {"enter", "inside", "unlock", "release"})
         /\ Idle(t)' => ~Holds(t)'
         /\ Nested(t)' => (Holds(t)' <=> monlock')
         /\ Single(t)' => (Holds(t)' <=> /\ monlock' /\ frames'[t][1] \notin Unlocked
                                         /\ stage'[t] \in {"enter", "inside", "unlock", "release"})
<1>1. \A f, g : Len(<<f>>) = 1 /\ Len(<<g, "docommand">>) = 2
  OBVIOUS
<1>2. ~(Single(t) /\ Nested(t)) /\ ~(Single(t)' /\ Nested(t)')
  BY <1>1 DEF Single, Nested
<1>3. (Idle(t) => ~Single(t) /\ ~Nested(t)) /\ (Idle(t)' => ~Single(t)' /\ ~Nested(t)')
  BY DEF Idle, Single, Nested, At
<1>4. /\ Idle(t) => ~Holds(t)
      /\ Idle(t)' => ~Holds(t)'
  BY <1>3 DEF Holds
<1>5. /\ Nested(t) => (Holds(t) <=> monlock)
      /\ Nested(t)' => (Holds(t)' <=> monlock')
  BY DEF Holds
<1> QED
  BY <1>2, <1>4, <1>5 DEF Holds

\* A step that moves the lock to nobody.
LEMMA HoldersSame ==
  ASSUME HoldersOK, NEW t \in Tasks, Holds(t)' <=> Holds(t),
         \A u \in Tasks \ {t} : frames'[u] = frames[u] /\ stage'[u] = stage[u],
         UNCHANGED <<monlock, took, tokens>>,
         stage'[t] \in LockTested \/ At(t, "release")' => monlock
  PROVE  HoldersOK'
<1>1. \A u \in Tasks : Holds(u)' <=> Holds(u)
  <2>1. ASSUME NEW u \in Tasks \ {t}
        PROVE  Holds(u)' <=> Holds(u)
    BY DEF Holds, Single, Nested, At
  <2> QED
    BY <2>1
<1>2. \A u \in Tasks : stage'[u] \in LockTested \/ At(u, "release")' => monlock'
  BY DEF HoldersOK, At
<1> QED
  BY <1>1, <1>2 DEF HoldersOK

\* Each step keeps the lock with one task.
LEMMA HoldersKept ==
  ASSUME FramesInv, FramesInv', PointersInv, MonitorInv, [Next]_vars, Proper'
  PROVE  HoldersOK'
<1>a. /\ Proper /\ DoorOK /\ HoldersOK /\ misused' = FALSE /\ relocked' = FALSE
      /\ monlock \in BOOLEAN
  BY TypesKept DEF Proper, PointersInv
<1>b. ASSUME NEW t \in Tasks, ignorelock # 0, t = Cli, ~InCommand
      PROVE  Nested(Cli)
  BY <1>a, <1>b, DoorStages
<1>1. CASE UNCHANGED <<monlock, tokens, took, frames, stage>>
  <2>1. \A t \in Tasks : Holds(t)' <=> Holds(t)
    BY <1>1 DEF Holds, Single, Nested, At
  <2> QED
    BY <1>a, <1>1, <2>1 DEF HoldersOK, At
<1>2. ASSUME NEW l, StoreLock(l)
      PROVE  HoldersOK'
  <2>1. \A t \in Tasks : At(t, "out")
    BY <1>a, <1>2 DEF StoreLock, At
  <2>2. UNCHANGED <<tokens, took, frames, stage>>
    BY <1>2 DEF StoreLock, lock
  <2>3. \A t \in Tasks : Idle(t) /\ Idle(t)'
    BY <2>1, <2>2 DEF FramesInv, FramesOK, Idle, Single, Nested, At
  <2>4. \A t \in Tasks :
          ~Holds(t) /\ ~Holds(t)' /\ stage'[t] \notin LockTested /\ ~At(t, "release")'
    BY <2>3, HoldsWhen DEF Idle, At, LockTested
  <2> QED
    BY <1>a, <2>2, <2>4 DEF HoldersOK
<1>3. ASSUME NEW t \in Tasks, NEW f \in Called, Call(t, f)
      PROVE  HoldersOK'
  <2>1. /\ \A u \in Tasks \ {t} : frames'[u] = frames[u] /\ stage'[u] = stage[u]
        /\ frames'[t] = <<f>> /\ stage'[t] = IF f \in Unlocked THEN "enter" ELSE "lock"
        /\ UNCHANGED <<monlock, took, tokens>> /\ At(t, "out")
    BY <1>3, Enters, TheWrappers DEF Call, monitor, lock, pointers
  <2>2. Idle(t)
    BY <2>1 DEF FramesInv, FramesOK, Single, Nested
  <2>3. Single(t)' /\ frames'[t][1] = f
    BY <2>1, TheWrappers DEF Single, At
  <2>4. ~Holds(t) /\ ~Holds(t)'
    BY <2>1, <2>2, <2>3, HoldsWhen
  <2> QED
    BY <1>a, <2>1, <2>4, HoldersSame DEF At, LockTested
<1>4. ASSUME NEW t \in Tasks, MonLock(t)
      PROVE  HoldersOK'
  <2>1. stage[t] = "lock"
    BY <1>4 DEF MonLock, At
  <2>2. PICK s \in {"enter", "count", "call"} :
          /\ Goto(t, s)
          /\ s = "enter" => ~monlock \/ ignorelock = 1
          /\ s = "call" => monlock
    BY <1>4, <1>a DEF MonLock
  <2>3. /\ \A u \in Tasks \ {t} : frames'[u] = frames[u] /\ stage'[u] = stage[u]
        /\ frames'[t] = frames[t] /\ stage'[t] = s /\ s # "out"
        /\ UNCHANGED <<monlock, took, tokens>>
    BY <1>4, <2>1, <2>2, LockedStep, Moves DEF MonLock, Stages, LockStages, monitor, lock, pointers
  <2>4. ignorelock # 0 => Nested(Cli) /\ t = Cli
    BY <1>4, <1>a, <1>b, <2>1 DEF MonLock, PassedBy, InCommand, At
  <2>5. CASE Nested(t)
    <3>1. Nested(t)'
      BY <2>3, <2>5 DEF Nested, At
    <3> QED
      BY <1>a, <2>2, <2>3, <2>5, <3>1, HoldsWhen, HoldersSame DEF At, LockTested
  <2>6. CASE Single(t) /\ ~Nested(t)
    <3>1. Single(t)' /\ (s = "enter" => ~monlock)
      BY <2>2, <2>3, <2>4, <2>6 DEF Single, At
    <3>2. ~Holds(t) /\ ~Holds(t)'
      BY <2>1, <2>2, <2>3, <2>6, <3>1, HoldsWhen
    <3> QED
      BY <1>a, <2>2, <2>3, <3>2, HoldersSame DEF At, LockTested
  <2> QED
    BY <2>1, <2>5, <2>6, LockedStep DEF LockStages
<1>5. ASSUME NEW t \in Tasks, LockCount(t)
      PROVE  HoldersOK'
  <2>1. Nested(t)
    BY <1>5, <1>a DEF LockCount, CountRead, CountStored, DoorOK
  <2>2. /\ \A u \in Tasks \ {t} : frames'[u] = frames[u] /\ stage'[u] = stage[u]
        /\ frames'[t] = frames[t] /\ stage'[t] \in {"store", "enter"}
        /\ UNCHANGED <<monlock, took, tokens>>
    BY <1>5, LockedStep, Moves DEF LockCount, CountRead, CountStored, Stages, monitor, At,
       LockStages, pointers
  <2>3. Nested(t)'
    BY <2>1, <2>2 DEF Nested, At
  <2> QED
    BY <1>a, <2>1, <2>2, <2>3, HoldsWhen, HoldersSame DEF At, LockTested
<1>15. ASSUME NEW t \in Tasks, LockCall(t)
       PROVE  HoldersOK'
  <2>1. /\ \A u \in Tasks \ {t} : frames'[u] = frames[u] /\ stage'[u] = stage[u]
        /\ frames'[t] = frames[t] /\ stage'[t] = "wait" /\ stage[t] = "call"
        /\ UNCHANGED <<monlock, took, tokens>>
    BY <1>15, LockedStep, Moves DEF LockCall, Stages, monitor, lock, pointers, At, LockStages
  <2>2. Holds(t)' <=> Holds(t)
    BY <1>a, <2>1 DEF Holds, Single, Nested, DoorOK, At
  <2>3. monlock
    BY <1>a, <2>1 DEF HoldersOK, LockTested
  <2> QED
    BY <1>a, <2>1, <2>2, <2>3, HoldersSame
<1>6. ASSUME NEW t \in Tasks, LockTake(t)
      PROVE  HoldersOK'
  <2>1. /\ \A u \in Tasks \ {t} : frames'[u] = frames[u] /\ stage'[u] = stage[u]
        /\ frames'[t] = frames[t] /\ stage'[t] = "enter" /\ stage[t] = "wait"
        /\ monlock' = monlock
    BY <1>6, LockedStep, Moves DEF LockTake, Stages, monitor, pointers, At, LockStages
  <2>2. /\ tokens > 0 /\ tokens' = tokens - 1
        /\ took' = [took EXCEPT ![t] = @ + 1]
    BY <1>6 DEF LockTake
  <2>3. Single(t) /\ frames[t][1] \notin Unlocked /\ monlock
    BY <1>a, <2>1, LockedStep DEF LockStages, LockTested, DoorOK, HoldersOK, At, Nested
  <2>4. Single(t)' /\ Holds(t)' /\ ~Holds(t)
    BY <2>1, <2>3, HoldsWhen DEF Single, At
  <2>5. \A u \in Tasks : ~Holds(u)
    BY <1>a, <2>2 DEF HoldersOK
  <2>6. \A u \in Tasks \ {t} : ~Holds(u)'
    BY <2>1, <2>5 DEF Holds, Single, Nested, At
  <2>7. took[t] = 0 /\ tokens = 1
    BY <1>a, <2>2, <2>4 DEF HoldersOK
  <2>8. /\ took' \in [Tasks -> {0, 1}] /\ tokens' = 0
        /\ took'[t] = 1 /\ \A u \in Tasks \ {t} : took'[u] = took[u]
    BY <1>a, <2>2, <2>7 DEF HoldersOK
  <2>9. \A u \in Tasks : took'[u] = 1 <=> Holds(u)'
    BY <1>a, <2>4, <2>5, <2>6, <2>8 DEF HoldersOK
  <2> QED
    BY <2>1, <2>3, <2>4, <2>6, <2>8, <2>9 DEF HoldersOK, At
<1>7. ASSUME NEW t \in Tasks, CallMonitor(t)
      PROVE  HoldersOK'
  <2>1. /\ \A u \in Tasks \ {t} : frames'[u] = frames[u] /\ stage'[u] = stage[u]
        /\ frames'[t] = frames[t] /\ stage'[t] \in {"enter", "inside"} /\ stage[t] = "enter"
        /\ UNCHANGED <<monlock, took, tokens>>
    BY <1>7 DEF CallMonitor, Goto, FramesInv, At, lock, pointers
  <2>2. Holds(t)' <=> Holds(t)
    BY <2>1 DEF Holds, Single, Nested, At
  <2> QED
    BY <1>a, <2>1, <2>2, HoldersSame DEF At, LockTested
<1>8. ASSUME NEW t \in Tasks, MonitorReturns(t)
      PROVE  HoldersOK'
  <2>1. stage[t] = "inside" /\ UNCHANGED <<monlock, took, tokens>>
    BY <1>8 DEF MonitorReturns, At, lock, pointers
  <2>2. Head(frames[t]) = frames[t][1] /\ (Single(t) \/ Nested(t))
    BY <2>1 DEF FramesInv, FramesOK, Idle, Single, Nested, At
  <2>3. CASE frames[t][1] \in Unlocked
    <3>1. /\ \A u \in Tasks \ {t} : frames'[u] = frames[u] /\ stage'[u] = stage[u]
          /\ Single(t) => Idle(t)'
          /\ Nested(t) => frames'[t] = <<"docommand">> /\ stage'[t] = "inside"
      BY <1>8, <2>1, <2>2, <2>3, Leaves DEF MonitorReturns, At, monitor
    <3>2. CASE Single(t)
      <4>1. ~Holds(t) /\ ~Holds(t)'
        BY <2>3, <3>1, <3>2, HoldsWhen
      <4> QED
        BY <1>a, <2>1, <3>1, <3>2, <4>1, HoldersSame DEF Idle, At, LockTested
    <3>3. CASE Nested(t)
      <4>1. Single(t)' /\ frames'[t][1] = "docommand"
        BY <3>1, <3>3, TheWrappers DEF Single, At
      <4>2. Holds(t)' <=> Holds(t)
        BY <2>1, <3>1, <3>3, <4>1, HoldsWhen, TheWrappers
      <4> QED
        BY <1>a, <2>1, <3>1, <3>3, <4>2, HoldersSame DEF At, LockTested
    <3> QED
      BY <2>2, <3>2, <3>3
  <2>4. CASE frames[t][1] \notin Unlocked
    <3>1. /\ \A u \in Tasks \ {t} : frames'[u] = frames[u] /\ stage'[u] = stage[u]
          /\ frames'[t] = frames[t] /\ stage'[t] = "unlock"
      BY <1>8, <2>1, <2>2, <2>4, Moves DEF MonitorReturns, At, Stages, monitor
    <3>2. Holds(t)' <=> Holds(t)
      BY <2>1, <3>1 DEF Holds, Single, Nested, At
    <3> QED
      BY <1>a, <2>1, <3>1, <3>2, HoldersSame DEF At, LockTested
  <2> QED
    BY <2>3, <2>4
<1>9. ASSUME NEW t \in Tasks, MonUnlock(t)
      PROVE  HoldersOK'
  <2>0. monunlock = monlock
    BY <1>a, <1>9 DEF MonUnlock, PointersInv, At, Proper
  <2>1. /\ stage[t] = "unlock" /\ UNCHANGED <<monlock, took, tokens>>
        /\ frames[t][1] \notin Unlocked /\ (Single(t) \/ Nested(t))
    BY <1>9, LockedStep DEF MonUnlock, At, lock, pointers, LockStages
  <2>2. ignorelock # 0 => Nested(Cli) /\ t = Cli
    BY <1>9, <1>a, <1>b, <2>1 DEF MonUnlock, PassedBy, InCommand, At
  <2>3. CASE ~monlock \/ ignorelock = 1
    <3>1. /\ \A u \in Tasks \ {t} : frames'[u] = frames[u] /\ stage'[u] = stage[u]
          /\ Single(t) => Idle(t)'
          /\ Nested(t) => frames'[t] = <<"docommand">> /\ stage'[t] = "inside"
      BY <1>9, <2>0, <2>1, <2>3, Leaves DEF MonUnlock, At, monitor
    <3>2. CASE Nested(t)
      <4>1. Single(t)' /\ frames'[t][1] = "docommand"
        BY <3>1, <3>2, TheWrappers DEF Single, At
      <4>2. Holds(t)' <=> Holds(t)
        BY <2>1, <3>1, <3>2, <4>1, HoldsWhen, TheWrappers
      <4> QED
        BY <1>a, <2>1, <3>1, <3>2, <4>2, HoldersSame DEF At, LockTested
    <3>3. CASE Single(t) /\ ~Nested(t)
      <4>1. ~monlock /\ Idle(t)'
        BY <2>2, <2>3, <3>1, <3>3
      <4>2. ~Holds(t) /\ ~Holds(t)'
        BY <2>1, <3>3, <4>1, HoldsWhen
      <4> QED
        BY <1>a, <2>1, <3>1, <4>1, <4>2, HoldersSame DEF Idle, At, LockTested
    <3> QED
      BY <2>1, <3>2, <3>3
  <2>4. CASE monlock /\ ignorelock # 1
    <3>1. ignorelock # 2
      BY <1>a, <2>1, <2>2, <2>4 DEF DoorOK
    <3>2. /\ \A u \in Tasks \ {t} : frames'[u] = frames[u] /\ stage'[u] = stage[u]
          /\ frames'[t] = frames[t] /\ stage'[t] = "release"
      BY <1>9, <2>0, <2>1, <2>4, <3>1, Moves DEF MonUnlock, At, Stages, monitor
    <3>3. Holds(t)' <=> Holds(t)
      BY <2>1, <3>2 DEF Holds, Single, Nested, At
    <3> QED
      BY <1>a, <2>1, <2>4, <3>2, <3>3, HoldersSame DEF LockTested, At
  <2> QED
    BY <1>a, <2>3, <2>4
<1>10. ASSUME NEW t \in Tasks, UnlockCount(t)
       PROVE  HoldersOK'
  BY <1>10, <1>a DEF UnlockCount, CountRead, CountStored, DoorOK
<1>11. ASSUME NEW t \in Tasks, LockRelease(t)
       PROVE  HoldersOK'
  <2>1. /\ stage[t] = "release" /\ monlock' = monlock /\ tokens' = tokens + 1
        /\ took' = [took EXCEPT ![t] = @ - 1]
        /\ frames[t][1] \notin Unlocked /\ (Single(t) \/ Nested(t))
    BY <1>11, LockedStep DEF LockRelease, At, LockStages, pointers
  <2>2. /\ \A u \in Tasks \ {t} : frames'[u] = frames[u] /\ stage'[u] = stage[u]
        /\ Single(t) => Idle(t)'
    BY <1>11, <2>1, Leaves DEF LockRelease, At, monitor
  <2>3. Single(t)
    BY <1>a, <2>1 DEF DoorOK, Nested
  <2>4. Holds(t) /\ Idle(t)' /\ ~Holds(t)'
    BY <1>a, <2>1, <2>2, <2>3, HoldsWhen DEF HoldersOK, At
  <2>5. took[t] = 1 /\ tokens = 0 /\ \A u \in Tasks \ {t} : ~Holds(u)
    BY <1>a, <2>4 DEF HoldersOK
  <2>6. /\ took' \in [Tasks -> {0, 1}] /\ tokens' = 1
        /\ took'[t] = 0 /\ \A u \in Tasks \ {t} : took'[u] = took[u]
    BY <1>a, <2>1, <2>5 DEF HoldersOK
  <2>7. \A u \in Tasks : ~Holds(u)'
    BY <2>2, <2>4, <2>5 DEF Holds, Single, Nested, At
  <2>8. \A u \in Tasks : took'[u] = 1 <=> Holds(u)'
    BY <1>a, <2>4, <2>5, <2>6, <2>7 DEF HoldersOK
  <2>9. \A u \in Tasks : stage'[u] \in LockTested \/ At(u, "release")' => monlock'
    BY <1>a, <2>1, <2>2, <2>4 DEF HoldersOK, Idle, At, LockTested
  <2> QED
    BY <2>6, <2>7, <2>8, <2>9 DEF HoldersOK
<1>12. CASE DisableMonLock \/ EnableMonLock
  <2>1. UNCHANGED <<frames, stage, monlock, took, tokens>>
    BY <1>12 DEF DisableMonLock, EnableMonLock, pointers
  <2>2. Holds(Cli)' <=> Holds(Cli)
    BY <2>1 DEF Holds, Single, Nested, At
  <2> QED
    BY <1>a, <2>1, <2>2, HoldersSame, TheWrappers DEF HoldersOK, At, LockTested
<1>13. ASSUME NEW f \in Called, CallFunction(f)
       PROVE  HoldersOK'
  <2>1. rc # -1 /\ Single(Cli) /\ frames[Cli][1] = "docommand" /\ stage[Cli] = "inside"
    BY <1>13, TheWrappers DEF CallFunction, InCommand, At, Single, FramesInv, FramesOK
  <2>2. /\ \A u \in Tasks \ {Cli} : frames'[u] = frames[u] /\ stage'[u] = stage[u]
        /\ frames'[Cli] = <<f, "docommand">>
        /\ stage'[Cli] \in {"enter", "lock"} /\ f # "docommand"
        /\ UNCHANGED <<monlock, took, tokens>>
    BY <1>13, <2>1, Enters, TheWrappers DEF CallFunction, InCommand, At, monitor, lock, pointers
  <2>3. Nested(Cli)'
    BY <2>2, TheWrappers DEF Nested, At
  <2>4. Holds(Cli)' <=> Holds(Cli)
    BY <2>1, <2>2, <2>3, HoldsWhen, TheWrappers
  <2> QED
    BY <1>a, <2>2, <2>4, HoldersSame, TheWrappers DEF At, LockTested
<1>14. \/ UNCHANGED <<monlock, tokens, took, frames, stage>>
       \/ \E l \in BOOLEAN : StoreLock(l)
       \/ \E t \in Tasks : TaskStep(t) /\ ~PointerGone(t)
       \/ UserStep
  BY DEF Next, vars, lock, pointers, StoreUnlock, Connect, TaskStep, PointerGone
<1> QED
  BY <1>1, <1>2, <1>3, <1>4, <1>5, <1>6, <1>7, <1>8, <1>9, <1>10, <1>11, <1>12, <1>13, <1>14,
     <1>15 DEF TaskStep, UserStep

-----------------------------------------------------------------------------
(* The theorems.                                                           *)

LEMMA InitHolds ==
  Init => FramesInv /\ ConnectingInv /\ PointersInv /\ ConnectedInv /\ CountInv /\ MonitorInv
<1> SUFFICES ASSUME Init
             PROVE  FramesInv /\ ConnectingInv /\ PointersInv /\ ConnectedInv /\ CountInv
                    /\ MonitorInv
  OBVIOUS
<1>1. \A t \in Tasks : Idle(t)
  BY DEF Init, Idle, At
<1>2. FramesInv
  BY <1>1 DEF Init, FramesInv, FramesOK, Stages, LockStages, At
<1>3. ConnectingInv /\ ConnectedInv
  <2>1. rc = -1 /\ ~crashed /\ relocked \in BOOLEAN /\ connecting = "no"
    BY DEF Init
  <2> QED
    BY <2>1 DEF ConnectingInv, ConnectedInv
<1>4. \A t \in Tasks : ~Holds(t) /\ stage[t] = "out"
  BY <1>1, HoldsWhen DEF Idle, At
<1>5. ~Nested(Cli)
  BY TheWrappers DEF Init, Nested, At
<1>6. ignorelock = 0 /\ ~opened /\ opened \in BOOLEAN
  BY DEF Init
<1>7. DoorOK
  BY <1>4, <1>5, <1>6 DEF DoorOK, At
<1>8. HoldersOK
  BY <1>4 DEF Init, HoldersOK, LockTested, At
<1>9. PointersInv
  BY <1>4 DEF Init, PointersInv, LockTested, UnlockTested, At
<1>10. CountInv
  BY DEF Init, CountInv
<1> QED
  BY <1>2, <1>3, <1>7, <1>8, <1>9, <1>10 DEF Init, MonitorInv

LEMMA FramesAlways == Spec => [](FramesInv /\ PointersInv /\ ConnectedInv)
<1>1. Init => FramesInv /\ ConnectingInv /\ PointersInv /\ ConnectedInv
  BY InitHolds
<1>2. FramesInv /\ ConnectingInv /\ PointersInv /\ ConnectedInv /\ [Next]_vars
        => FramesInv' /\ ConnectingInv' /\ PointersInv' /\ ConnectedInv'
  <2> SUFFICES ASSUME FramesInv, ConnectingInv, PointersInv, ConnectedInv, [Next]_vars
               PROVE  FramesInv' /\ ConnectingInv' /\ PointersInv' /\ ConnectedInv'
    OBVIOUS
  <2>1. relocked \in BOOLEAN
    BY DEF ConnectedInv
  <2> QED
    BY <2>1, FramesKept, ConnectingKept, PointersKept, ConnectedKept
<1> QED
  BY <1>1, <1>2, PTL DEF Spec

LEMMA CountAlways == Spec => []CountInv
<1>1. Init => CountInv
  BY InitHolds
<1> QED
  BY <1>1, CountKept, PTL DEF Spec

LEMMA MonitorAlways == Spec => []MonitorInv
<1>1. Init => MonitorInv
  BY InitHolds
<1>2. FramesInv /\ FramesInv' /\ PointersInv /\ CountInv /\ MonitorInv /\ [Next]_vars
        => MonitorInv'
  <2> SUFFICES ASSUME FramesInv, FramesInv', PointersInv, CountInv, MonitorInv, [Next]_vars
               PROVE  MonitorInv'
    OBVIOUS
  <2>1. misused' \in BOOLEAN /\ relocked' \in BOOLEAN
    BY TypesKept
  <2>2. Proper' => DoorOK' /\ HoldersOK'
    BY DoorKept, HoldersKept
  <2> QED
    BY <2>1, <2>2 DEF MonitorInv
<1> QED
  BY <1>1, <1>2, FramesAlways, CountAlways, PTL DEF Spec

\* When the monitor has all the functions, monConnect returns 0 and no call goes through a
\* null pointer, whatever the monitor, the tasks and the functions they call; unless the
\* locks are changed while a task is in the library, or one enters between the two stores.
THEOREM MissingFunctionsAreTold == Spec => []MissingIsTold
<1>1. ConnectedInv => MissingIsTold
  BY DEF ConnectedInv, MissingIsTold
<1> QED
  BY <1>1, FramesAlways, PTL

LEMMA OutIsIdle ==
  ASSUME FramesInv, NEW t \in Tasks
  PROVE  /\ At(t, "out") => Idle(t)
         /\ Idle(t) \/ Single(t) \/ Nested(t)
  BY DEF FramesInv, FramesOK, Single, Nested

\* With locks, and the back door used properly, two tasks are never in the monitor at once.
THEOREM MonitorIsExclusive == Spec => []Exclusion
<1>1. FramesInv /\ MonitorInv => Exclusion
  <2> SUFFICES ASSUME FramesInv, MonitorInv, monlock, Proper, NEW t \in Tasks, NEW u \in Tasks,
                      Inside(t), Inside(u)
               PROVE  t = u
    BY DEF Exclusion
  <2>1. ASSUME NEW v \in Tasks, Inside(v)
        PROVE  Holds(v)
    <3>1. ~Idle(v)
      BY <2>1 DEF Inside, Idle
    <3>2. CASE Nested(v)
      BY <3>2, HoldsWhen
    <3>3. CASE Single(v)
      <4>1. Len(frames[v]) = 1
        BY <3>3 DEF Single
      <4> QED
        BY <2>1, <3>3, <4>1, HoldsWhen DEF Inside, At
    <3> QED
      BY <3>1, <3>2, <3>3, OutIsIdle
  <2> QED
    BY <2>1 DEF MonitorInv, HoldersOK
<1> QED
  BY <1>1, FramesAlways, MonitorAlways, PTL

\* Under the same conditions each lock taken is given back, once, by the task that took it.
THEOREM LocksAreGivenBack == Spec => []LockBalanced
<1>1. FramesInv /\ MonitorInv => LockBalanced
  BY OutIsIdle, HoldsWhen DEF MonitorInv, HoldersOK, LockBalanced
<1> QED
  BY <1>1, FramesAlways, MonitorAlways, PTL

\* Under the same conditions a task that waits for the lock does not hold it: a function
\* that a command calls never waits for the lock of that command.
THEOREM CommandsDoNotBlockThemselves == Spec => []NoSelfDeadlock
<1>1. FramesInv /\ MonitorInv => NoSelfDeadlock
  <2> SUFFICES ASSUME FramesInv, MonitorInv, Proper, NEW t \in Tasks, At(t, "wait")
               PROVE  took[t] = 0
    BY DEF NoSelfDeadlock
  <2>1. ~Nested(t)
    BY DEF MonitorInv, DoorOK, Nested, At
  <2>2. Single(t)
    BY <2>1, OutIsIdle DEF Idle, At
  <2>3. ~Holds(t)
    BY <2>2, HoldsWhen DEF At
  <2> QED
    BY <2>3 DEF MonitorInv, HoldersOK
<1> QED
  BY <1>1, FramesAlways, MonitorAlways, PTL

-----------------------------------------------------------------------------
(* Types.                                                                  *)

\* The rest of TypeOK.
FunctionsTyped ==
  /\ connected \subseteq GetMonFunc \cup {"com"}
  /\ rc \in -1 .. Cardinality(Refusable)
FlagsTyped == opened \in BOOLEAN /\ crashed \in BOOLEAN
SemaphoreTyped ==
  /\ tokens \in Nat
  /\ took \in [Tasks -> -MaxAhead .. MaxAhead]

LEMMA FunctionsKept ==
  ASSUME FunctionsTyped, [Next]_vars
  PROVE  FunctionsTyped'
<1>1. ASSUME NEW refused \in SUBSET Refusable, Connect(GetMonFunc \ refused)
      PROVE  FunctionsTyped'
  <2>1. GetMonFunc \ (GetMonFunc \ refused) = refused
    BY MonitorAssumption
  <2>2. /\ IsFiniteSet(refused) /\ Cardinality(refused) <= Cardinality(Refusable)
        /\ Cardinality(refused) \in Nat /\ Cardinality(Refusable) \in Nat
    BY MonitorAssumption, FS_Subset, FS_CardinalityType
  <2> QED
    BY <1>1, <2>1, <2>2 DEF Connect, FunctionsTyped
<1>2. CASE UNCHANGED <<connected, rc>>
  BY <1>2 DEF FunctionsTyped
<1>3. [Next]_vars =>
        \/ UNCHANGED <<connected, rc>>
        \/ \E refused \in SUBSET Refusable : Connect(GetMonFunc \ refused)
  BY DEF Next, vars, TaskStep, UserStep, StoreLock, StoreUnlock, Call, MonLock, LockCount,
       CountRead, CountStored, LockCall, LockTake, CallMonitor, MonitorReturns, MonUnlock,
       UnlockCount, LockRelease, PointerGone, DisableMonLock, EnableMonLock, CallFunction,
       monitor
<1> QED
  BY <1>1, <1>2, <1>3

LEMMA FlagsKept ==
  ASSUME FlagsTyped, [Next]_vars
  PROVE  FlagsTyped'
<1>1. (opened' = opened \/ opened' \in BOOLEAN) /\ (crashed' = crashed \/ crashed' \in BOOLEAN)
  BY DEF Next, vars, TaskStep, UserStep, Connect, StoreLock, StoreUnlock, Call, MonLock,
       LockCount, CountRead, CountStored, LockCall, LockTake, CallMonitor, MonitorReturns,
       MonUnlock, UnlockCount, LockRelease, PointerGone, DisableMonLock, EnableMonLock,
       CallFunction, monitor
<1> QED
  BY <1>1 DEF FlagsTyped

LEMMA SemaphoreKept ==
  ASSUME SemaphoreTyped, [Next]_vars
  PROVE  SemaphoreTyped'
<1>1. ASSUME NEW t \in Tasks, LockTake(t)
      PROVE  SemaphoreTyped'
  <2>1. took[t] + 1 \in -MaxAhead .. MaxAhead /\ tokens - 1 \in Nat
    BY <1>1, MonitorAssumption DEF LockTake, SemaphoreTyped
  <2> QED
    BY <1>1, <2>1 DEF LockTake, SemaphoreTyped
<1>2. ASSUME NEW t \in Tasks, LockRelease(t)
      PROVE  SemaphoreTyped'
  <2>1. took[t] - 1 \in -MaxAhead .. MaxAhead
    BY <1>2, MonitorAssumption DEF LockRelease, SemaphoreTyped
  <2> QED
    BY <1>2, <2>1 DEF LockRelease, SemaphoreTyped
<1>3. CASE UNCHANGED <<tokens, took>>
  BY <1>3 DEF SemaphoreTyped
<1>4. [Next]_vars =>
        \/ UNCHANGED <<tokens, took>>
        \/ \E t \in Tasks : LockTake(t) \/ LockRelease(t)
  BY DEF Next, vars, TaskStep, UserStep, Connect, StoreLock, StoreUnlock, Call, MonLock,
       LockCount, CountRead, CountStored, LockCall, CallMonitor, MonitorReturns, MonUnlock,
       UnlockCount, PointerGone, DisableMonLock, EnableMonLock, CallFunction, lock
<1> QED
  BY <1>1, <1>2, <1>3, <1>4

\* Type correctness for any tasks, however the library is used.
THEOREM MonitorTypeCorrect == Spec => []TypeOK
<1>1. Init => FunctionsTyped /\ FlagsTyped /\ SemaphoreTyped
  <2> SUFFICES ASSUME Init
               PROVE  FunctionsTyped /\ FlagsTyped /\ SemaphoreTyped
    OBVIOUS
  <2>1. FunctionsTyped
    <3>1. Cardinality(Refusable) \in Nat
      BY MonitorAssumption, FS_CardinalityType
    <3>2. rc = -1 /\ connected = {}
      BY DEF Init
    <3> QED
      BY <3>1, <3>2 DEF FunctionsTyped
  <2>2. FlagsTyped
    BY DEF Init, FlagsTyped
  <2>3. SemaphoreTyped
    BY MonitorAssumption DEF Init, SemaphoreTyped
  <2> QED
    BY <2>1, <2>2, <2>3
<1>2. FramesInv /\ PointersInv /\ MonitorInv /\ CountInv /\ FunctionsTyped /\ FlagsTyped
        /\ SemaphoreTyped => TypeOK
  <2> SUFFICES ASSUME FramesInv, PointersInv, MonitorInv, CountInv, FunctionsTyped, FlagsTyped,
                      SemaphoreTyped
               PROVE  TypeOK
    OBVIOUS
  <2>1. /\ monlock \in BOOLEAN /\ monunlock \in BOOLEAN
        /\ connecting \in {"no", "unlock", "pointers"}
        /\ opened \in BOOLEAN /\ crashed \in BOOLEAN
        /\ misused \in BOOLEAN /\ relocked \in BOOLEAN
    BY DEF MonitorInv, PointersInv, FlagsTyped
  <2>2. /\ frames \in [Tasks -> Seq(Wrappers)]
        /\ stage \in [Tasks -> {"out", "lock", "count", "store", "call", "wait", "enter",
                                "inside", "unlock", "uncount", "unstore", "release"}]
    BY DEF FramesInv, Stages
  <2> QED
    BY <2>1, <2>2 DEF CountInv, FunctionsTyped, SemaphoreTyped, TypeOK
<1> QED
  BY <1>1, <1>2, FunctionsKept, FlagsKept, SemaphoreKept, FramesAlways, CountAlways,
     MonitorAlways, PTL DEF Spec
=============================================================================
