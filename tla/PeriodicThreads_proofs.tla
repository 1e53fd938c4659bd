----------------------- MODULE PeriodicThreads_proofs -----------------------
(***************************************************************************)
(* Proofs about PeriodicThreads, for any size of the arrays and any room   *)
(* in the kernel that is enough for them.                                  *)
(***************************************************************************)
EXTENDS PeriodicThreads, SequenceTheorems, FunctionTheorems, FiniteSetTheorems, TLAPS

\* A list of free slots: each of S is in it once.
Lists(list, S) ==
  /\ \A j \in 1 .. Len(list) : list[j] \in S
  /\ \A s \in S : \E j \in 1 .. Len(list) : list[j] = s
  /\ \A j, k \in 1 .. Len(list) : list[j] = list[k] => j = k

\* The kernel's lists of free slots are right, whoever the user.
FreeTasks == {t \in Tasks : pc[t] = "free"}
FreePeriods == {p \in Slots : owner[p] = None}
ListsOK == Lists(freeTasks, FreeTasks) /\ Lists(freePeriods, FreePeriods)

\* How far the menu is, whoever the user.
MenuOK ==
  /\ mainPc = "starting" => ~initialized /\ i <= Count
  /\ mainPc = "stopping" => initialized /\ i <= Count

\* The indices that have a thread, if the user is tidy.
Live(n) ==
  /\ n \in 0 .. Count - 1
  /\ mainPc = "starting" => n < i
  /\ mainPc = "stopping" => n >= i
  /\ mainPc \in {"menu", "exit"} => initialized

\* The tidy user's threads: one for each index, with a period or without.
ThreadsOK ==
  /\ \A t \in Tasks : pc[t] # "free" => \E n \in Index : Live(n) /\ Ids[n] = t
  /\ \A n \in Index : Live(n) => /\ Ids[n] \in Tasks /\ pc[Ids[n]] # "free"
                                 /\ index[Ids[n]] = n
PeriodsOK ==
  /\ \A n \in Index : Live(n) /\ pc[Ids[n]] \in {"period", "wake"} =>
       Periods[n] \in Slots /\ owner[Periods[n]] = Ids[n]
  /\ \A p \in Slots : owner[p] # None =>
       \E n \in Index : /\ Live(n) /\ Periods[n] = p /\ owner[p] = Ids[n]
                        /\ pc[Ids[n]] \in {"period", "wake"}
StatusOK ==
  \A t \in Tasks : /\ pc[t] # "returned"
                   /\ pc[t] = "created" => mainPc # "stopping"
                   /\ pc[t] # "free" => status[t] = "ok"

\* After a Stop that came too early there are too few periods for the threads left.
Existing == {p \in Slots : owner[p] # None}
EarlyInv == early /\ mainPc = "stopping" => Cardinality(Existing) < Count - i

PeriodicInv ==
  /\ TypeOK /\ ListsOK /\ MenuOK
  /\ tidy => ThreadsOK /\ PeriodsOK /\ StatusOK

-----------------------------------------------------------------------------
(* Types.                                                                  *)

LEMMA ConstantsAre ==
  /\ MaxCount \in Nat \ {0} /\ MaxTasks \in Nat /\ MaxPeriods \in Nat
  /\ MaxTasks >= MaxCount /\ MaxPeriods >= MaxCount
  /\ None \notin Tasks /\ None \notin Slots /\ 0 \in Index
  BY PeriodicAssumption DEF None, Tasks, Slots, Index

LEMMA Numbers ==
  ASSUME TypeOK
  PROVE  /\ 0 \in 0 .. MaxCount
         /\ i \in Nat /\ Count \in Nat /\ 0 < Count /\ Count <= MaxCount
         /\ i < Count => i \in Index /\ i + 1 \in 0 .. MaxCount
         /\ \A n : n \in Index <=> n \in Nat /\ n < MaxCount
         /\ \A n \in 0 .. Count - 1 : n \in Index
<1>1. i \in 0 .. MaxCount /\ Count \in 1 .. MaxCount
  BY DEF TypeOK
<1> QED
  BY <1>1, ConstantsAre DEF Index

LEMMA TypeKept ==
  ASSUME TypeOK, [Next]_vars
  PROVE  TypeOK'
<1> USE DEF TypeOK
<1>1. CASE UNCHANGED vars
  BY <1>1 DEF vars, globals, menu, kernel, history
<1>2. ASSUME NEW n \in 1 .. MaxCount, SetNumberOfPeriodicThreads(n)
      PROVE  TypeOK'
  <2>1. tidy' \in BOOLEAN
    BY <1>2 DEF SetNumberOfPeriodicThreads
  <2>2. UNCHANGED <<Ids, Periods, initialized, running, menu, kernel, early>> /\ Count' = n
    BY <1>2 DEF SetNumberOfPeriodicThreads
  <2> QED
    BY <2>1, <2>2 DEF menu, kernel
<1>3. CASE Start
  <2>1. 0 \in 0 .. MaxCount
    BY Numbers
  <2> QED
    BY <1>3, <2>1 DEF Start, kernel, history
<1>4. CASE CreateTask
  <2>1. Head(freeTasks) \in Tasks /\ Tail(freeTasks) \in Seq(Tasks)
    BY <1>4, HeadTailProperties DEF CreateTask
  <2>2. i \in Index /\ i + 1 \in 0 .. MaxCount
    BY <1>4, Numbers DEF CreateTask
  <2> QED
    BY <1>4, <2>1, <2>2 DEF CreateTask, history
<1>5. CASE CreateTaskFails \/ ExitMenu
  BY <1>5 DEF CreateTaskFails, ExitMenu, globals, kernel, history
<1>6. CASE Initialized
  BY <1>6 DEF Initialized, kernel, history
<1>7. ASSUME NEW last \in BOOLEAN, Stop(last)
      PROVE  TypeOK'
  <2>1. tidy' \in BOOLEAN /\ early' \in BOOLEAN
    BY <1>7 DEF Stop
  <2>2. UNCHANGED <<globals, kernel>> /\ mainPc' = "stopping" /\ i' = 0 /\ leaving' = last
    BY <1>7 DEF Stop
  <2>3. 0 \in 0 .. MaxCount
    BY Numbers
  <2> QED
    BY <2>1, <2>2, <2>3 DEF globals, kernel
<1>8. StopReturns => mainPc' \in {"menu", "exit"}
  BY DEF StopReturns
<1>9. CASE DeletePeriodFails
  BY <1>8, <1>9 DEF DeletePeriodFails, globals, kernel, history
<1>10. ASSUME NEW p, PeriodExists(p), p \in Slots \cup {None}, DeletePeriod(p)
       PROVE  owner' \in [Slots -> Tasks \cup {None}] /\ freePeriods' \in Seq(Slots)
  BY <1>10, AppendProperties DEF PeriodExists, DeletePeriod
<1>11. mainPc = "stopping" /\ i < Count => i \in Index
  BY Numbers
<1>12. CASE DeleteTaskFails
  <2>1. Periods[i] \in Slots \cup {None}
    BY <1>11, <1>12 DEF DeleteTaskFails
  <2>2. owner' \in [Slots -> Tasks \cup {None}] /\ freePeriods' \in Seq(Slots)
    BY <1>10, <1>12, <2>1 DEF DeleteTaskFails
  <2> QED
    BY <1>8, <1>12, <2>2 DEF DeleteTaskFails, globals, history
<1>13. CASE DeleteTask
  <2>1. Periods[i] \in Slots \cup {None} /\ Ids[i] \in Tasks
    BY <1>11, <1>13 DEF DeleteTask, TaskExists
  <2>2. owner' \in [Slots -> Tasks \cup {None}] /\ freePeriods' \in Seq(Slots)
    BY <1>10, <1>13, <2>1 DEF DeleteTask
  <2>3. freeTasks' \in Seq(Tasks)
    BY <1>13, <2>1, AppendProperties DEF DeleteTask
  <2>4. i + 1 \in 0 .. MaxCount
    BY <1>13, Numbers DEF DeleteTask
  <2> QED
    BY <1>13, <2>1, <2>2, <2>3, <2>4 DEF DeleteTask, globals, history
<1>14. CASE Stopped
  BY <1>8, <1>14 DEF Stopped, kernel, history
<1>15. ASSUME NEW t \in Tasks, CreatePeriod(t)
       PROVE  TypeOK'
  <2>1. Head(freePeriods) \in Slots /\ Tail(freePeriods) \in Seq(Slots)
    BY <1>15, HeadTailProperties DEF CreatePeriod
  <2> QED
    BY <1>15, <2>1 DEF CreatePeriod, menu, history
<1>16. ASSUME NEW t \in Tasks, CreatePeriodFails(t) \/ WakeAfter(t)
       PROVE  TypeOK'
  BY <1>16 DEF CreatePeriodFails, WakeAfter, globals, menu, history
<1>17. ASSUME NEW t \in Tasks, Period(t)
       PROVE  TypeOK'
  BY <1>17 DEF Period, PeriodStatus, globals, menu, history
<1> QED
  BY <1>1, <1>2, <1>3, <1>4, <1>5, <1>6, <1>7, <1>9, <1>12, <1>13, <1>14, <1>15, <1>16, <1>17
     DEF Next, MainLoop, MenuStep, TaskStep, Ended

LEMMA InitTypes == Init => TypeOK
<1> SUFFICES ASSUME Init
             PROVE  TypeOK
  OBVIOUS
<1>1. freeTasks \in Seq(Tasks) /\ freePeriods \in Seq(Slots)
  BY ConstantsAre DEF Init, Tasks, Slots
<1>2. tidy \in BOOLEAN /\ early \in BOOLEAN /\ initialized \in BOOLEAN /\ running \in BOOLEAN /\ leaving \in BOOLEAN
  BY DEF Init
<1>3. i \in 0 .. MaxCount /\ Count \in 1 .. MaxCount
  BY ConstantsAre DEF Init
<1>4. /\ Ids \in [Index -> Tasks \cup {None}] /\ Periods \in [Index -> Slots \cup {None}]
      /\ pc \in [Tasks -> {"free", "created", "period", "wake", "returned"}]
      /\ index \in [Tasks -> Index] /\ status \in [Tasks -> {"ok", "invalid id", "not owner"}]
      /\ owner \in [Slots -> Tasks \cup {None}]
  BY ConstantsAre DEF Init
<1>5. mainPc \in {"menu", "starting", "stopping", "exit"}
  BY DEF Init
<1> QED
  BY <1>1, <1>2, <1>3, <1>4, <1>5 DEF TypeOK

\* Every id designates an object or none, every index is inside its array.
THEOREM PeriodicTypeCorrect == Spec => []TypeOK
<1>1. Init => TypeOK
  BY InitTypes
<1> QED
  BY <1>1, TypeKept, PTL DEF Spec

-----------------------------------------------------------------------------
(* The lists of free slots.                                                *)

\* An object is made in the first free slot.
LEMMA Take ==
  ASSUME NEW T, NEW S, NEW list \in Seq(T), list # <<>>, Lists(list, S)
  PROVE  Head(list) \in S /\ Lists(Tail(list), S \ {Head(list)})
<1>1. /\ Len(list) \in Nat /\ Len(list) # 0 /\ Head(list) = list[1]
      /\ Len(Tail(list)) = Len(list) - 1
      /\ \A j \in 1 .. Len(list) - 1 : Tail(list)[j] = list[j + 1]
  BY HeadTailProperties, EmptySeq, LenProperties
<1>2. Head(list) \in S
  BY <1>1 DEF Lists
<1>3. ASSUME NEW j \in 1 .. Len(Tail(list))
      PROVE  Tail(list)[j] \in S \ {Head(list)}
  BY <1>1 DEF Lists
<1>4. ASSUME NEW s \in S \ {Head(list)}
      PROVE  \E j \in 1 .. Len(Tail(list)) : Tail(list)[j] = s
  <2>1. PICK k \in 1 .. Len(list) : list[k] = s
    BY DEF Lists
  <2>2. k # 1 /\ k - 1 \in 1 .. Len(Tail(list)) /\ (k - 1) + 1 = k
    BY <1>1, <2>1
  <2> QED
    BY <1>1, <2>1, <2>2
<1>5. \A j, k \in 1 .. Len(Tail(list)) : Tail(list)[j] = Tail(list)[k] => j = k
  BY <1>1 DEF Lists
<1> QED
  BY <1>2, <1>3, <1>4, <1>5 DEF Lists

\* A slot that is freed becomes the last.
LEMMA Put ==
  ASSUME NEW T, NEW S, NEW list \in Seq(T), NEW x \in T, x \notin S, Lists(list, S)
  PROVE  Lists(Append(list, x), S \cup {x})
<1>1. /\ Len(list) \in Nat /\ Len(Append(list, x)) = Len(list) + 1
      /\ \A j \in 1 .. Len(list) : Append(list, x)[j] = list[j]
      /\ Append(list, x)[Len(list) + 1] = x
  BY AppendProperties, LenProperties
<1> QED
  BY <1>1 DEF Lists

\* The first of a list is free.
LEMMA FirstIsFree ==
  ASSUME TypeOK, ListsOK
  PROVE  /\ freeTasks # <<>> => Head(freeTasks) \in Tasks /\ pc[Head(freeTasks)] = "free"
         /\ freePeriods # <<>> => Head(freePeriods) \in Slots /\ owner[Head(freePeriods)] = None
<1>1. freeTasks \in Seq(Tasks) /\ freePeriods \in Seq(Slots)
  BY DEF TypeOK
<1>2. freeTasks # <<>> => Head(freeTasks) \in FreeTasks
  BY <1>1, Take DEF ListsOK
<1>3. freePeriods # <<>> => Head(freePeriods) \in FreePeriods
  BY <1>1, Take DEF ListsOK
<1> QED
  BY <1>2, <1>3 DEF FreeTasks, FreePeriods

LEMMA NoneListed ==
  ASSUME NEW S, Lists(<<>>, S)
  PROVE  S = {}
  BY DEF Lists

LEMMA PeriodFreed ==
  ASSUME TypeOK, ListsOK, NEW p \in Slots, PeriodExists(p), DeletePeriod(p)
  PROVE  Lists(freePeriods', FreePeriods')
<1>1. p \notin FreePeriods /\ FreePeriods' = FreePeriods \cup {p}
  BY DEF TypeOK, PeriodExists, DeletePeriod, FreePeriods
<1>2. freePeriods \in Seq(Slots)
  BY DEF TypeOK
<1> QED
  BY <1>1, <1>2, Put DEF ListsOK, DeletePeriod

\* Each step keeps the lists right.
LEMMA ListsKept ==
  ASSUME TypeOK, ListsOK, [Next]_vars
  PROVE  ListsOK'
<1>a. /\ pc \in [Tasks -> {"free", "created", "period", "wake", "returned"}]
      /\ owner \in [Slots -> Tasks \cup {None}]
      /\ freeTasks \in Seq(Tasks) /\ freePeriods \in Seq(Slots)
      /\ Ids \in [Index -> Tasks \cup {None}] /\ Periods \in [Index -> Slots \cup {None}]
  BY DEF TypeOK
<1>1. CASE UNCHANGED kernel
  BY <1>1 DEF kernel, ListsOK, FreeTasks, FreePeriods
<1>2. CASE CreateTask
  <2>1. /\ freeTasks # <<>> /\ freeTasks' = Tail(freeTasks)
        /\ pc' = [pc EXCEPT ![Head(freeTasks)] = "created"]
        /\ UNCHANGED <<owner, freePeriods>>
    BY <1>2 DEF CreateTask
  <2>2. Head(freeTasks) \in FreeTasks /\ Lists(freeTasks', FreeTasks \ {Head(freeTasks)})
    BY <1>a, <2>1, Take DEF ListsOK
  <2>3. FreeTasks' = FreeTasks \ {Head(freeTasks)}
    BY <1>a, <2>1, <2>2 DEF FreeTasks
  <2> QED
    BY <2>1, <2>2, <2>3 DEF ListsOK, FreePeriods
<1>3. mainPc = "stopping" /\ i < Count => i \in Index
  BY Numbers
<1>4. CASE DeleteTaskFails
  <2>1. Periods[i] \in Slots /\ PeriodExists(Periods[i]) /\ DeletePeriod(Periods[i])
    BY <1>a, <1>3, <1>4 DEF DeleteTaskFails, PeriodExists
  <2>2. UNCHANGED <<pc, freeTasks>>
    BY <1>4 DEF DeleteTaskFails
  <2> QED
    BY <2>1, <2>2, PeriodFreed DEF ListsOK, FreeTasks
<1>5. CASE DeleteTask
  <2>1. /\ Periods[i] \in Slots /\ PeriodExists(Periods[i]) /\ DeletePeriod(Periods[i])
        /\ Ids[i] \in Tasks /\ pc[Ids[i]] # "free"
    BY <1>a, <1>3, <1>5 DEF DeleteTask, PeriodExists, TaskExists
  <2>2. pc' = [pc EXCEPT ![Ids[i]] = "free"] /\ freeTasks' = Append(freeTasks, Ids[i])
    BY <1>5 DEF DeleteTask
  <2>3. Ids[i] \notin FreeTasks /\ FreeTasks' = FreeTasks \cup {Ids[i]}
    BY <1>a, <2>1, <2>2 DEF FreeTasks
  <2>4. Lists(freeTasks', FreeTasks')
    BY <1>a, <2>1, <2>2, <2>3, Put DEF ListsOK
  <2> QED
    BY <2>1, <2>4, PeriodFreed DEF ListsOK
<1>6. ASSUME NEW t \in Tasks, CreatePeriod(t)
      PROVE  ListsOK'
  <2>1. /\ freePeriods # <<>> /\ freePeriods' = Tail(freePeriods)
        /\ owner' = [owner EXCEPT ![Head(freePeriods)] = t]
        /\ pc[t] = "created" /\ pc' = [pc EXCEPT ![t] = "period"]
        /\ freeTasks' = freeTasks
    BY <1>6 DEF CreatePeriod
  <2>2. Head(freePeriods) \in FreePeriods
        /\ Lists(freePeriods', FreePeriods \ {Head(freePeriods)})
    BY <1>a, <2>1, Take DEF ListsOK
  <2>3. FreePeriods' = FreePeriods \ {Head(freePeriods)}
    BY <1>a, <2>1, <2>2, ConstantsAre DEF FreePeriods
  <2>4. FreeTasks' = FreeTasks
    BY <1>a, <2>1 DEF FreeTasks
  <2> QED
    BY <2>1, <2>2, <2>3, <2>4 DEF ListsOK
<1>7. ASSUME NEW t \in Tasks, CreatePeriodFails(t) \/ Period(t) \/ WakeAfter(t)
      PROVE  ListsOK'
  <2>1. /\ pc[t] # "free" /\ UNCHANGED <<owner, freeTasks, freePeriods>>
        /\ \E s \in {"returned", "wake", "period"} : pc' = [pc EXCEPT ![t] = s]
    BY <1>7 DEF CreatePeriodFails, Period, WakeAfter
  <2>2. FreeTasks' = FreeTasks /\ FreePeriods' = FreePeriods
    BY <1>a, <2>1 DEF FreeTasks, FreePeriods
  <2> QED
    BY <2>1, <2>2 DEF ListsOK
<1>8. [Next]_vars =>
        \/ UNCHANGED kernel
        \/ CreateTask \/ DeleteTaskFails \/ DeleteTask
        \/ \E t \in Tasks : TaskStep(t)
  BY DEF Next, vars, MainLoop, MenuStep, Ended, CreateTaskFails, Initialized,
       DeletePeriodFails, Stopped, SetNumberOfPeriodicThreads, Start, Stop, ExitMenu
<1> QED
  BY <1>1, <1>2, <1>4, <1>5, <1>6, <1>7, <1>8 DEF TaskStep

\* Each step keeps what is known of the menu.
LEMMA MenuKept ==
  ASSUME TypeOK, MenuOK, [Next]_vars
  PROVE  MenuOK'
<1>1. CASE CreateTask \/ DeleteTask
  <2>1. i' <= Count' /\ mainPc' = mainPc /\ initialized' = initialized
    BY <1>1, Numbers DEF CreateTask, DeleteTask, globals
  <2> QED
    BY <2>1 DEF MenuOK
<1>2. ASSUME Start \/ \E last : Stop(last)
      PROVE  MenuOK'
  <2>1. i' = 0 /\ 0 <= Count' /\ initialized' = initialized
    BY <1>2, Numbers DEF Start, Stop, globals
  <2>2. \/ mainPc' = "starting" /\ ~initialized
        \/ mainPc' = "stopping" /\ initialized
    BY <1>2 DEF Start, Stop
  <2> QED
    BY <2>1, <2>2 DEF MenuOK
<1>3. CASE CreateTaskFails \/ Initialized \/ DeletePeriodFails \/ DeleteTaskFails \/ Stopped
           \/ ExitMenu \/ (\E n : SetNumberOfPeriodicThreads(n))
  BY <1>3 DEF CreateTaskFails, Initialized, DeletePeriodFails, DeleteTaskFails, Stopped,
       StopReturns, ExitMenu, SetNumberOfPeriodicThreads, menu, MenuOK
<1>4. CASE UNCHANGED <<mainPc, i, initialized, Count>>
  BY <1>4 DEF MenuOK
<1>5. [Next]_vars =>
        \/ CreateTask \/ DeleteTask \/ Start \/ (\E last : Stop(last))
        \/ CreateTaskFails \/ Initialized \/ DeletePeriodFails \/ DeleteTaskFails \/ Stopped
        \/ ExitMenu \/ (\E n : SetNumberOfPeriodicThreads(n))
        \/ UNCHANGED <<mainPc, i, initialized, Count>>
  BY DEF Next, vars, MainLoop, MenuStep, TaskStep, Ended, CreatePeriod, CreatePeriodFails,
       Period, WakeAfter, globals, menu
<1> QED
  BY <1>1, <1>2, <1>3, <1>4, <1>5

-----------------------------------------------------------------------------
(* Nothing runs out.                                                       *)

\* A task for each index below i leaves one for the index i.
LEMMA TasksSuffice ==
  ASSUME TypeOK, ListsOK, ThreadsOK, mainPc = "starting", i < Count
  PROVE  freeTasks # <<>>
<1> SUFFICES ASSUME freeTasks = <<>>
             PROVE  FALSE
  OBVIOUS
<1>1. \A t \in Tasks : pc[t] # "free"
  BY NoneListed DEF ListsOK, FreeTasks
<1> DEFINE Made == {n \in Index : Live(n)}
           f == [n \in Made |-> IF Ids[n] \in Tasks THEN Ids[n] ELSE 1]
<1>2. Made \subseteq 0 .. i - 1
  <2>1. ASSUME NEW n \in Made
        PROVE  n \in Nat /\ n < i
    BY Numbers DEF Live
  <2> QED
    BY <2>1, Numbers
<1>3. IsFiniteSet(Made) /\ Cardinality(Made) <= i
  <2>1. i \in Nat
    BY Numbers
  <2>2. IsFiniteSet(0 .. i - 1) /\ Cardinality(0 .. i - 1) = i
    BY <2>1, FS_Interval
  <2> QED
    BY <1>2, <2>2, FS_Subset
<1>4. f \in Surjection(Made, Tasks)
  <2>1. \A n \in Made : Ids[n] \in Tasks
    BY DEF ThreadsOK
  <2>2. \A t \in Tasks : \E n \in Made : Ids[n] = t
    BY <1>1 DEF ThreadsOK
  <2> QED
    BY <2>1, <2>2, Fun_IsSurj
<1>5. Cardinality(Tasks) <= Cardinality(Made)
  BY <1>3, <1>4, FS_Surjection
<1>6. Cardinality(Tasks) = MaxTasks
  BY ConstantsAre, FS_Interval DEF Tasks
<1>7. Cardinality(Made) \in Nat
  BY <1>3, FS_CardinalityType
<1>8. i \in Nat /\ Count \in Nat /\ Count <= MaxCount /\ MaxCount <= MaxTasks
      /\ MaxCount \in Nat /\ MaxTasks \in Nat
  BY Numbers, ConstantsAre
<1> HIDE DEF Made, f
<1> QED
  BY <1>3, <1>5, <1>6, <1>7, <1>8

\* A period for each other thread leaves one for a thread that has none.
LEMMA PeriodsSuffice ==
  ASSUME TypeOK, ListsOK, ThreadsOK, PeriodsOK, NEW t \in Tasks, pc[t] = "created"
  PROVE  freePeriods # <<>>
<1> SUFFICES ASSUME freePeriods = <<>>
             PROVE  FALSE
  OBVIOUS
<1>1. \A p \in Slots : owner[p] # None
  BY NoneListed DEF ListsOK, FreePeriods
<1>2. PICK m \in Index : Live(m) /\ Ids[m] = t
  BY DEF ThreadsOK
<1> DEFINE With == Index \ {m}
           f == [n \in With |-> IF Periods[n] \in Slots THEN Periods[n] ELSE 1]
<1>3. IsFiniteSet(Index) /\ Cardinality(Index) = MaxCount
  BY ConstantsAre, FS_Interval DEF Index
<1>4. IsFiniteSet(With) /\ Cardinality(With) = MaxCount - 1
  BY <1>3, FS_RemoveElement
<1>5. \A p \in Slots : \E n \in With : Periods[n] = p
  <2>1. ASSUME NEW p \in Slots
        PROVE  \E n \in With : Periods[n] = p
    <3>1. PICK n \in Index : Periods[n] = p /\ pc[Ids[n]] \in {"period", "wake"}
      BY <1>1 DEF PeriodsOK
    <3>2. n # m
      BY <1>2, <3>1
    <3> QED
      BY <3>1, <3>2
  <2> QED
    BY <2>1
<1>6. 1 \in Slots
  BY ConstantsAre DEF Slots
<1>7. f \in Surjection(With, Slots)
  BY <1>5, <1>6, Fun_IsSurj
<1>8. Cardinality(Slots) <= Cardinality(With)
  BY <1>4, <1>7, FS_Surjection
<1>9. Cardinality(Slots) = MaxPeriods
  BY ConstantsAre, FS_Interval DEF Slots
<1> HIDE DEF With, f
<1> QED
  BY <1>4, <1>8, <1>9, ConstantsAre

-----------------------------------------------------------------------------
(* The tidy user's threads.                                                *)

LEMMA TidyBefore ==
  ASSUME TypeOK, [Next]_vars
  PROVE  /\ tidy' => tidy
         /\ \A n : SetNumberOfPeriodicThreads(n) /\ tidy' /\ initialized => n = Count
         /\ \A last : Stop(last) /\ tidy' => \A t \in Tasks : pc[t] # "created"
<1>1. tidy \in BOOLEAN
  BY DEF TypeOK
<1>2. \/ tidy' = tidy
      \/ \E n : SetNumberOfPeriodicThreads(n)
      \/ \E last : Stop(last)
  BY DEF Next, vars, MainLoop, MenuStep, TaskStep, Ended, Start, CreateTask, CreateTaskFails,
       Initialized, ExitMenu, DeletePeriodFails, DeleteTaskFails, DeleteTask, Stopped,
       CreatePeriod, CreatePeriodFails, Period, WakeAfter, history
<1>3. \A n : SetNumberOfPeriodicThreads(n) => tidy' = (tidy /\ (initialized => n = Count))
  BY DEF SetNumberOfPeriodicThreads
<1>4. \A last : Stop(last) => tidy' = (tidy /\ \A t \in Tasks : pc[t] # "created")
  BY DEF Stop
<1>5. \A n : SetNumberOfPeriodicThreads(n) /\ tidy' => tidy /\ (initialized => n = Count)
  BY <1>1, <1>3
<1>6. \A last : Stop(last) /\ tidy' => tidy /\ \A t \in Tasks : pc[t] # "created"
  BY <1>1, <1>4
<1> QED
  BY <1>2, <1>5, <1>6

\* The menu goes on, and the threads are the same.
LEMMA SameThreads ==
  ASSUME ThreadsOK, PeriodsOK, StatusOK, UNCHANGED <<Ids, Periods, kernel>>,
         \A n \in Index : Live(n)' <=> Live(n),
         mainPc' = "stopping" => \A t \in Tasks : pc[t] # "created"
  PROVE  ThreadsOK' /\ PeriodsOK' /\ StatusOK'
<1>1. ThreadsOK'
  BY DEF kernel, ThreadsOK
<1>2. PeriodsOK'
  BY DEF kernel, PeriodsOK
<1>3. StatusOK'
  BY DEF kernel, StatusOK
<1> QED
  BY <1>1, <1>2, <1>3

LEMMA MenuKeepsThreads ==
  ASSUME TypeOK, ListsOK, MenuOK, ThreadsOK, PeriodsOK, StatusOK, tidy', [Next]_vars,
         MainLoop \/ MenuStep \/ UNCHANGED vars,
         ~(CreateTask \/ DeletePeriodFails \/ DeleteTaskFails \/ DeleteTask)
  PROVE  ThreadsOK' /\ PeriodsOK' /\ StatusOK'
<1>a. \A n \in Index : Live(n) <=> /\ n \in 0 .. Count - 1
                                   /\ mainPc = "starting" => n < i
                                   /\ mainPc = "stopping" => n >= i
                                   /\ mainPc \in {"menu", "exit"} => initialized
  BY DEF Live
<1>b. \A n \in Index : Live(n)' <=> /\ n \in 0 .. Count' - 1
                                    /\ mainPc' = "starting" => n < i'
                                    /\ mainPc' = "stopping" => n >= i'
                                    /\ mainPc' \in {"menu", "exit"} => initialized'
  BY DEF Live
<1>c. \A n \in 0 .. Count - 1 : n >= 0 /\ ~(n < 0) /\ (i >= Count => ~(n >= i))
                                /\ (i = Count => n < i)
  BY Numbers
<1>1. CASE UNCHANGED vars
  <2>1. \A n \in Index : Live(n)' <=> Live(n)
    BY <1>1 DEF vars, globals, menu, Live
  <2> QED
    BY <1>1, <2>1, SameThreads DEF vars, globals, menu, StatusOK
<1>2. ASSUME NEW m, SetNumberOfPeriodicThreads(m)
      PROVE  ThreadsOK' /\ PeriodsOK' /\ StatusOK'
  <2>1. /\ mainPc = "menu" /\ mainPc' = "menu" /\ Count' = m /\ initialized' = initialized
        /\ UNCHANGED <<Ids, Periods, kernel>>
    BY <1>2 DEF SetNumberOfPeriodicThreads, menu
  <2>2. initialized => m = Count
    BY <1>2, TidyBefore
  <2>3. \A n \in Index : Live(n)' <=> Live(n)
    BY <1>a, <1>b, <2>1, <2>2
  <2> QED
    BY <2>1, <2>3, SameThreads
<1>3. CASE Start
  <2>1. /\ mainPc = "menu" /\ mainPc' = "starting" /\ ~initialized /\ i' = 0 /\ Count' = Count
        /\ UNCHANGED <<Ids, Periods, kernel>>
    BY <1>3 DEF Start
  <2>2. \A n \in Index : Live(n)' <=> Live(n)
    BY <1>a, <1>b, <1>c, <2>1
  <2> QED
    BY <2>1, <2>2, SameThreads
<1>4. CASE CreateTaskFails
  BY <1>4, TasksSuffice DEF CreateTaskFails
<1>5. CASE Initialized
  <2>1. /\ mainPc = "starting" /\ mainPc' = "menu" /\ initialized' /\ i >= Count /\ Count' = Count
        /\ UNCHANGED <<Ids, Periods, kernel>>
    BY <1>5 DEF Initialized
  <2>2. i = Count
    <3>1. i <= Count /\ i >= Count
      BY <2>1 DEF MenuOK
    <3> QED
      BY <3>1, Numbers
  <2>3. \A n \in Index : Live(n)' <=> Live(n)
    BY <1>a, <1>b, <1>c, <2>1, <2>2
  <2> QED
    BY <2>1, <2>3, SameThreads
<1>6. ASSUME NEW last, Stop(last)
      PROVE  ThreadsOK' /\ PeriodsOK' /\ StatusOK'
  <2>1. /\ mainPc = "menu" /\ mainPc' = "stopping" /\ initialized /\ i' = 0 /\ Count' = Count
        /\ UNCHANGED <<Ids, Periods, kernel>>
    BY <1>6 DEF Stop, globals
  <2>2. \A n \in Index : Live(n)' <=> Live(n)
    BY <1>a, <1>b, <1>c, <2>1
  <2> QED
    BY <1>6, <2>1, <2>2, SameThreads, TidyBefore
<1>7. CASE ExitMenu
  <2>1. /\ mainPc = "menu" /\ mainPc' = "exit" /\ initialized' = initialized /\ Count' = Count
        /\ UNCHANGED <<Ids, Periods, kernel>>
    BY <1>7 DEF ExitMenu, globals
  <2>2. \A n \in Index : Live(n)' <=> Live(n)
    BY <1>a, <1>b, <2>1
  <2> QED
    BY <2>1, <2>2, SameThreads
<1>8. CASE Stopped
  <2>1. /\ mainPc = "stopping" /\ mainPc' \in {"menu", "exit"} /\ initialized' = FALSE
        /\ i >= Count /\ Count' = Count /\ UNCHANGED <<Ids, Periods, kernel>>
    BY <1>8 DEF Stopped, StopReturns
  <2>2. \A n \in Index : Live(n)' <=> Live(n)
    BY <1>a, <1>b, <1>c, <2>1
  <2> QED
    BY <2>1, <2>2, SameThreads
<1> QED
  BY <1>1, <1>2, <1>3, <1>4, <1>5, <1>6, <1>7, <1>8 DEF MainLoop, MenuStep

LEMMA CreateKeepsThreads ==
  ASSUME TypeOK, TypeOK', ListsOK, ThreadsOK, PeriodsOK, StatusOK, CreateTask
  PROVE  ThreadsOK' /\ PeriodsOK' /\ StatusOK'
<1> DEFINE t == Head(freeTasks)
<1>1. t \in Tasks /\ pc[t] = "free"
  BY FirstIsFree DEF CreateTask
<1>2. /\ Ids' = [Ids EXCEPT ![i] = t] /\ pc' = [pc EXCEPT ![t] = "created"]
      /\ index' = [index EXCEPT ![t] = i] /\ status' = [status EXCEPT ![t] = "ok"]
      /\ i' = i + 1 /\ i < Count /\ mainPc = "starting"
      /\ UNCHANGED <<mainPc, Count, Periods, owner>>
  BY DEF CreateTask
<1>3. /\ pc \in [Tasks -> {"free", "created", "period", "wake", "returned"}]
      /\ Ids \in [Index -> Tasks \cup {None}]
      /\ index \in [Tasks -> Index] /\ status \in [Tasks -> {"ok", "invalid id", "not owner"}]
  BY DEF TypeOK
<1>4. i \in Index /\ \A n \in Index : n \in Nat
  BY <1>2, Numbers
<1>5. \A n \in Index : Live(n)' <=> Live(n) \/ n = i
  <2>1. \A n \in Index : Live(n) <=> n \in 0 .. Count - 1 /\ n < i
    BY <1>2 DEF Live
  <2>2. \A n \in Index : Live(n)' <=> n \in 0 .. Count - 1 /\ n < i + 1
    BY <1>2 DEF Live
  <2>3. \A n \in Index : n < i + 1 <=> n < i \/ n = i
    BY <1>4, Numbers
  <2>4. i \in 0 .. Count - 1
    BY <1>2, Numbers
  <2> QED
    BY <2>1, <2>2, <2>3, <2>4
<1>6. ~Live(i)
  BY <1>2, <1>4 DEF Live
<1> HIDE DEF t
<1>7. \A n \in Index : Live(n) => n # i /\ Ids'[n] = Ids[n] /\ Ids[n] # t /\ Ids[n] \in Tasks
                                  /\ pc'[Ids[n]] = pc[Ids[n]]
                                  /\ index'[Ids[n]] = index[Ids[n]]
  BY <1>1, <1>2, <1>3, <1>6 DEF ThreadsOK
<1>8. Ids'[i] = t /\ pc'[t] = "created" /\ index'[t] = i /\ status'[t] = "ok"
  BY <1>1, <1>2, <1>3, <1>4
<1>9. \A u \in Tasks \ {t} : pc'[u] = pc[u] /\ status'[u] = status[u]
  BY <1>2, <1>3
<1>10. ThreadsOK'
  <2>1. ASSUME NEW u \in Tasks, pc'[u] # "free"
        PROVE  \E n \in Index : Live(n)' /\ Ids'[n] = u
    BY <1>4, <1>5, <1>7, <1>8, <1>9, <2>1 DEF ThreadsOK
  <2>2. ASSUME NEW n \in Index, Live(n)'
        PROVE  Ids'[n] \in Tasks /\ pc'[Ids'[n]] # "free" /\ index'[Ids'[n]] = n
    BY <1>1, <1>5, <1>7, <1>8, <2>2 DEF ThreadsOK
  <2> QED
    BY <2>1, <2>2 DEF ThreadsOK
<1>11. PeriodsOK'
  <2>1. ASSUME NEW n \in Index, Live(n)', pc'[Ids'[n]] \in {"period", "wake"}
        PROVE  Periods'[n] \in Slots /\ owner'[Periods'[n]] = Ids'[n]
    BY <1>2, <1>5, <1>7, <1>8, <2>1 DEF PeriodsOK
  <2>2. ASSUME NEW p \in Slots, owner'[p] # None
        PROVE  \E n \in Index : /\ Live(n)' /\ Periods'[n] = p /\ owner'[p] = Ids'[n]
                                /\ pc'[Ids'[n]] \in {"period", "wake"}
    BY <1>2, <1>5, <1>7, <2>2 DEF PeriodsOK
  <2> QED
    BY <2>1, <2>2 DEF PeriodsOK
<1>12. StatusOK'
  BY <1>2, <1>8, <1>9 DEF StatusOK
<1> QED
  BY <1>10, <1>11, <1>12

\* While Stop runs, the next thread has its period, and both are there to be deleted.
LEMMA NextIsThere ==
  ASSUME TypeOK, ThreadsOK, PeriodsOK, StatusOK, mainPc = "stopping", i < Count
  PROVE  /\ i \in Index /\ Live(i) /\ Ids[i] \in Tasks /\ Periods[i] \in Slots
         /\ owner[Periods[i]] = Ids[i]
         /\ PeriodExists(Periods[i]) /\ TaskExists(Ids[i])
<1>1. i \in Index /\ i \in 0 .. Count - 1 /\ i >= i
  BY Numbers
<1>2. Live(i)
  BY <1>1 DEF Live
<1>3. Ids[i] \in Tasks /\ pc[Ids[i]] # "free"
  BY <1>1, <1>2 DEF ThreadsOK
<1>4. pc[Ids[i]] \in {"period", "wake"}
  BY <1>3 DEF StatusOK, TypeOK
<1>5. Periods[i] \in Slots /\ owner[Periods[i]] = Ids[i]
  BY <1>1, <1>2, <1>4 DEF PeriodsOK
<1> QED
  BY <1>1, <1>2, <1>3, <1>5, ConstantsAre DEF PeriodExists, TaskExists

LEMMA DeleteKeepsThreads ==
  ASSUME TypeOK, TypeOK', ThreadsOK, PeriodsOK, StatusOK, DeleteTask
  PROVE  ThreadsOK' /\ PeriodsOK' /\ StatusOK'
<1>1. /\ mainPc = "stopping" /\ i < Count /\ i' = i + 1
      /\ pc' = [pc EXCEPT ![Ids[i]] = "free"]
      /\ owner' = [owner EXCEPT ![Periods[i]] = None]
      /\ UNCHANGED <<mainPc, Count, Ids, Periods, index, status>>
  BY DEF DeleteTask, DeletePeriod, globals
<1>2. /\ pc \in [Tasks -> {"free", "created", "period", "wake", "returned"}]
      /\ owner \in [Slots -> Tasks \cup {None}]
  BY DEF TypeOK
<1>3. /\ i \in Index /\ Live(i) /\ Ids[i] \in Tasks /\ Periods[i] \in Slots
      /\ owner[Periods[i]] = Ids[i]
  BY <1>1, NextIsThere
<1>4. \A n \in Index : Live(n)' <=> Live(n) /\ n # i
  <2>1. \A n \in Index : Live(n) <=> n \in 0 .. Count - 1 /\ n >= i
    BY <1>1 DEF Live
  <2>2. \A n \in Index : Live(n)' <=> n \in 0 .. Count - 1 /\ n >= i + 1
    BY <1>1 DEF Live
  <2>3. \A n \in Index : n >= i + 1 <=> n >= i /\ n # i
    BY Numbers
  <2> QED
    BY <2>1, <2>2, <2>3
<1>5. \A n \in Index : Live(n) /\ n # i => Ids[n] # Ids[i] /\ pc'[Ids[n]] = pc[Ids[n]]
  BY <1>1, <1>2, <1>3 DEF ThreadsOK
<1>6. pc'[Ids[i]] = "free" /\ \A u \in Tasks \ {Ids[i]} : pc'[u] = pc[u]
  BY <1>1, <1>2, <1>3
<1>7. owner'[Periods[i]] = None /\ \A p \in Slots \ {Periods[i]} : owner'[p] = owner[p]
  BY <1>1, <1>2, <1>3
<1>8. ThreadsOK'
  <2>1. ASSUME NEW u \in Tasks, pc'[u] # "free"
        PROVE  \E n \in Index : Live(n)' /\ Ids'[n] = u
    <3>1. u # Ids[i] /\ pc[u] # "free"
      BY <1>6, <2>1
    <3> QED
      BY <1>1, <1>4, <3>1 DEF ThreadsOK
  <2>2. ASSUME NEW n \in Index, Live(n)'
        PROVE  Ids'[n] \in Tasks /\ pc'[Ids'[n]] # "free" /\ index'[Ids'[n]] = n
    BY <1>1, <1>4, <1>5, <2>2 DEF ThreadsOK
  <2> QED
    BY <2>1, <2>2 DEF ThreadsOK
<1>9. PeriodsOK'
  <2>1. ASSUME NEW n \in Index, Live(n)', pc'[Ids'[n]] \in {"period", "wake"}
        PROVE  Periods'[n] \in Slots /\ owner'[Periods'[n]] = Ids'[n]
    <3>1. Live(n) /\ Ids[n] # Ids[i] /\ pc[Ids[n]] \in {"period", "wake"}
      BY <1>1, <1>4, <1>5, <2>1
    <3>2. Periods[n] \in Slots /\ owner[Periods[n]] = Ids[n]
      BY <3>1 DEF PeriodsOK
    <3> QED
      BY <1>1, <1>3, <1>7, <3>1, <3>2
  <2>2. ASSUME NEW p \in Slots, owner'[p] # None
        PROVE  \E n \in Index : /\ Live(n)' /\ Periods'[n] = p /\ owner'[p] = Ids'[n]
                                /\ pc'[Ids'[n]] \in {"period", "wake"}
    <3>1. p # Periods[i] /\ owner'[p] = owner[p]
      BY <1>7, <2>2
    <3>2. PICK n \in Index : /\ Live(n) /\ Periods[n] = p /\ owner[p] = Ids[n]
                             /\ pc[Ids[n]] \in {"period", "wake"}
      BY <2>2, <3>1 DEF PeriodsOK
    <3> QED
      BY <1>1, <1>4, <1>5, <3>1, <3>2
  <2> QED
    BY <2>1, <2>2 DEF PeriodsOK
<1>10. StatusOK'
  BY <1>1, <1>6 DEF StatusOK
<1> QED
  BY <1>8, <1>9, <1>10

LEMMA TaskKeepsThreads ==
  ASSUME TypeOK, TypeOK', ListsOK, ThreadsOK, PeriodsOK, StatusOK,
         mainPc = "menu", NEW t \in Tasks, TaskStep(t)
  PROVE  ThreadsOK' /\ PeriodsOK' /\ StatusOK'
<1>a. /\ pc \in [Tasks -> {"free", "created", "period", "wake", "returned"}]
      /\ owner \in [Slots -> Tasks \cup {None}]
      /\ Periods \in [Index -> Slots \cup {None}]
      /\ status \in [Tasks -> {"ok", "invalid id", "not owner"}]
  BY DEF TypeOK
<1>b. /\ UNCHANGED <<Ids, index, Count, initialized, mainPc, i>>
      /\ pc[t] \in {"created", "period", "wake"}
  BY DEF TaskStep, CreatePeriod, CreatePeriodFails, Period, WakeAfter, globals, menu
<1>c. \A n \in Index : Live(n)' <=> Live(n)
  BY <1>b DEF Live
<1>d. PICK m \in Index : Live(m) /\ Ids[m] = t /\ index[t] = m
  BY <1>b DEF ThreadsOK
<1>e. \A n \in Index : Live(n) /\ n # m => Ids[n] \in Tasks /\ Ids[n] # t
  BY <1>d DEF ThreadsOK
<1>f. ASSUME NEW s \in {"period", "wake"}, pc' = [pc EXCEPT ![t] = s]
      PROVE  /\ pc'[t] = s /\ \A u \in Tasks \ {t} : pc'[u] = pc[u]
             /\ ThreadsOK'
  BY <1>a, <1>b, <1>c, <1>f DEF ThreadsOK
<1>1. CASE CreatePeriod(t)
  <2> DEFINE q == Head(freePeriods)
  <2>1. q \in Slots /\ owner[q] = None
    BY <1>1, FirstIsFree DEF CreatePeriod
  <2>2. /\ pc[t] = "created" /\ pc' = [pc EXCEPT ![t] = "period"]
        /\ Periods' = [Periods EXCEPT ![m] = q] /\ owner' = [owner EXCEPT ![q] = t]
        /\ status' = status
    BY <1>1, <1>d DEF CreatePeriod
  <2> HIDE DEF q
  <2>3. /\ pc'[t] = "period" /\ \A u \in Tasks \ {t} : pc'[u] = pc[u]
        /\ ThreadsOK'
    BY <1>f, <2>2
  <2>4. /\ Periods'[m] = q /\ \A n \in Index \ {m} : Periods'[n] = Periods[n]
        /\ owner'[q] = t /\ \A p \in Slots \ {q} : owner'[p] = owner[p]
    BY <1>a, <2>1, <2>2
  <2>5. PeriodsOK'
    <3>1. ASSUME NEW n \in Index, Live(n)', pc'[Ids'[n]] \in {"period", "wake"}
          PROVE  Periods'[n] \in Slots /\ owner'[Periods'[n]] = Ids'[n]
      <4>1. CASE n = m
        BY <1>b, <1>d, <2>1, <2>4, <4>1
      <4>2. CASE n # m
        <5>1. Live(n) /\ Ids[n] \in Tasks \ {t} /\ pc[Ids[n]] \in {"period", "wake"}
          BY <1>b, <1>c, <1>e, <2>3, <3>1, <4>2
        <5>2. Periods[n] \in Slots /\ owner[Periods[n]] = Ids[n] /\ Ids[n] # None
          BY <5>1, ConstantsAre DEF PeriodsOK
        <5> QED
          BY <1>b, <2>1, <2>4, <4>2, <5>2
      <4> QED
        BY <4>1, <4>2
    <3>2. ASSUME NEW p \in Slots, owner'[p] # None
          PROVE  \E n \in Index : /\ Live(n)' /\ Periods'[n] = p /\ owner'[p] = Ids'[n]
                                  /\ pc'[Ids'[n]] \in {"period", "wake"}
      <4>1. CASE p = q
        BY <1>b, <1>c, <1>d, <2>3, <2>4, <4>1
      <4>2. CASE p # q
        <5>1. PICK n \in Index : /\ Live(n) /\ Periods[n] = p /\ owner[p] = Ids[n]
                                 /\ pc[Ids[n]] \in {"period", "wake"}
          BY <2>4, <3>2, <4>2 DEF PeriodsOK
        <5>2. n # m /\ Ids[n] \in Tasks \ {t}
          BY <1>d, <1>e, <2>2, <5>1
        <5> QED
          BY <1>b, <1>c, <2>3, <2>4, <4>2, <5>1, <5>2
      <4> QED
        BY <4>1, <4>2
    <3> QED
      BY <3>1, <3>2 DEF PeriodsOK
  <2>6. StatusOK'
    BY <1>b, <2>2, <2>3 DEF StatusOK
  <2> QED
    BY <2>3, <2>5, <2>6
<1>2. CASE CreatePeriodFails(t)
  BY <1>2, PeriodsSuffice DEF CreatePeriodFails
<1>3. CASE Period(t) \/ WakeAfter(t)
  <2>1. PICK s \in {"period", "wake"} : pc' = [pc EXCEPT ![t] = s]
    BY <1>3 DEF Period, WakeAfter
  <2>2. /\ UNCHANGED <<Periods, owner>> /\ pc[t] \in {"period", "wake"}
    BY <1>3 DEF Period, WakeAfter, globals
  <2>3. /\ pc'[t] = s /\ \A u \in Tasks \ {t} : pc'[u] = pc[u]
        /\ ThreadsOK'
    BY <1>f, <2>1
  <2>4. \A n \in Index : Live(n) => (pc'[Ids'[n]] \in {"period", "wake"}
                                       <=> pc[Ids[n]] \in {"period", "wake"})
    BY <1>b, <1>d, <1>e, <2>2, <2>3
  <2>5. PeriodsOK'
    BY <1>b, <1>c, <2>2, <2>4 DEF PeriodsOK
  <2>6. status' = [status EXCEPT ![t] = "ok"] \/ status' = status
    <3>1. CASE Period(t)
      <4>1. Periods[m] \in Slots /\ owner[Periods[m]] = t
        BY <1>d, <2>2 DEF PeriodsOK
      <4>2. PeriodStatus(t, Periods[index[t]]) = "ok"
        BY <1>d, <4>1, ConstantsAre DEF PeriodStatus, PeriodExists
      <4> QED
        BY <3>1, <4>2 DEF Period
    <3>2. CASE WakeAfter(t)
      BY <3>2 DEF WakeAfter
    <3> QED
      BY <1>3, <3>1, <3>2
  <2>7. StatusOK'
    BY <1>a, <1>b, <2>3, <2>6 DEF StatusOK
  <2> QED
    BY <2>3, <2>5, <2>7
<1> QED
  BY <1>1, <1>2, <1>3 DEF TaskStep

\* Each step keeps the invariant.
LEMMA InvKept ==
  ASSUME PeriodicInv, [Next]_vars
  PROVE  PeriodicInv'
<1>1. TypeOK /\ ListsOK /\ MenuOK
  BY DEF PeriodicInv
<1>2. TypeOK' /\ ListsOK' /\ MenuOK'
  BY <1>1, TypeKept, ListsKept, MenuKept
<1>3. ASSUME tidy'
      PROVE  ThreadsOK' /\ PeriodsOK' /\ StatusOK'
  <2>1. ThreadsOK /\ PeriodsOK /\ StatusOK
    BY <1>1, <1>3, TidyBefore DEF PeriodicInv
  <2>2. CASE CreateTask
    BY <1>1, <1>2, <2>1, <2>2, CreateKeepsThreads
  <2>3. CASE DeletePeriodFails \/ DeleteTaskFails
    BY <1>1, <2>1, <2>3, NextIsThere DEF DeletePeriodFails, DeleteTaskFails
  <2>4. CASE DeleteTask
    BY <1>1, <1>2, <2>1, <2>4, DeleteKeepsThreads
  <2>5. ASSUME NEW t \in Tasks, mainPc = "menu", TaskStep(t)
        PROVE  ThreadsOK' /\ PeriodsOK' /\ StatusOK'
    BY <1>1, <1>2, <2>1, <2>5, TaskKeepsThreads
  <2>6. \/ MainLoop \/ MenuStep \/ UNCHANGED vars
        \/ mainPc = "menu" /\ \E t \in Tasks : TaskStep(t)
    BY DEF Next, Ended
  <2> QED
    BY <1>1, <1>3, <2>1, <2>2, <2>3, <2>4, <2>5, <2>6, MenuKeepsThreads
<1> QED
  BY <1>2, <1>3 DEF PeriodicInv

LEMMA InvHolds == Spec => []PeriodicInv
<1>1. Init => PeriodicInv
  <2> SUFFICES ASSUME Init
               PROVE  PeriodicInv
    OBVIOUS
  <2>1. TypeOK
    BY InitTypes
  <2>2. \A t \in Tasks : pc[t] = "free"
    BY DEF Init
  <2>3. \A p \in Slots : owner[p] = None
    BY DEF Init
  <2>4. ListsOK
    <3>1. FreeTasks = Tasks /\ FreePeriods = Slots
      BY <2>2, <2>3 DEF FreeTasks, FreePeriods
    <3>2. ASSUME NEW n \in Nat, NEW list, list = [j \in 1 .. n |-> j]
          PROVE  Lists(list, 1 .. n)
      <4>1. Len(list) = n
        BY <3>2
      <4> QED
        BY <3>2, <4>1 DEF Lists
    <3> QED
      BY <3>1, <3>2, ConstantsAre DEF Init, ListsOK, Tasks, Slots
  <2>5. MenuOK
    BY DEF Init, MenuOK
  <2>6. \A n \in Index : ~Live(n)
    BY DEF Init, Live
  <2> QED
    BY <2>1, <2>2, <2>3, <2>4, <2>5, <2>6
       DEF PeriodicInv, ThreadsOK, PeriodsOK, StatusOK
<1> QED
  BY <1>1, InvKept, PTL DEF Spec

-----------------------------------------------------------------------------
(* The theorems.                                                           *)

\* A user who changes the number of threads only while there are none, and stops them only
\* after each has come to create its period, leaves no task and no period behind.
THEOREM StopLeavesNothing == Spec => []TidyStop
<1>1. PeriodicInv => TidyStop
  <2> SUFFICES ASSUME PeriodicInv, tidy, mainPc \in {"menu", "exit"}, ~initialized
               PROVE  AllFree
    BY DEF TidyStop
  <2>1. \A n \in Index : ~Live(n)
    BY DEF Live
  <2> QED
    BY <2>1 DEF PeriodicInv, ThreadsOK, PeriodsOK, AllFree
<1> QED
  BY <1>1, InvHolds, PTL

\* The threads of such a user are Count tasks, one for each index, and each that has
\* created its period finds it in the array.
THEOREM ThreadsAreTheirOwn == Spec => []TidyRunning
<1>1. PeriodicInv => TidyRunning
  <2> SUFFICES ASSUME PeriodicInv, tidy, mainPc = "menu", initialized
               PROVE  /\ {t \in Tasks : pc[t] # "free"} = {Ids[n] : n \in 0 .. Count - 1}
                      /\ \A n \in 0 .. Count - 1 :
                           /\ Ids[n] # None /\ index[Ids[n]] = n
                           /\ pc[Ids[n]] \in {"period", "wake"} => owner[Periods[n]] = Ids[n]
    BY DEF TidyRunning
  <2>1. TypeOK /\ ThreadsOK /\ PeriodsOK
    BY DEF PeriodicInv
  <2>2. \A n \in 0 .. Count - 1 : n \in Index
    BY <2>1, Numbers
  <2>3. \A n \in Index : Live(n) <=> n \in 0 .. Count - 1
    BY DEF Live
  <2>4. \A t \in Tasks : pc[t] # "free" => \E n \in 0 .. Count - 1 : Ids[n] = t
    BY <2>1, <2>3 DEF ThreadsOK
  <2>5. \A n \in 0 .. Count - 1 : Ids[n] \in Tasks /\ pc[Ids[n]] # "free" /\ index[Ids[n]] = n
    BY <2>1, <2>2, <2>3 DEF ThreadsOK
  <2>6. \A n \in 0 .. Count - 1 :
          pc[Ids[n]] \in {"period", "wake"} => owner[Periods[n]] = Ids[n]
    BY <2>1, <2>2, <2>3 DEF PeriodsOK
  <2> QED
    BY <2>4, <2>5, <2>6, ConstantsAre
<1> QED
  BY <1>1, InvHolds, PTL

\* Such a user's threads never get an error from the kernel and never run out of periods,
\* and no directive that Start or Stop calls fails.
THEOREM StatusIsOk == Spec => []TidyStatus
<1>1. PeriodicInv => TidyStatus
  <2> SUFFICES ASSUME PeriodicInv, tidy
               PROVE  ~Fatal /\ CallsSucceed /\ \A t \in Tasks : pc[t] # "free" => status[t] = "ok"
    BY DEF TidyStatus
  <2>1. TypeOK /\ ListsOK /\ ThreadsOK /\ PeriodsOK /\ StatusOK
    BY DEF PeriodicInv
  <2>2. CallsSucceed
    BY <2>1, TasksSuffice, NextIsThere DEF CallsSucceed
  <2> QED
    BY <2>1, <2>2 DEF StatusOK, Fatal
<1> QED
  BY <1>1, InvHolds, PTL

\* The periods that exist when Stop is called too early are fewer than the threads.
LEMMA TooFewPeriods ==
  ASSUME TypeOK, ThreadsOK, PeriodsOK, mainPc = "menu", NEW t \in Tasks, pc[t] = "created"
  PROVE  Cardinality(Existing) < Count
<1> DEFINE Numbered == 0 .. Count - 1
<1>1. \A n \in Index : Live(n) => n \in Numbered
  BY DEF Live
<1>2. PICK m \in Numbered : Ids[m] = t
  BY <1>1 DEF ThreadsOK
<1> DEFINE With == {n \in Numbered \ {m} : Periods[n] \in Existing}
           f == [n \in With |-> Periods[n]]
<1>3. IsFiniteSet(Numbered \ {m}) /\ Cardinality(Numbered \ {m}) = Count - 1
  <2>1. IsFiniteSet(Numbered) /\ Cardinality(Numbered) = Count
    BY Numbers, FS_Interval
  <2> QED
    BY <2>1, FS_RemoveElement
<1>4. IsFiniteSet(With) /\ Cardinality(With) <= Count - 1
  <2>1. With \in SUBSET (Numbered \ {m})
    OBVIOUS
  <2> HIDE DEF With, Numbered
  <2> QED
    BY <1>3, <2>1, FS_Subset
<1>5. \A p \in Existing : \E n \in With : Periods[n] = p
  <2>1. ASSUME NEW p \in Existing
        PROVE  \E n \in With : Periods[n] = p
    <3>1. p \in Slots /\ owner[p] # None
      BY DEF Existing
    <3>2. PICK n \in Index : Live(n) /\ Periods[n] = p /\ pc[Ids[n]] \in {"period", "wake"}
      BY <3>1 DEF PeriodsOK
    <3>3. n # m /\ n \in Numbered
      BY <1>1, <1>2, <3>2
    <3> QED
      BY <3>2, <3>3
  <2> QED
    BY <2>1
<1>6. f \in Surjection(With, Existing)
  BY <1>5, Fun_IsSurj
<1>7. IsFiniteSet(Existing) /\ Cardinality(Existing) <= Cardinality(With)
  BY <1>4, <1>6, FS_Surjection
<1>8. Cardinality(Existing) \in Nat /\ Cardinality(With) \in Nat /\ Count \in Nat
  BY <1>4, <1>7, FS_CardinalityType, Numbers
<1> HIDE DEF With, f
<1> QED
  BY <1>4, <1>7, <1>8

LEMMA ExistingCounts == IsFiniteSet(Existing) /\ Cardinality(Existing) \in Nat
<1>1. IsFiniteSet(Slots)
  BY ConstantsAre, FS_Interval DEF Slots
<1>2. Existing \in SUBSET Slots
  BY DEF Existing
<1> QED
  BY <1>1, <1>2, FS_Subset, FS_CardinalityType

\* Deleting a thread and a period leaves too few periods too.
LEMMA EarlyKept ==
  ASSUME PeriodicInv, EarlyInv, [Next]_vars
  PROVE  EarlyInv'
<1>a. TypeOK /\ TypeOK'
  BY TypeKept DEF PeriodicInv
<1>1. CASE UNCHANGED vars
  BY <1>1 DEF EarlyInv, Existing, vars, globals, menu, kernel, history
<1>2. ASSUME NEW last, Stop(last), early'
      PROVE  Cardinality(Existing)' < Count' - i'
  <2>1. /\ mainPc = "menu" /\ i' = 0 /\ UNCHANGED <<owner, Count>>
        /\ early' = (tidy /\ \E t \in Tasks : pc[t] = "created")
    BY <1>2 DEF Stop, globals, kernel
  <2>2. tidy /\ \E t \in Tasks : pc[t] = "created"
    BY <1>2, <2>1
  <2>3. Cardinality(Existing) < Count
    BY <2>1, <2>2, TooFewPeriods DEF PeriodicInv
  <2>4. Existing' = Existing
    BY <2>1 DEF Existing
  <2> QED
    BY <1>a, <2>1, <2>3, <2>4, ExistingCounts, Numbers
<1>3. ASSUME DeleteTask, early'
      PROVE  Cardinality(Existing)' < Count' - i'
  <2>1. /\ mainPc = "stopping" /\ i < Count /\ i' = i + 1
        /\ PeriodExists(Periods[i]) /\ owner' = [owner EXCEPT ![Periods[i]] = None]
        /\ UNCHANGED <<Count, early>>
    BY <1>3 DEF DeleteTask, DeletePeriod, globals, history
  <2>2. Periods[i] \in Slots
    BY <1>a, <2>1, Numbers DEF TypeOK, PeriodExists
  <2>3. Periods[i] \in Existing /\ Existing' = Existing \ {Periods[i]}
    BY <1>a, <2>1, <2>2 DEF Existing, PeriodExists, TypeOK
  <2>4. Cardinality(Existing') = Cardinality(Existing) - 1
    BY <2>3, ExistingCounts, FS_RemoveElement
  <2>5. Cardinality(Existing) < Count - i
    BY <1>3, <2>1 DEF EarlyInv
  <2> QED
    BY <1>a, <2>1, <2>4, <2>5, ExistingCounts, Numbers
<1>4. ASSUME mainPc' = "stopping", ~UNCHANGED vars
      PROVE  DeleteTask \/ \E last \in BOOLEAN : Stop(last)
  BY <1>4 DEF Next, MainLoop, MenuStep, TaskStep, Ended, SetNumberOfPeriodicThreads, Start,
       CreateTask, CreateTaskFails, Initialized, ExitMenu, DeletePeriodFails,
       DeleteTaskFails, Stopped, StopReturns, CreatePeriod, CreatePeriodFails, Period,
       WakeAfter, menu
<1> QED
  BY <1>1, <1>2, <1>3, <1>4 DEF EarlyInv

\* Such a user's Stop comes to its end; one that is called before each thread has come to
\* create its period, but by a user who was tidy so far, is left half-way.
THEOREM StopIsWhole == Spec => StopCompletes
<1>1. PeriodicInv /\ EarlyInv /\ [Next]_vars =>
        [mainPc = "stopping" /\ mainPc' # "stopping" =>
           (tidy => ~initialized') /\ (early => initialized')]_vars
  <2> SUFFICES ASSUME PeriodicInv, EarlyInv, [Next]_vars,
                      mainPc = "stopping", mainPc' # "stopping"
               PROVE  (tidy => ~initialized') /\ (early => initialized')
    OBVIOUS
  <2>1. DeletePeriodFails \/ DeleteTaskFails \/ Stopped
    BY DEF Next, vars, MainLoop, MenuStep, Ended, SetNumberOfPeriodicThreads, Start,
         CreateTask, CreateTaskFails, Initialized, Stop, ExitMenu, DeleteTask, menu
  <2>2. CASE DeletePeriodFails \/ DeleteTaskFails
    <3>1. ~tidy
      BY <2>2, NextIsThere DEF DeletePeriodFails, DeleteTaskFails, PeriodicInv
    <3>2. initialized' = initialized /\ initialized
      BY <2>2 DEF DeletePeriodFails, DeleteTaskFails, globals, PeriodicInv, MenuOK
    <3> QED
      BY <3>1, <3>2
  <2>3. CASE Stopped
    <3>1. ~initialized' /\ i >= Count
      BY <2>3 DEF Stopped
    <3>2. ~(Cardinality(Existing) < Count - i)
      BY <3>1, ExistingCounts, Numbers DEF PeriodicInv
    <3>3. ~early
      BY <3>2 DEF EarlyInv
    <3> QED
      BY <3>1, <3>3
  <2> QED
    BY <2>1, <2>2, <2>3
<1>2. Init => EarlyInv
  BY DEF Init, EarlyInv
<1> QED
  BY <1>1, <1>2, EarlyKept, InvHolds, PTL DEF Spec, StopCompletes
=============================================================================
