--------------------------- MODULE PeriodicThreads ---------------------------
(***************************************************************************)
(* The periodic threads of led/complex1: PeriodicThreads_Start and _Stop   *)
(* as called from the menu, the tasks they create, and the kernel objects  *)
(* (tasks and rate monotonic periods) these consist of.                    *)
(*                                                                         *)
(* The menu runs at priority 1 and the tasks at priority 2: a task runs    *)
(* only while the menu waits for input.  Input may have been typed ahead,  *)
(* so the menu need not wait for the tasks.                                *)
(*                                                                         *)
(* A kernel object's id is its slot: the id of a deleted object designates *)
(* the next object made in the slot.  Free slots are taken in the order in *)
(* which they were freed.                                                  *)
(***************************************************************************)
EXTENDS Naturals, Sequences, Functions

CONSTANTS
  MaxCount,    \* the size of the two arrays, and the most the menu accepts; 100
  MaxTasks,    \* how many tasks the kernel has room for, besides Init; 101
  MaxPeriods   \* how many periods the kernel has room for; 100

ASSUME PeriodicAssumption ==
  /\ MaxCount \in Nat \ {0}
  /\ MaxTasks \in Nat /\ MaxTasks >= MaxCount
  /\ MaxPeriods \in Nat /\ MaxPeriods >= MaxCount

None == 0             \* no object: what an id is before it is assigned
Tasks == 1 .. MaxTasks
Slots == 1 .. MaxPeriods
Index == 0 .. MaxCount - 1

VARIABLES
  Ids,          \* PeriodicThreads_Ids
  Periods,      \* PeriodicThreads_Periods
  initialized,  \* PeriodicThreads_initialized
  running,      \* PeriodicThreads_running
  Count,        \* PeriodicThreads_Count
  mainPc,       \* "menu", "starting", "stopping", "exit"
  i,            \* the index of the loop in Initialize or Stop
  leaving,      \* is Stop called by doTest, on the way out?
  pc,           \* pc[t]: "free", "created", "period", "wake" or, after return, "returned"
  index,        \* index[t]: the argument of task t
  status,       \* status[t]: what rtems_rate_monotonic_period last told task t
  owner,        \* owner[p]: the task that owns period p, or None if p is free
  freeTasks, freePeriods,  \* the free slots
  tidy,         \* history: has the user, so far, not changed the number of threads
                \* while they run, and stopped them only after each had come to
                \* create its period?
  early         \* history: was the last Stop the first thing the user did that is not
                \* tidy, so called before each task had come to create its period?

globals == <<Ids, Periods, initialized, running, Count>>
menu == <<mainPc, i, leaving>>
kernel == <<pc, index, status, owner, freeTasks, freePeriods>>
history == <<tidy, early>>
vars == <<globals, menu, kernel, history>>

-----------------------------------------------------------------------------
Init ==
  /\ Ids = [n \in Index |-> None] /\ Periods = [n \in Index |-> None]
  /\ initialized = FALSE /\ running = FALSE
  /\ Count \in 1 .. MaxCount
  /\ mainPc = "menu" /\ i = 0 /\ leaving = FALSE
  /\ pc = [t \in Tasks |-> "free"]
  /\ index = [t \in Tasks |-> 0]
  /\ status = [t \in Tasks |-> "ok"]
  /\ owner = [p \in Slots |-> None]
  /\ freeTasks = [t \in Tasks |-> t] /\ freePeriods = [p \in Slots |-> p]
  /\ tidy = TRUE /\ early = FALSE

(* The menu.                                                               *)

SetNumberOfPeriodicThreads(n) ==
  /\ mainPc = "menu"
  /\ Count' = n
  /\ tidy' = (tidy /\ (initialized => n = Count))
  /\ UNCHANGED <<Ids, Periods, initialized, running, menu, kernel, early>>

\* PeriodicThreads_Start, which calls Initialize.
Start ==
  /\ mainPc = "menu"
  /\ ~initialized
  /\ mainPc' = "starting" /\ i' = 0
  /\ running' = FALSE
  /\ UNCHANGED <<Ids, Periods, initialized, Count, leaving, kernel, history>>

\* Mutant: the second task is started with the first one's argument.
CreateTaskSameIndex ==
  /\ mainPc = "starting" /\ i < Count /\ freeTasks # <<>>
  /\ LET t == Head(freeTasks)
     IN  /\ Ids' = [Ids EXCEPT ![i] = t]
         /\ pc' = [pc EXCEPT ![t] = "created"]
         /\ index' = [index EXCEPT ![t] = 0]
         /\ status' = [status EXCEPT ![t] = "ok"]
  /\ freeTasks' = Tail(freeTasks)
  /\ i' = i + 1
  /\ UNCHANGED <<Periods, initialized, running, Count, mainPc, leaving, owner,
                 freePeriods, history>>

\* Mutant: the loop runs once too often.
CreateTaskTooMany ==
  /\ mainPc = "starting" /\ i <= Count /\ freeTasks # <<>>
  /\ LET t == Head(freeTasks)
     IN  /\ Ids' = [Ids EXCEPT ![i] = t]
         /\ pc' = [pc EXCEPT ![t] = "created"]
         /\ index' = [index EXCEPT ![t] = i]
         /\ status' = [status EXCEPT ![t] = "ok"]
  /\ freeTasks' = Tail(freeTasks)
  /\ i' = i + 1
  /\ UNCHANGED <<Periods, initialized, running, Count, mainPc, leaving, owner,
                 freePeriods, history>>

\* rtems_task_create and rtems_task_start.
CreateTask ==
  /\ mainPc = "starting" /\ i < Count /\ freeTasks # <<>>
  /\ LET t == Head(freeTasks)
     IN  /\ Ids' = [Ids EXCEPT ![i] = t]
         /\ pc' = [pc EXCEPT ![t] = "created"]
         /\ index' = [index EXCEPT ![t] = i]
         /\ status' = [status EXCEPT ![t] = "ok"]
  /\ freeTasks' = Tail(freeTasks)
  /\ i' = i + 1
  /\ UNCHANGED <<Periods, initialized, running, Count, mainPc, leaving, owner,
                 freePeriods, history>>

\* No task left: Initialize returns with what it created, not initialized.
CreateTaskFails ==
  /\ mainPc = "starting" /\ i < Count /\ freeTasks = <<>>
  /\ mainPc' = "menu"
  /\ UNCHANGED <<globals, i, leaving, kernel, history>>

Initialized ==
  /\ mainPc = "starting" /\ i >= Count
  /\ running' = TRUE /\ initialized' = TRUE
  /\ mainPc' = "menu"
  /\ UNCHANGED <<Ids, Periods, Count, i, leaving, kernel, history>>

-----------------------------------------------------------------------------
\* PeriodicThreads_Stop, from the menu or, leaving it, from doTest.
Stop(last) ==
  /\ mainPc = "menu"
  /\ initialized
  /\ mainPc' = "stopping" /\ i' = 0 /\ leaving' = last
  /\ tidy' = (tidy /\ \A t \in Tasks : pc[t] # "created")
  /\ early' = (tidy /\ \E t \in Tasks : pc[t] = "created")
  /\ UNCHANGED <<globals, kernel>>

\* With nothing to stop, leaving the menu is all there is to it.
ExitMenu ==
  /\ mainPc = "menu"
  /\ ~initialized
  /\ mainPc' = "exit"
  /\ UNCHANGED <<globals, i, leaving, kernel, history>>

StopReturns == mainPc' = IF leaving THEN "exit" ELSE "menu"

PeriodExists(p) == p # None /\ owner[p] # None
TaskExists(t) == t # None /\ pc[t] # "free"

\* rtems_rate_monotonic_delete fails: the id is stale, or was never assigned.
DeletePeriodFails ==
  /\ mainPc = "stopping" /\ i < Count
  /\ ~PeriodExists(Periods[i])
  /\ StopReturns
  /\ UNCHANGED <<globals, i, leaving, kernel, history>>

DeletePeriod(p) ==
  /\ owner' = [owner EXCEPT ![p] = None]
  /\ freePeriods' = Append(freePeriods, p)

\* rtems_task_delete fails, after the period is gone.
DeleteTaskFails ==
  /\ mainPc = "stopping" /\ i < Count
  /\ PeriodExists(Periods[i]) /\ ~TaskExists(Ids[i])
  /\ DeletePeriod(Periods[i])
  /\ StopReturns
  /\ UNCHANGED <<globals, i, leaving, pc, index, status, freeTasks, history>>

\* Mutant: the period is not deleted with the task.
DeleteTaskOnly ==
  /\ mainPc = "stopping" /\ i < Count
  /\ PeriodExists(Periods[i]) /\ TaskExists(Ids[i])
  /\ pc' = [pc EXCEPT ![Ids[i]] = "free"]
  /\ freeTasks' = Append(freeTasks, Ids[i])
  /\ i' = i + 1
  /\ UNCHANGED <<globals, mainPc, leaving, index, status, owner, freePeriods, history>>

DeleteTask ==
  /\ mainPc = "stopping" /\ i < Count
  /\ PeriodExists(Periods[i]) /\ TaskExists(Ids[i])
  /\ DeletePeriod(Periods[i])
  /\ pc' = [pc EXCEPT ![Ids[i]] = "free"]
  /\ freeTasks' = Append(freeTasks, Ids[i])
  /\ i' = i + 1
  /\ UNCHANGED <<globals, mainPc, leaving, index, status, history>>

\* Mutant: PeriodicThreads_initialized is not reset.
StoppedInitialized ==
  /\ mainPc = "stopping" /\ i >= Count
  /\ running' = FALSE
  /\ StopReturns
  /\ UNCHANGED <<Ids, Periods, initialized, Count, i, leaving, kernel, history>>

Stopped ==
  /\ mainPc = "stopping" /\ i >= Count
  /\ running' = FALSE /\ initialized' = FALSE
  /\ StopReturns
  /\ UNCHANGED <<Ids, Periods, Count, i, leaving, kernel, history>>

-----------------------------------------------------------------------------
(* PeriodicThreads_Body, while the menu waits for input.                   *)

\* rtems_rate_monotonic_create, into the array.
CreatePeriod(t) ==
  /\ pc[t] = "created"
  /\ freePeriods # <<>>
  /\ Periods' = [Periods EXCEPT ![index[t]] = Head(freePeriods)]
  /\ owner' = [owner EXCEPT ![Head(freePeriods)] = t]
  /\ freePeriods' = Tail(freePeriods)
  /\ pc' = [pc EXCEPT ![t] = "period"]
  /\ UNCHANGED <<Ids, initialized, running, Count, menu, index, status, freeTasks, history>>

\* No period left: the task returns, which the kernel takes for a fatal error.
CreatePeriodFails(t) ==
  /\ pc[t] = "created"
  /\ freePeriods = <<>>
  /\ pc' = [pc EXCEPT ![t] = "returned"]
  /\ UNCHANGED <<globals, menu, index, status, owner, freeTasks, freePeriods, history>>

\* What the kernel says to a task that starts its next period.
PeriodStatus(t, p) ==
  IF ~PeriodExists(p) THEN "invalid id" ELSE IF owner[p] # t THEN "not owner" ELSE "ok"

\* rtems_rate_monotonic_period on the id the array holds now.  Nobody looks at
\* the status.
Period(t) ==
  /\ pc[t] = "period"
  /\ status' = [status EXCEPT ![t] = PeriodStatus(t, Periods[index[t]])]
  /\ pc' = [pc EXCEPT ![t] = "wake"]
  /\ UNCHANGED <<globals, menu, index, owner, freeTasks, freePeriods, history>>

\* rtems_task_wake_after.
WakeAfter(t) ==
  /\ pc[t] = "wake"
  /\ pc' = [pc EXCEPT ![t] = "period"]
  /\ UNCHANGED <<globals, menu, index, status, owner, freeTasks, freePeriods, history>>

-----------------------------------------------------------------------------
Fatal == \E t \in Tasks : pc[t] = "returned"

MainLoop ==
  \/ CreateTask \/ CreateTaskFails \/ Initialized
  \/ DeletePeriodFails \/ DeleteTaskFails \/ DeleteTask \/ Stopped

MenuStep ==
  \/ \E n \in 1 .. MaxCount : SetNumberOfPeriodicThreads(n)
  \/ Start
  \/ \E last \in BOOLEAN : Stop(last)
  \/ ExitMenu

TaskStep(t) == CreatePeriod(t) \/ CreatePeriodFails(t) \/ Period(t) \/ WakeAfter(t)

Ended == (Fatal \/ mainPc = "exit") /\ UNCHANGED vars

Next ==
  \/ ~Fatal /\ MainLoop
  \/ ~Fatal /\ MenuStep
  \/ ~Fatal /\ mainPc = "menu" /\ \E t \in Tasks : TaskStep(t)
  \/ Ended

Spec == Init /\ [][Next]_vars

-----------------------------------------------------------------------------
(* Properties.                                                             *)

\* Type correctness.
TypeOK ==
  /\ Ids \in [Index -> Tasks \cup {None}]
  /\ Periods \in [Index -> Slots \cup {None}]
  /\ initialized \in BOOLEAN /\ running \in BOOLEAN
  /\ tidy \in BOOLEAN /\ early \in BOOLEAN
  /\ Count \in 1 .. MaxCount
  /\ mainPc \in {"menu", "starting", "stopping", "exit"}
  /\ i \in 0 .. MaxCount /\ leaving \in BOOLEAN
  /\ pc \in [Tasks -> {"free", "created", "period", "wake", "returned"}]
  /\ index \in [Tasks -> Index]
  /\ status \in [Tasks -> {"ok", "invalid id", "not owner"}]
  /\ owner \in [Slots -> Tasks \cup {None}]
  /\ freeTasks \in Seq(Tasks) /\ freePeriods \in Seq(Slots)

AllFree ==
  /\ \A t \in Tasks : pc[t] = "free"
  /\ \A p \in Slots : owner[p] = None

\* A tidy user's Stop leaves nothing behind: when the threads are not running,
\* every task and every period is free again, so that they can be started and
\* stopped for ever without running out.
TidyStop == tidy /\ mainPc \in {"menu", "exit"} /\ ~initialized => AllFree

\* A tidy user's threads are Count tasks, one for each index, and each that has
\* created its period finds it, and nobody else's, in the array.
TidyRunning ==
  tidy /\ mainPc = "menu" /\ initialized =>
    /\ {t \in Tasks : pc[t] # "free"} = {Ids[n] : n \in 0 .. Count - 1}
    /\ \A n \in 0 .. Count - 1 :
         /\ Ids[n] # None /\ index[Ids[n]] = n
         /\ pc[Ids[n]] \in {"period", "wake"} => owner[Periods[n]] = Ids[n]

\* The kernel has what Start or Stop is about to ask of it.
CallsSucceed ==
  /\ ~(mainPc = "starting" /\ i < Count /\ freeTasks = <<>>)
  /\ ~(mainPc = "stopping" /\ i < Count /\ ~(PeriodExists(Periods[i]) /\ TaskExists(Ids[i])))

\* Nobody looks at the status of rtems_rate_monotonic_period; a tidy user need
\* not: it is never an error.  No task ever runs out of periods, and no directive
\* that Start or Stop calls fails.
TidyStatus ==
  tidy => ~Fatal /\ CallsSucceed /\ \A t \in Tasks : pc[t] # "free" => status[t] = "ok"

\* A tidy user's Stop comes to its end, and one that is called too early never
\* does: it returns half-way, with the flag still set, even where a stale id makes
\* it delete another task's period in place of the missing one.
StopCompletes ==
  [][mainPc = "stopping" /\ mainPc' # "stopping" =>
       (tidy => ~initialized') /\ (early => initialized')]_vars

\* "Stop Periodic Threads", says the menu: when Stop reports, by clearing the
\* flag, that it has stopped the threads, there are none.
StopStopsThreads ==
  [][initialized /\ ~initialized' => \A t \in Tasks : pc'[t] = "free"]_vars
==============================================================================
