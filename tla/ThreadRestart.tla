--------------------------- MODULE ThreadRestart ---------------------------
(***************************************************************************)
(* posix_api/psx_task_restart: a thread reports its fault with an event to *)
(* the health thread, which restarts it with another argument.  main, with *)
(* the lowest priority, starts both and then sleeps, if it ever gets there. *)
(***************************************************************************)
EXTENDS TaskKernel

VARIABLES
  place,       \* place[t]: what thread t does next
  arg,         \* the argument of the faulting thread
  pending,     \* is the event pending at the health thread?
  stopped      \* "no" or "end of test"

restart == <<place, arg, pending, stopped>>
restartVars == <<program, kernel, restart>>

RestartBoot == Boot(<<"main">>)
RestartIdle ==
  /\ place = [main |-> "start health", Health |-> "receive", Faulting |-> "enter"]
  /\ arg = 0 /\ pending = FALSE /\ stopped = "no"

Does(t, p) == stopped = "no" /\ Runs(t) /\ place[t] = p
Goto(t, p) == place' = [place EXCEPT ![t] = p]

\* Both are started with a higher priority than main, and run at once.
Starts(t) ==
  /\ ready' = Enqueue(ready, t) /\ spent' = [u \in {"main", t} |-> 0] @@ spent
  /\ UNCHANGED <<period, alarm>>

start_health_thread ==
  /\ Does("main", "start health") /\ Starts("Health")
  /\ Goto("main", "start faulting")
  /\ UNCHANGED <<arg, pending, stopped>>

start_faulting_thread ==
  /\ Does("main", "start faulting") /\ Starts("Faulting")
  /\ Goto("main", "sleep")
  /\ UNCHANGED <<arg, pending, stopped>>

Receive ==
  /\ Does("Health", "receive")
  /\ IF pending THEN Goes("Health") /\ pending' = FALSE
                ELSE Blocks("Health") /\ pending' = pending
  /\ Goto("Health", "restart")
  /\ UNCHANGED <<alarm, arg, stopped>>

\* Mutant: the thread is restarted with its first argument.
RestartAlike ==
  /\ Does("Health", "restart") /\ Goes("Health")
  /\ place' = [place EXCEPT !["Health"] = "receive", !["Faulting"] = "enter"]
  /\ UNCHANGED <<alarm, arg, pending, stopped>>

Restart ==
  /\ Does("Health", "restart") /\ Goes("Health")
  /\ place' = [place EXCEPT !["Health"] = "receive", !["Faulting"] = "enter"]
  /\ arg' = 1
  /\ UNCHANGED <<alarm, pending, stopped>>

Enter ==
  /\ Does("Faulting", "enter") /\ Goes("Faulting")
  /\ IF arg = 1 THEN stopped' = "end of test" /\ place' = place
                ELSE stopped' = stopped /\ Goto("Faulting", "send")
  /\ UNCHANGED <<alarm, arg, pending>>

\* The health thread has the higher priority: it runs before the sender goes on.
SendHealth ==
  /\ Does("Faulting", "send")
  /\ IF "Health" \in Range(ready)
       THEN Goes("Faulting") /\ pending' = TRUE
       ELSE GoesAndWakes("Faulting", "Health") /\ pending' = pending
  /\ Goto("Faulting", "spin")
  /\ UNCHANGED <<alarm, arg, stopped>>

RestartClock ==
  /\ stopped = "no"
  /\ Tick
  /\ UNCHANGED restart

RestartNext ==
  /\ program = "psx_task_restart" /\ program' = program
  /\ \/ start_health_thread \/ start_faulting_thread
     \/ Receive \/ Restart \/ Enter \/ SendHealth
     \/ RestartClock

-----------------------------------------------------------------------------
\* Type correctness.
RestartTypeOK ==
  /\ arg \in 0 .. 1 /\ pending \in BOOLEAN
  /\ stopped \in {"no", "end of test"}

\* The faulting thread, which spins once it has sent its event, is taken off the
\* processor and comes back with its new argument: the test ends.
FaultingThreadRestarts ==
  program = "psx_task_restart" => <>(stopped = "end of test")
==============================================================================
