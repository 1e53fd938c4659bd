---------------------------- MODULE TriplePeriod ----------------------------
(***************************************************************************)
(* classic_api/triple_period: three ways to run a task every so many       *)
(* seconds.  A tick is a second here; the clock is set to 9:00:00 when the *)
(* tasks are started.                                                      *)
(***************************************************************************)
EXTENDS TaskKernel

VARIABLES
  now,         \* the seconds since 9:00:00, up to LastMinute
  read,        \* the seconds of the time that task 1 has read
  count,       \* how often task 1 ran, up to LastMinute
  call,        \* call[t]: the call t makes next
  ended        \* "no", "end of test" or "failed"

task == <<read, count, call, ended>>
vars == <<program, kernel, now, task>>

LastMinute == 60                 \* what comes after the first minute is not told apart
EveryAbsolute == 1               \* PERIOD_TASK_ABSOLUTE
EveryPeriod == 2                 \* PERIOD_TASK_RATE_MONOTONIC
EveryRelative == 3               \* PERIOD_TASK_RELATIVE

Init ==
  /\ program = "triple_period" /\ Boot(<<"TA1", "TA2", "TA3">>)
  /\ now = 0 /\ read = 0 /\ count = 0 /\ ended = "no"
  /\ call = [TA1 |-> "look", TA2 |-> "create", TA3 |-> "sleep"]

Makes(t, c) == ended = "no" /\ Runs(t) /\ call[t] = c
Then(t, c) == call' = [call EXCEPT ![t] = c]
Second == now % 60

\* Task_Absolute_Period.
LookAtTime ==
  /\ Makes("TA1", "look")
  /\ read' = Second
  /\ count' = IF count < LastMinute THEN count + 1 ELSE count
  /\ IF Second >= 60
       THEN ended' = "end of test" /\ call' = call
       ELSE ended' = ended /\ Then("TA1", "wake when")
  /\ Goes("TA1")
  /\ UNCHANGED <<alarm, now>>

\* rtems_task_wake_when refuses a time with 60 seconds or in the past, and returns.
WakeWhen ==
  LET second == count * EveryAbsolute
  IN  /\ Makes("TA1", "wake when")
      /\ IF second < 60 /\ second > now
           THEN Sleeps("TA1", second - now)
           ELSE Goes("TA1") /\ alarm' = alarm
      /\ Then("TA1", "look")
      /\ UNCHANGED <<now, read, count, ended>>

\* Task_Rate_Monotonic_Period: the first call creates and starts the period.
StartPeriod ==
  /\ Makes("TA2", "create")
  /\ CallPeriod("TA2", "Period1", EveryPeriod)
  /\ Then("TA2", "period")
  /\ UNCHANGED <<now, read, count, ended>>

WaitPeriod ==
  /\ Makes("TA2", "period")
  /\ CallPeriod("TA2", "Period1", EveryPeriod)
  /\ ended' = IF Missed("Period1") THEN "failed" ELSE ended
  /\ UNCHANGED <<now, read, count, call>>

\* Task_Relative_Period.
WakeAfter ==
  /\ Makes("TA3", "sleep")
  /\ Sleeps("TA3", EveryRelative)
  /\ UNCHANGED <<now, task>>

Wake(t) ==
  /\ ended = "no"
  /\ \/ SleepIsOver(t)
     \/ t = "TA2" /\ PeriodEnds(t, "Period1", EveryPeriod)
  /\ UNCHANGED <<now, task>>

ClockTick ==
  /\ ended = "no" /\ Tick
  /\ now' = IF now < LastMinute THEN now + 1 ELSE now
  /\ UNCHANGED <<program, task>>

Next ==
  /\ program' = program
  /\ \/ LookAtTime \/ WakeWhen \/ StartPeriod \/ WaitPeriod \/ WakeAfter
     \/ \E t \in {"TA1", "TA2", "TA3"} : Wake(t)
     \/ ClockTick

Spec == Init /\ [][Next]_vars /\ WF_vars(Next) /\ SF_vars(ClockTick)

-----------------------------------------------------------------------------
\* The comment in Task_Absolute_Period, "sets end criteria for demo application (60
\* seconds)": the demo ends.
DemoEnds == <>(ended # "no")
==============================================================================
