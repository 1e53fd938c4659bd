----------------------------- MODULE TaskKernel -----------------------------
(***************************************************************************)
(* What the example programs use of the RTEMS kernel to run their threads  *)
(* on one processor: the ready queue, the alarms, the clock tick.  Ready   *)
(* threads of equal priority run in the order in which they became ready,  *)
(* each until it blocks.  The clock interrupts a running thread.           *)
(***************************************************************************)
EXTENDS Naturals, Sequences, SequencesExt

CONSTANT
  Slow         \* Slow[p]: how many ticks a step of a thread of program p may take

VARIABLES
  program,     \* the program that runs
  ready,       \* the threads that are ready; the first one runs
  alarm,       \* the alarms of threads, timers and periods, in the order in which they
               \* were set, each with the ticks that are left; with none left it is due
  spent,       \* spent[t]: how many ticks the current step of t has taken so far
  postponed,   \* postponed[p]: how often period p expired with nobody waiting for it
  awaiting     \* who waits for the end of which period

period == <<postponed, awaiting>>
kernel == <<ready, alarm, spent, period>>

Periods == {"Period1", "Period2", "Period3"}
MostPostponed == 2     \* where the count stops; in the kernel at 2^32 - 1

\* The threads that preempt the others of their program: the Classic initialization
\* tasks of priority 1, and the threads that psx_task_restart gives other priorities.
Outranks(t) ==
  <<program, t>> \in {<<"ratemon_cond_server", "Init">>, <<"regulator", "Send">>,
                     <<"psx_task_restart", "Health">>, <<"psx_task_restart", "Faulting">>}
Enqueue(q, t) == IF Outranks(t) THEN <<t>> \o q ELSE Append(q, t)

Boot(threads) ==
  /\ ready = threads /\ alarm = <<>>
  /\ spent = [t \in Range(threads) |-> 0]
  /\ postponed = [p \in Periods |-> 0] /\ awaiting = {}

\* The clock interrupt serves what is due, in the order in which it was set.
Quiet == \A n \in DOMAIN alarm : alarm[n].left > 0
IsFirstDue(n) == alarm[n].left = 0 /\ \A m \in 1 .. n - 1 : alarm[m].left > 0
Due(x) == \E n \in DOMAIN alarm : IsFirstDue(n) /\ alarm[n].what = x

\* The alarms but the one that is served.
Unserved ==
  IF Quiet THEN alarm ELSE RemoveAt(alarm, CHOOSE n \in DOMAIN alarm : IsFirstDue(n))

Runs(t) == Quiet /\ ready # <<>> /\ Head(ready) = t

\* A step of the running thread t that does not block it, one that does, and one
\* that makes thread u ready.
Stepped(t) == spent' = [spent EXCEPT ![t] = 0]
Goes(t) == ready' = ready /\ Stepped(t) /\ UNCHANGED period
Blocks(t) == ready' = Tail(ready) /\ Stepped(t) /\ UNCHANGED period
GoesAndWakes(t, u) == ready' = Enqueue(ready, u) /\ Stepped(t) /\ UNCHANGED period

IsSet(x) == \E n \in DOMAIN alarm : alarm[n].what = x
Set(x, ticks) == alarm' = Append(Unserved, [what |-> x, left |-> ticks])
Sleeps(t, ticks) == Blocks(t) /\ Set(t, ticks)

\* The clock ticks, unless the running thread would then be slower than assumed.
Tick ==
  /\ Quiet
  /\ IF ready = <<>> THEN TRUE ELSE spent[Head(ready)] < Slow[program]
  /\ alarm' = [n \in DOMAIN alarm |-> [alarm[n] EXCEPT !.left = @ - 1]]
  /\ spent' = IF ready = <<>> THEN spent ELSE [spent EXCEPT ![Head(ready)] = @ + 1]
  /\ UNCHANGED <<ready, period>>

Serves(x) == Due(x) /\ spent' = spent /\ UNCHANGED period
Wakes(t) == ready' = Enqueue(ready, t)
SleepIsOver(t) == Serves(t) /\ alarm' = Unserved /\ Wakes(t)

\* rtems_rate_monotonic_period: the first call starts the period; a later one waits
\* for its end, or returns at once, with RTEMS_TIMEOUT, if it has passed.
Missed(p) == postponed[p] > 0
CallPeriod(t, p, ticks) ==
  /\ Stepped(t)
  /\ \/ ~IsSet(p) /\ Set(p, ticks) /\ UNCHANGED <<ready, period>>
     \/ /\ IsSet(p) /\ Missed(p)
        /\ postponed' = [postponed EXCEPT ![p] = @ - 1]
        /\ UNCHANGED <<ready, alarm, awaiting>>
     \/ /\ IsSet(p) /\ ~Missed(p)
        /\ awaiting' = awaiting \cup {<<t, p>>} /\ ready' = Tail(ready)
        /\ UNCHANGED <<alarm, postponed>>

PeriodEnds(t, p, ticks) ==
  /\ Due(p) /\ spent' = spent
  /\ Set(p, ticks)
  /\ awaiting' = awaiting \ {<<t, p>>}
  /\ IF <<t, p>> \in awaiting
       THEN Wakes(t) /\ postponed' = postponed
       ELSE ready' = ready /\ postponed' = [postponed EXCEPT ![p] = IF @ < MostPostponed THEN @ + 1 ELSE @]
==============================================================================
