------------------------------ MODULE LedTasks ------------------------------
(***************************************************************************)
(* The LED programs under led/, each of which blinks an LED once a second  *)
(* with another service of the kernel.  A program is the text of its       *)
(* threads: for each the kernel calls it makes, in a loop.  Init has       *)
(* already created and started the server.  The count a program sends or   *)
(* looks at is kept modulo 2, which is all that is made of it.             *)
(***************************************************************************)
EXTENDS TaskKernel, FiniteSets

CONSTANTS
  TicksPerSecond,
  PollTicks        \* the ten ticks for which the timer program sleeps

ASSUME LedAssumption == TicksPerSecond \in Nat \ {0} /\ PollTicks \in Nat \ {0}

VARIABLES
  pc,           \* pc[t]: where thread t is in its text
  blocked,      \* blocked[t]: what t waits for
  count,        \* count[t]: the count of thread t, modulo 2
  events,       \* the events pending at the server
  queue,        \* the message queue
  got,          \* what the server received last
  sem,          \* the count of the semaphore, or of the mutex
  due,          \* the timers the timer server has to serve
  doPrint, value,         \* led_do_print and led_value
  readPrint, readValue,   \* _led_do_print and _led_value
  led,          \* the LED
  again,        \* history: was it driven to the state it was in?
  lost,         \* history: was an event, a message or a signal lost?
  raced         \* history: did Timer_Routine run before the previous change was
                \* shown, or inside the critical section of LED_Change_Routine?

thread == <<pc, blocked, count>>
object == <<events, queue, got, sem, due>>
timer == <<doPrint, value, readPrint, readValue>>
lamp == <<led, again>>
history == <<lost, raced>>
ledVars == <<program, kernel, thread, object, timer, lamp, history>>

-----------------------------------------------------------------------------
(* The texts.                                                              *)

Loop(ops) == [ops |-> ops, loop |-> 1]
Prologue(first, ops) == [ops |-> first \o ops, loop |-> Len(first) + 1]
ChangeRoutine ==
  <<"read_print", "read_value", "clear_print", "clear_value", "show_change">>

EventServer ==
  [Init |-> Loop(<<"send_event", "sleep">>), Server |-> Loop(<<"receive_event", "led_event">>)]
MsgServer ==
  [Init |-> Loop(<<"send_message", "sleep">>),
   Server |-> Loop(<<"receive_message", "led_message">>)]
PosixMessageServer == MsgServer
SemServer ==
  [Init |-> Loop(<<"led_off", "sleep", "release", "obtain">>),
   Server |-> Loop(<<"obtain", "led_on", "sleep", "release">>)]
PosixMutexServer ==
  [Init |-> Loop(<<"obtain", "led_off", "sleep", "release">>),
   Server |-> Loop(<<"obtain", "led_on", "sleep", "release">>)]
PosixCondServer ==
  [Init |-> Loop(<<"sleep", "signal">>), Server |-> Loop(<<"wait", "led_count">>)]
RatemonCondServer ==
  [Init |-> Loop(<<"period_1", "signal">>), Server |-> Loop(<<"wait", "led_count">>)]
Timer ==
  [Init |-> Prologue(<<"routine_1">> \o ChangeRoutine \o <<"sleep", "routine_2">>
                       \o ChangeRoutine, <<"poll">> \o ChangeRoutine)]
TimerServer ==
  [Init |-> Prologue(<<"routine_1", "sleep", "routine_2">>, <<"delete_self">>),
   Server |-> Loop(<<"serve_timers">>)]
TimeoutEvent == [Init |-> Loop(<<"sleep", "led_count">>)]
RateMon1 == [Init |-> Loop(<<"period_1", "led_count">>)]
RateMon2 ==
  [Init |-> Prologue(<<"period_1", "led_off", "sleep", "period_2", "led_on">>,
                     <<"period_1", "led_off", "period_2", "led_on">>)]
Delay == [Init |-> Loop(<<"sleep", "led_off", "sleep", "led_on">>)]
PosixDelaySleep == Delay
PosixDelayNanosleep == Delay

Text ==
  [event_server |-> EventServer, msg_server |-> MsgServer,
   posix_message_server |-> PosixMessageServer, sem_server |-> SemServer,
   posix_mutex_server |-> PosixMutexServer, posix_cond_server |-> PosixCondServer,
   ratemon_cond_server |-> RatemonCondServer, timer |-> Timer,
   timer_server |-> TimerServer, timeout_event |-> TimeoutEvent, ratemon1 |-> RateMon1,
   ratemon2 |-> RateMon2, delay |-> Delay, posix_delay_sleep |-> PosixDelaySleep,
   posix_delay_nanosleep |-> PosixDelayNanosleep]
LedPrograms == DOMAIN Text
Threads == {"Init", "Server"}

QueueSize == IF program = "posix_message_server" THEN 10 ELSE 1
PeriodTicks == TicksPerSecond * IF program = "ratemon2" THEN 2 ELSE 1
TimerTicks == 2 * TicksPerSecond

-----------------------------------------------------------------------------
LedBoot ==
  Boot(IF "Server" \in DOMAIN Text[program] THEN <<"Init", "Server">> ELSE <<"Init">>)

LedIdle ==
  /\ pc = [t \in Threads |-> 1] /\ blocked = [t \in Threads |-> "no"]
  /\ count = [t \in Threads |-> 0]
  /\ events = {} /\ queue = <<>> /\ got = {} /\ due = <<>>
  /\ sem = IF program = "posix_mutex_server" THEN 1 ELSE 0
  /\ doPrint = 0 /\ value = 0 /\ readPrint = 0 /\ readValue = 0
  /\ led = "unknown" /\ again = FALSE /\ lost = FALSE /\ raced = FALSE

LedInit == program \in LedPrograms /\ LedBoot /\ LedIdle

\* The next call of the running thread t is op; after it comes the next in its text.
At(t, op) ==
  /\ Runs(t)
  /\ t \in DOMAIN Text[program] /\ Text[program][t].ops[pc[t]] = op
Advance(t) ==
  LET text == Text[program][t]
  IN  pc' = [pc EXCEPT ![t] = IF @ = Len(text.ops) THEN text.loop ELSE @ + 1]
Other(t) == IF t = "Init" THEN "Server" ELSE "Init"
WaitFor(t, what) == blocked' = [blocked EXCEPT ![t] = what] /\ Blocks(t)
Hand(t, u) == blocked' = [blocked EXCEPT ![u] = "no"] /\ GoesAndWakes(t, u)
Proceed(t) == blocked' = blocked /\ Goes(t)
Drive(v) == led' = v /\ again' = (again \/ led = v)
Lamp(n) == IF n = 0 THEN "off" ELSE "on"
Flip(t) == count' = [count EXCEPT ![t] = 1 - @]

(* Sleeping.                                                               *)

Sleep(t) ==
  /\ \/ At(t, "sleep") /\ Sleeps(t, TicksPerSecond)
     \/ At(t, "poll") /\ Sleeps(t, PollTicks)
  /\ Advance(t)
  /\ UNCHANGED <<blocked, count, object, timer, lamp, history>>

DeleteSelf(t) ==
  /\ At(t, "delete_self")
  /\ Blocks(t)
  /\ UNCHANGED <<alarm, thread, object, timer, lamp, history>>

(* Events, and messages.                                                   *)

\* Mutant: the event is sent as if nobody waited for it.
SendEventKeeps(t) ==
  /\ At(t, "send_event")
  /\ events' = events \cup {Lamp(count[t])} /\ lost' = (lost \/ events # {})
  /\ got' = got /\ Proceed(t)
  /\ Flip(t) /\ Advance(t)
  /\ UNCHANGED <<alarm, queue, sem, due, timer, lamp, raced>>

\* A server that waits gets the event at once; else it is pending, and if another
\* is, the server will see them as one set.
SendEvent(t) ==
  /\ At(t, "send_event")
  /\ LET e == Lamp(count[t])
     IN  \/ /\ blocked["Server"] = "event"
            /\ got' = {e} /\ Hand(t, "Server")
            /\ UNCHANGED <<events, lost>>
         \/ /\ blocked["Server"] # "event"
            /\ events' = events \cup {e} /\ lost' = (lost \/ events # {})
            /\ got' = got /\ Proceed(t)
  /\ Flip(t) /\ Advance(t)
  /\ UNCHANGED <<alarm, queue, sem, due, timer, lamp, raced>>

ReceiveEvent(t) ==
  /\ At(t, "receive_event")
  /\ IF events = {}
       THEN WaitFor(t, "event") /\ UNCHANGED <<events, got>>
       ELSE Proceed(t) /\ got' = events /\ events' = {}
  /\ Advance(t)
  /\ UNCHANGED <<alarm, count, queue, sem, due, timer, lamp, history>>

\* An incorrect event set leaves the LED alone.
LedEvent(t) ==
  /\ At(t, "led_event")
  /\ IF \E e \in got : got = {e}
       THEN Drive(CHOOSE e \in got : TRUE)
       ELSE UNCHANGED lamp
  /\ Proceed(t) /\ Advance(t)
  /\ UNCHANGED <<alarm, count, object, timer, history>>

\* With the queue full the message is not sent; its count is not sent again.  mq_send
\* would wait instead: NothingLost shows that it never finds its queue full either.
SendMessage(t) ==
  /\ At(t, "send_message")
  /\ \/ /\ blocked["Server"] = "message"
        /\ got' = {count[t]} /\ Hand(t, "Server")
        /\ UNCHANGED <<queue, lost>>
     \/ /\ blocked["Server"] # "message"
        /\ IF Len(queue) < QueueSize
             THEN queue' = Append(queue, count[t]) /\ lost' = lost
             ELSE queue' = queue /\ lost' = TRUE
        /\ got' = got /\ Proceed(t)
  /\ Flip(t) /\ Advance(t)
  /\ UNCHANGED <<alarm, events, sem, due, timer, lamp, raced>>

ReceiveMessage(t) ==
  /\ At(t, "receive_message")
  /\ IF queue = <<>>
       THEN WaitFor(t, "message") /\ UNCHANGED <<queue, got>>
       ELSE Proceed(t) /\ got' = {Head(queue)} /\ queue' = Tail(queue)
  /\ Advance(t)
  /\ UNCHANGED <<alarm, count, events, sem, due, timer, lamp, history>>

LedMessage(t) ==
  /\ At(t, "led_message")
  /\ \E m \in got : Drive(Lamp(m))
  /\ Proceed(t) /\ Advance(t)
  /\ UNCHANGED <<alarm, count, object, timer, history>>

(* Semaphores, mutexes and condition variables.                            *)

\* Mutant: the release does not hand the semaphore to the thread that waits for it.
ReleaseOnly(t) ==
  /\ At(t, "release")
  /\ sem' = sem + 1 /\ Proceed(t)
  /\ Advance(t)
  /\ UNCHANGED <<alarm, count, events, queue, got, due, timer, lamp, history>>

\* A thread that waits gets the semaphore, whose count stays 0.
Release(t) ==
  /\ At(t, "release")
  /\ IF blocked[Other(t)] = "semaphore"
       THEN Hand(t, Other(t)) /\ sem' = sem
       ELSE Proceed(t) /\ sem' = sem + 1
  /\ Advance(t)
  /\ UNCHANGED <<alarm, count, events, queue, got, due, timer, lamp, history>>

\* Mutant: the count stays as it is.
ObtainKeeps(t) ==
  /\ At(t, "obtain")
  /\ IF sem = 0 THEN WaitFor(t, "semaphore") ELSE Proceed(t)
  /\ Advance(t)
  /\ UNCHANGED <<alarm, count, object, timer, lamp, history>>

Obtain(t) ==
  /\ At(t, "obtain")
  /\ IF sem = 0
       THEN WaitFor(t, "semaphore") /\ sem' = sem
       ELSE Proceed(t) /\ sem' = sem - 1
  /\ Advance(t)
  /\ UNCHANGED <<alarm, count, events, queue, got, due, timer, lamp, history>>

\* pthread_cond_wait with the mutex, which only the server ever takes.
Wait(t) ==
  /\ At(t, "wait")
  /\ WaitFor(t, "condition")
  /\ Advance(t)
  /\ UNCHANGED <<alarm, count, object, timer, lamp, history>>

\* pthread_cond_signal: with nobody waiting nothing remains of it.
Signal(t) ==
  /\ At(t, "signal")
  /\ IF blocked["Server"] = "condition"
       THEN Hand(t, "Server") /\ lost' = lost
       ELSE Proceed(t) /\ lost' = TRUE
  /\ Advance(t)
  /\ UNCHANGED <<alarm, count, object, timer, lamp, raced>>

(* Rate monotonic periods.  No LED program looks at the status.            *)

Period(t, p, op) ==
  /\ At(t, op)
  /\ CallPeriod(t, p, PeriodTicks)
  /\ Advance(t)
  /\ UNCHANGED <<blocked, count, object, timer, lamp, history>>

PeriodExpires(p) ==
  /\ PeriodEnds("Init", p, PeriodTicks)
  /\ UNCHANGED <<thread, object, timer, lamp, history>>

SleepEnds(t) ==
  /\ SleepIsOver(t)
  /\ UNCHANGED <<thread, object, timer, lamp, history>>

(* The LED.                                                                *)

\* Mutant: the count is not advanced.
LedCountSame(t) ==
  /\ At(t, "led_count")
  /\ Drive(Lamp(count[t])) /\ count' = count
  /\ Proceed(t) /\ Advance(t)
  /\ UNCHANGED <<alarm, object, timer, history>>

LedCount(t) ==
  /\ At(t, "led_count")
  /\ Drive(Lamp(count[t])) /\ Flip(t)
  /\ Proceed(t) /\ Advance(t)
  /\ UNCHANGED <<alarm, object, timer, history>>

LedSet(t) ==
  /\ \/ At(t, "led_off") /\ Drive("off")
     \/ At(t, "led_on") /\ Drive("on")
  /\ Proceed(t) /\ Advance(t)
  /\ UNCHANGED <<alarm, count, object, timer, history>>

(* Timers.                                                                 *)

TimerNumber(x) == IF x = "Timer1" THEN 1 ELSE 2

\* Timer_Routine of the program timer: the change is left for the task to make.
NoteChange(x) ==
  /\ value' = TimerNumber(x) /\ doPrint' = 1
  /\ Set(x, TimerTicks)
  /\ UNCHANGED <<readPrint, readValue, lamp>>

\* Timer_Routine of the program timer_server.
MakeChange(x) ==
  /\ Drive(IF x = "Timer1" THEN "off" ELSE "on")
  /\ Set(x, TimerTicks)
  /\ UNCHANGED timer

\* Called by Init.
Routine(t, x, op) ==
  /\ At(t, op)
  /\ IF program = "timer" THEN NoteChange(x) ELSE MakeChange(x)
  /\ raced' = (raced \/ doPrint = 1)
  /\ Proceed(t) /\ Advance(t)
  /\ UNCHANGED <<count, object, lost>>

\* Is Init between its read of led_do_print and its write of led_value?
InCriticalSection == Text[program]["Init"].ops[pc["Init"]]
                       \in {"read_value", "clear_print", "clear_value"}

\* Called in the clock interrupt.
TimerInterrupt(x) ==
  /\ program = "timer" /\ Serves(x)
  /\ NoteChange(x)
  /\ raced' = (raced \/ doPrint = 1 \/ InCriticalSection)
  /\ UNCHANGED <<ready, thread, object, lost>>

\* LED_Change_Routine.
Change(t) ==
  /\ \/ At(t, "read_print") /\ readPrint' = doPrint /\ UNCHANGED <<doPrint, value, readValue, lamp>>
     \/ At(t, "read_value") /\ readValue' = value /\ UNCHANGED <<doPrint, value, readPrint, lamp>>
     \/ At(t, "clear_print") /\ doPrint' = 0 /\ UNCHANGED <<value, readPrint, readValue, lamp>>
     \/ At(t, "clear_value") /\ value' = 0 /\ UNCHANGED <<doPrint, readPrint, readValue, lamp>>
     \/ /\ At(t, "show_change")
        /\ IF readPrint = 0 THEN UNCHANGED lamp
                            ELSE Drive(IF readValue = 1 THEN "off" ELSE "on")
        /\ UNCHANGED timer
  /\ Proceed(t) /\ Advance(t)
  /\ UNCHANGED <<alarm, count, object, history>>

\* The timer server's: the interrupt leaves it the timer, the server calls the routine.
TimerExpires(x) ==
  /\ program = "timer_server" /\ Serves(x) /\ alarm' = Unserved
  /\ due' = Append(due, x)
  /\ IF blocked["Server"] = "timer"
       THEN blocked' = [blocked EXCEPT !["Server"] = "no"] /\ Wakes("Server")
       ELSE UNCHANGED <<blocked, ready>>
  /\ UNCHANGED <<pc, count, events, queue, got, sem, timer, lamp, history>>

ServeTimers(t) ==
  /\ At(t, "serve_timers")
  /\ IF due = <<>>
       THEN WaitFor(t, "timer") /\ UNCHANGED <<alarm, due, timer, lamp>>
       ELSE MakeChange(Head(due)) /\ due' = Tail(due) /\ Proceed(t)
  /\ Advance(t)
  /\ UNCHANGED <<count, events, queue, got, sem, history>>

-----------------------------------------------------------------------------
LedStep(t) ==
  \/ Sleep(t) \/ DeleteSelf(t)
  \/ SendEvent(t) \/ ReceiveEvent(t) \/ LedEvent(t)
  \/ SendMessage(t) \/ ReceiveMessage(t) \/ LedMessage(t)
  \/ Release(t) \/ Obtain(t) \/ Wait(t) \/ Signal(t)
  \/ Period(t, "Period1", "period_1") \/ Period(t, "Period2", "period_2")
  \/ LedCount(t) \/ LedSet(t)
  \/ Routine(t, "Timer1", "routine_1") \/ Routine(t, "Timer2", "routine_2")
  \/ Change(t) \/ ServeTimers(t)

LedInterrupt ==
  \/ \E t \in Threads : SleepEnds(t)
  \/ \E p \in {"Period1", "Period2"} : PeriodExpires(p)
  \/ \E x \in {"Timer1", "Timer2"} : TimerInterrupt(x) \/ TimerExpires(x)

LedTick == Tick /\ UNCHANGED <<thread, object, timer, lamp, history>>

LedNext ==
  /\ program \in LedPrograms /\ program' = program
  /\ LedTick \/ LedInterrupt \/ \E t \in Threads : LedStep(t)

LedSpec == LedInit /\ [][LedNext]_ledVars /\ WF_ledVars(LedNext)

-----------------------------------------------------------------------------
(* Properties.                                                             *)

\* Type correctness, with the bounds of what is counted: a semaphore that is handed
\* over never counts above 1, and the timer server has no more than its two timers to serve.
LedTypeOK ==
  /\ program \in LedPrograms
  /\ Range(ready) \subseteq DOMAIN Text[program] /\ IsInjective(ready)
  /\ \A t \in DOMAIN Text[program] : pc[t] \in 1 .. Len(Text[program][t].ops)
  /\ blocked \in [Threads -> {"no", "event", "message", "semaphore", "condition", "timer"}]
  /\ count \in [Threads -> 0 .. 1]
  /\ events \subseteq {"off", "on"} /\ Len(queue) <= QueueSize /\ Cardinality(got) <= 2
  /\ sem \in 0 .. 1 /\ \A p \in Periods : postponed[p] <= MostPostponed /\ Len(due) <= 2
  /\ doPrint \in 0 .. 1 /\ value \in 0 .. 2 /\ readPrint \in 0 .. 1 /\ readValue \in 0 .. 2
  /\ led \in {"unknown", "off", "on"}

\* The LED alternates: no program ever drives it to the state it is in, unless in
\* the program timer an interrupt came upon the change before.  For the semaphore and
\* the mutex this is what the comments promise: "transfers semaphore", "semaphore
\* not available, ensured to block".
Alternates == again => raced

\* No event merges with another, no message finds the queue full and no signal finds
\* nobody waiting, however late the server is, but in ratemon_cond_server, whose
\* Init task preempts the server.
NothingLost == lost => program = "ratemon_cond_server"

\* The LED never stops blinking, except where a step can be slow for ever: in timer the
\* interrupts may come upon every change, in ratemon_cond_server Init may leave the
\* server no time to run.
Blinks ==
  program \in LedPrograms \ {"timer", "ratemon_cond_server"} =>
    []<>(led = "on") /\ []<>(led = "off")
==============================================================================
