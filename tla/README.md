# A verification of the RTEMS examples

This directory holds TLA+ specifications of the programs in this repository,
the configurations with which TLC checks them, and proofs that TLAPS checks.

The repository is a collection of small programs. Most of them make a few calls
of the RTEMS kernel and print what comes back. One, `led/complex1`, is an
application: a menu, a server thread behind a message queue written for it, and
a changing number of periodic tasks. It is the core of this project. Around it
are the programs with two or more actors, or with a promise that is easy to
break: the LED blinkers, the tickers, the regulator, a task restart, a driver,
and the library through which tasks call a boot monitor.

## Inventory

### The core: `led/complex1`

| Part | State | Operations | Interacts with |
| --- | --- | --- | --- |
| Message queue (`LocalMessageQueuePOSIX10031c.h`, `MessageQueueT.h`) | `pendingM`, `inactiveM`, the buffers on the heap, `mutexM`, the threads waiting for `conditionM` | `Write` = `Allocate`, copy, `Send`; `Read` = `Receive`, copy, `Deallocate`; `IsAvailable`; `ReceivePoll` | any thread |
| LED server (`ledServer.h`) | `active`, `ledCount`, `onPeriod`, `offPeriod` in the thread; `mQueue`, deleted by the destructor | `start`, `stop`, `setPeriod`, `~LEDServer` in main; `ThreadBody` in the LED thread | the queue, the clock |
| Periodic threads (`periodic.c`) | `PeriodicThreads_Ids`, `_Periods`, `_Count`, `_initialized`, `_running`; the kernel's tasks and periods | `Start`, `Stop`, `SetNumberOfPeriodicThreads` from the menu; `PeriodicThreads_Body` in each task | the kernel's object tables |
| Menus (`menu.cc`, `test.cc`, `main.cc`) | `FileNames`, `FileCount`, `FileNamesLoaded` | `Test_menu_run`, `Test_menu_Get_int_bounded`, `statFile` | the console, the two servers above |

What is hard, and what makes each part correct:

* **Queue.** The copies into and out of a buffer are made without the mutex, so
  a buffer must have one owner at any time. A signal must never be lost while
  a thread waits. Messages must come out unaltered and in order. A `Write`
  that finds the queue full gives up its buffer; nothing else may. `Receive`
  tests an uninitialised pointer after a wakeup with nothing to take, and
  `ReceivePoll` has its test the wrong way round.
* **LED server.** Two threads at their own pace, sleeps of lengths the user
  sets, one command per sleep, commands that the queue may refuse while nobody
  looks at the result, and a destructor that waits a second and then deletes
  what the thread may still use.
* **Periodic threads.** Ids that outlive the objects they designate, and
  objects made in the slots of deleted ones. A count that may change between
  `Start` and `Stop`. `Stop` that may come before a task has run, or fail
  half-way.
* **Menus.** A table of 60 names, a flag set before the work it stands for is
  done, and an input that may end.

### The other programs

| Part | State | Operations | Interacts with |
| --- | --- | --- | --- |
| LED servers (`led/*_server`) | a count, an event set, a queue, a semaphore, a mutex or a condition variable | a task sends, releases or signals once a second; a server receives and drives the LED | the kernel's objects, the ready queue |
| LED timers and periods (`led/timer*`, `ratemon*`, `delay`, ...) | `led_do_print`, `led_value` | `Timer_Routine`, in the clock interrupt or the timer server; `LED_Change_Routine` in the task | the clock tick |
| Tickers (`ticker/*`) | the time of day | three tasks that sleep 5, 10 and 15 seconds and end at second 35; in `ticker_posix` a `main` that sleeps 32 seconds and returns | the clock |
| Triple period (`classic_api/triple_period`) | a count | three tasks that are woken at a time, at the end of a period, after an interval | the clock, each other |
| Regulator (`misc/regulator`) | a pool of ten buffers, `delivered` | bursts of seven messages; three deliveries a second | the regulator's thread, which the sender preempts |
| Task restart (`posix_api/psx_task_restart`) | an event, the argument of the faulting thread | send, receive, restart | two threads with priorities |
| User driver (`misc/userdrv`) | `initialized` | the driver's six entries | the I/O manager |
| Monitor library (`micromonitor/diagnostics`) | the pointers, `_monlock`, `_monunlock`, `ignorelock` | `monConnect`, about seventy wrappers, `DisableMonLock`, `EnableMonLock` | the monitor, the application's lock, any task |
| Diagnostics (`micromonitor/diagnostics/main.c`) | `DIAGNOSTICS_RESULT` | `Cstart`, `main` | a monitor that may lack a function |

What is hard, and what makes each part correct:

* **LED servers.** The LED must alternate, however late the server runs: no
  event may merge with another, no message be refused, no signal be sent to
  nobody, and a semaphore that is released must go to the task that waits.
* **Timers.** The clock interrupt and the task share two variables without
  protection; the source says "technically the following 4 statements are a
  critical section".
* **Tickers, triple period.** Seconds wrap at 60, and the tasks look only now
  and then: does the program end?
* **Regulator.** Fourteen messages through ten buffers, none lost, none refused,
  although the sender preempts the thread that makes room for it.
* **Task restart.** A thread that spins must be taken off the processor.
* **Monitor library.** A back door around the lock, whose state every task
  reads without the lock.

### The rest

| Part | What it is | Here |
| --- | --- | --- |
| `c11`, other `posix_api` | each shows a call or two | not modelled |
| `benchmarks/nbench` | vendored BYTEmark code | not modelled; its pure algorithms are candidates |
| `hello`, `cxx`, `file_io`, `filesystem`, `gdb`, `uboot`, `schedsim`, `lvgl`, other `misc` | straight-line demonstrations, pure input and output, or calls of libraries and hardware that are not in this repository | not modelled |

`PROJECT.json` lists every part with its files, and every hazard with its line.

## Modules

`BoundedFifo` is what the queue promises: a writer submits a message, which is
accepted at the tail or, with `Depth` pending, rejected; a reader takes the
oldest. It says nothing of buffers, locks and signals.

`LocalMessageQueue` is the queue as written. One action stands for one critical
section: `lock(t)` takes the mutex; the action named for the method does the
work and releases it. The copies are actions of their own, outside the mutex.
`new` and both `push_back`s may throw.
A waiting thread is at `pc = "Wait"`; `signal` moves any one of them to
`"Woken"`, from where it takes the mutex again. A C++ pointer is a member of
`Buffers` or `NULL`. Undefined behaviour, and a `new` that throws, end a
behaviour (`fate`). `Receive`'s uninitialised pointer may look null
(`ReceiveWaitsAgain`) or not (`ReceivePopsEmpty`). Any number of writers,
readers and pollers may call; `Guarded` readers ask `IsAvailable` before they
call `Read`, as the LED thread does.

`LedServer` is the main thread with the LED menu and the destructor, the LED
thread, and time. It uses the queue as `BoundedFifo` describes it, through
`INSTANCE`, which `LocalMessageQueue` is shown to implement. Time is counted in
ticks of a millisecond (`CONFIGURE_MICROSECONDS_PER_TICK`) and passes only
when neither thread can run. The product of 32 bits in `ThreadBody` is
computed modulo 2^32. `ledCount` is kept modulo 2, which is all the code looks
at; `accepted`, `handled`, `wanted` and `calm` are history variables, which no
guard reads.

`PeriodicThreads` is the menu's three entries, the leaving of the menu, the
tasks' body, and the kernel's tables of tasks and periods, with slots that are
reused. The menu has the higher priority, so a task runs only while the menu
waits for input, but need not get to run between two inputs. `tidy` and `early`
are history variables. The user has been `tidy` so far if the number of threads
was changed only while none ran, and each `Stop` came after every task had come
to create its period. The last `Stop` was `early` if it was the first thing that
was not tidy, so came before some task had got so far.

`TaskKernel` is what the small programs use of RTEMS on one processor, as
operators over its own variables: a first-in first-out ready queue, before which
the threads of higher priority are put (`Outranks`: the Classic initialization
tasks, of priority 1, of `ratemon_cond_server` and of the regulator, and the
threads to which `psx_task_restart` gives other priorities), alarms in the order
in which they were set, the clock tick, rate monotonic periods. A tick takes one
from what each alarm has left; an alarm with none left is due, and while one is
due (`~Quiet`) no thread runs: the interrupt first serves what is due, in the
order in which it was set. The clock may interrupt a running thread before any
of its steps, but only `Slow[program]` times before the same step: that says how
late a thread can be. `postponed` counts the ends of a period that nobody waited
for, up to `MostPostponed`. Everything in it is external.

`LedTasks` has fifteen LED programs. A program is data: for each thread the
calls it makes, in a loop. Each kind of call is an action, which finds the
thread that runs at such a call, does what the kernel does, and advances. `Init`
has already created and started the server, and both are ready, `Init` first.
The counts that the programs keep are used modulo 2 only. In `timer` each
statement of `LED_Change_Routine` is a step, so that the interrupt may come
between any two.

`Tickers` has the seven ticker programs. Six are told apart by the order of
their two calls and the clock they read; in the seventh, `ticker_posix`, no
thread looks for the end, and `main` sleeps for 32 seconds and returns, which
ends the program. `ticker_posix` is configured for up to four processors and is modelled
on one. `Regulator`, `ThreadRestart`, `UserDriver`,
`Diagnostics` and `StatMenu` are one program each. In `StatMenu` a line of input
is a number or not a number, and a name in the directory is counted only. After
the end of the input `fgets` leaves what the buffer held: the last line, or
anything at all before the first.

`Programs` composes these eight: a behaviour chooses one program and runs it,
and the variables of the others stay as they are, so the state space is the sum
of theirs. `TriplePeriod` uses `TaskKernel` alone, because its run looks for a
behaviour that never ends.

`MonitorLibrary` is `monlib.c` for any number of tasks. The wrappers differ only
in the function they call and in three that take no lock, so a wrapper is a
name, and `mon_f` is the same sequence for each: test, count down or take the
lock; call; test, count down, give back. Each read and each write of
`ignorelock`, `_monlock` and `_monunlock` is a step: `ignorelock--` is a load
and a store, `monConnect` stores the two locks one after the other, and a
pointer may be read again between its test and its call, and be null by then
(`PointerGone`). A command may call back into the application, so a task has a
stack of wrappers. `monConnect` asks for 70 functions and counts what is
missing. The lock is the application's; it is taken to be a semaphore, with a
count and no owner. `misused` and `relocked` are history variables: another task
passed a test of `ignorelock` while the back door was open, or a command left it
open; and the locks were changed while a task was in the library, or a task came
in between the two stores. `Proper` use is neither.

`LedRotate` is the macro of `led.h` for the MPC8313ERDB.

`LocalMessageQueue_proofs`, `LedServer_proofs`, `PeriodicThreads_proofs`,
`Programs_proofs` and `MonitorLibrary_proofs` have the theorems about the module
each is named after. `Programs_proofs` rests on `TaskKernel_proofs`, which has
lemmas about alarms and lines of ready threads, and on `Regulator_proofs` and
`LedTasks_proofs`, which have the invariants of those parts and show that each
of their steps keeps them. `MCLocalMessageQueue` gives TLC the symmetry of
buffers, messages and writers. A definition with a comment that begins "Mutant:"
is a plausible bug, unused by the specification, with which a property is shown
to be one that the code could violate.

## Runs

| Run | Module and configuration | Asks |
| --- | --- | --- |
| `queue` | `MCLocalMessageQueue`, `MCQueue.cfg` | Is the queue correct for two writers and two blocking readers, one of which polls, with spurious wakeups? |
| `led_queue` | `MCLocalMessageQueue`, `MCLedQueue.cfg` | Is it correct as the LED server uses it, and is a message that was accepted taken in the end? |
| `poll` | `MCLocalMessageQueue`, `MCPoll.cfg` | Does `ReceivePoll` return a message that is available? It does not. |
| `led_server` | `LedServer`, `MCLedServer.cfg` | Does the LED thread do what was asked, for as long as was asked, and when is the destructor's second enough? |
| `led_period` | `LedServer`, `MCLedPeriod.cfg` | Does it keep every period the menu offers? It does not. |
| `periodic` | `PeriodicThreads`, `MCPeriodicThreads.cfg` | For which user are `Start` and `Stop` correct, and what does a `Stop` that comes too early do? |
| `monitor` | `MonitorLibrary`, `MCMonitor.cfg` | Does the library's lock exclude, and is it given back, also when a command calls back through the back door? |
| `back_door` | `MonitorLibrary`, `MCBackDoor.cfg` | May the back door be used by three commands, as the comment says? It may not. |
| `programs` | `MCPrograms`, `MCPrograms.cfg` | Does each of the small programs do what it shows, with late threads, for ever? |
| `triple_period` | `MCTriplePeriod`, `MCTriplePeriod.cfg` | Does the demonstration end after 60 seconds? It does not. |
| `led_rotate` | `LedRotate`, `MCLedRotate.cfg` | Does `LED_ROTATE` stay inside its table? It does not. |
| `stop_threads` | `PeriodicThreads`, `MCStopThreads.cfg` | Does `Stop` stop the threads, whoever the user? It does not. |

### The bounds, and why they are enough

* `queue`: depth 2, so that a queue can be neither empty nor full; four
  buffers, so that `Allocate` finds an unused buffer, gets a new one, and runs
  out; two messages, so that their order shows; two readers, so that one can
  take the message another was woken for.
* `led_queue`: five buffers. `PoolBounded` allows depth plus threads, that is
  four, that are not leaked, so five would violate it.
* `led_server`: depth 2 with three commands and `ShutdownLED`, so that commands
  and `ShutdownLED` may each be refused; periods of 250 ms, less than the
  destructor's second, and 4294 ms, the longest for which the product does not
  overflow. `Quantum` of 500 ms lets commands arrive during a sleep.
* `periodic`: two threads at most, a third task that only a repeated `Start`
  would need (the program has room for 101 tasks and 100 threads), two periods.
  A second round of `Start` and `Stop` reuses slots. With a count of three the
  state space outgrows the time a run should take.
* `monitor`: one task that runs commands and one other, which is all that two
  tasks can do to each other; a function that every monitor has, one that takes
  the lock and may be missing (`timer`), one that takes no lock and may be
  missing (`bbc`), and `docommand`. `MaxAhead` of 2 stops a task that takes or
  gives the lock twice without the opposite; once is what correct use needs, so
  the violation of `LockBalanced` is inside the bound. The locks may be changed
  carelessly once (`StoreLock`).
* `programs`: a second is two ticks, the poll of `timer` one. A step may take
  three ticks in the servers, which is more than a second; with one tick for
  the other programs a thread may still be late for any one thing. With one tick a
  step of `timer_server` takes less than a second, as `Alternates` needs there
  (`Proofs`). A period
  that nobody waits for is counted up to two. `MaxFiles` is 4 instead of 60: the
  table has 0 to 5 names to take, so it is empty, has room, is full, or is too
  small. A tick is a second in `Tickers`, whose times are whole
  seconds; the tickers count to 60, where the time of day wraps. In `Regulator` a
  second is two ticks (`delivery_thread_period`) and a step may take one, which
  is within `RegulatorPrompt` (`Proofs`).
* `triple_period`: the seconds since nine o'clock stop at 60, as nothing in the
  program tells later ones apart once the absolute times lie in the past.

`CHECK_DEADLOCK FALSE` in `monitor`, `back_door`, `programs` and
`triple_period`: programs end, and in `monitor` a task that took the lock
without giving it back may block all.

### What the runs found

1. `ReceivePoll` (`LocalMessageQueuePOSIX10031c.h:210`) returns `NULL` when a
   message is pending and pops an empty list when none is. No example calls it.
2. `ThreadBody` (`ledServer.h:129`) computes `p * 1000000` in 32 bits. For
   periods from 4295 ms, which the menu offers up to 10000 ms, the LED's sleep
   is not what was asked for: 10411 ticks for 10000 ms.
3. `PeriodicThreads_Stop` (`periodic.c:133`) stops as many threads as the menu
   was last told, not as many as were started, and clears the flag. The rest
   run on and cannot be stopped.
4. `DisableMonLock` and `EnableMonLock` (`monlib.c:297`), called by commands of
   their own as the comment shows, give the lock back once too often: from then
   on two tasks may be in the monitor at once.
5. Task 1 of `triple_period` (`tasks.c:45`) waits for a time with 60 seconds or
   more, which there is none. After a minute it asks to be woken at second 60,
   is refused, and spins; the other two tasks, of the same priority, never run
   again.
6. `LED_ROTATE` (`led.h:57`) starts again at 9 with a table of 8 values.

`CalmTeardown`, `Proper` in `MonitorLibrary`, `RegulatorPrompt` and the `Tidy...`
properties state the conditions under which the code is right, and say nothing of
what happens otherwise. Without them, `led_server` reaches states in which the LED
thread uses the deleted queue, also because `ShutdownLED` was dropped by a full queue;
a command that is rejected is lost; `monitor` reaches states in which a task
has taken the count that was meant for the command, and is in the monitor without the
lock; and `periodic` reaches states in which a `Stop` fails half-way, after which
`Start` does nothing and `Stop` fails again. That the latter is no accident of timing
`StopCompletes` says: a tidy user's `Stop` always comes to its end, and the first
that comes too early never does, even when a stale id makes it delete another
thread's period in place of the missing one.

The regulator depends on time. Its sender, of priority 1, preempts the delivery
thread, of priority 16, so the second burst finds a buffer for each message only
if four of the first seven were delivered in the five seconds between. That
takes seven steps of the delivery thread, so `7 * Slow < 5 *
delivery_thread_period` suffices. It is also needed where TLC was asked: of the
pairs of `Slow` and `delivery_thread_period`, (0, 1), (1, 2), (2, 3), (5, 8) and
(7, 10) satisfy `BuffersSuffice`, and (1, 1), (2, 2), (3, 4) and (5, 7) let the
assertion fail. That no buffer and no message is lost holds whatever they are.

`Alternates` and `Blinks` hold of every LED program in the run with two exceptions,
which the properties name: in `timer` an interrupt inside the critical section loses
a change, and with one at every change the LED stands still; in
`ratemon_cond_server`, whose `Init` outranks the server, a server that is late
finds signals lost, and one that is always late never runs.

## Fairness

`led_queue` checks `AcceptedIsTaken` under `FairSpec`. A thread inside a method
runs on (weak fairness of its steps). The reader thread calls `Read` again and
again, because `ThreadBody` is a loop. Taking the mutex is strongly fair: the
operating system queues the threads that wait for it, so a thread cannot be
passed over for ever. Writers need not write.

`led_server` checks `AcceptedAreHandled` under weak fairness of each thread and
of time: the two threads block on nothing but their sleeps and the queue, whose
`Read` does not block here (`NeverWaits`). The user owes nothing.

`programs` checks `Blinks`, `TickersEnd` and `FaultingThreadRestarts` under weak
fairness of the whole next-state relation, for the programs that run on the
kernel: the machine never stops. The bound on `Tick` gives the running thread its
turn and every alarm its tick, so nothing more is needed. The menus, the driver
and the diagnostics have no fairness: the user and the monitor owe nothing.
`StuckAtEnd` is an action property.

`triple_period` adds strong fairness of the clock tick. The counterexample to
`DemoEnds` is thus one in which time goes on for ever and task 1 spins, and not
one in which the clock stops.

The other runs check safety only.

## Proofs

`LocalMessageQueue_proofs` proves, for any threads, buffers, messages and
depth, what `queue` and `led_queue` check on small instances:

| Theorem | States |
| --- | --- |
| `TypeCorrect` | `TypeOK` |
| `OwnershipIsExclusive` | `ExclusiveOwnership` |
| `WakeupsAreNotLost` | `NoLostWakeup` |
| `LeaksAreRejections` | `LeakOnlyWhenFull` |
| `PoolIsBounded` | `PoolBounded` |
| `SoleGuardedReader` | `NeverWaits`, if the queue has one reader, which asks first, and no poller |
| `QueueImplementsFifo` | `ImplementsFifo`, that is `Fifo!FifoSpec` |

They rest on the three assumptions of the module: the depth is positive; the
threads are finitely many and the writers neither read nor poll; `NULL` is no
thread, buffer or message.

The argument. The inductive invariant is `QueueInv`, the conjunction of
`TypeOK`, `ExclusiveOwnership` and `PointerOK`: a thread has a buffer exactly
while it is between the critical sections that give and take it.
`ExclusiveOwnership` is not inductive alone: that `Send` may push its buffer
follows only if the thread's pointer is its own, which the program counter
tells. Four actions move a buffer, and a lemma for each says from where to
where; two more say that taking a buffer nobody has, and giving one's own away,
keep ownership exclusive. `NoLostWakeup` follows by counting: a `Send` with
a thread waiting adds a message and a woken thread, and a woken thread that
leaves takes a message with it or finds none. `PoolBounded` needs that the
queue is never longer than `Depth`: `Allocate` gets a new buffer only when none
is unused, and then those that can be found are the pending ones and one for
each thread that has one; every other step finds no more than before. The
refinement needs
`MessageOK`: from the copy on, a writer's buffer holds what its caller passed,
because nobody else owns that buffer. Then each step of `LocalMessageQueue`
maps to the step of `BoundedFifo` with its name, or leaves it as it is: the
message counts as taken when the reader pops it, though it is copied later.

`LedServer_proofs` proves, for any depth, any number of commands, and periods
up to the 10000 ms of the menu:

| Theorem | States |
| --- | --- |
| `LedTypeCorrect` | `TypeOK` |
| `ShortPeriodsAreHonoured` | `PeriodHonoured`, if no period is longer than 4294 ms |
| `CalmTeardownIsSafe` | `CalmTeardown` |
| `SettlesAsWanted` | `SettledAsWanted` |

The inductive invariant `LedInv` adds to `TypeOK` what main is submitting at
each place (`OutboxOK`) and that messages are counted right (`CountsOK`:
what was accepted is handled or pending, and is a command the user gave or
`ShutdownLED`); without it `handled` could outrun `accepted`. `CalmTeardown`
needs `CalmInv` besides: after a calm submission the LED thread is gone, or
the queue holds `ShutdownLED` alone and the thread sleeps for less time than
main, or is already on its way to the message while main still sleeps. A step
of time is the least of the timers, so the thread's comes to zero first; and
while the thread is ready no time passes. `ShortPeriodsAreHonoured` rests on a
lemma about the 32-bit arithmetic (`SleepIsExact`).

`SettledAsWanted` needs to know what the pending commands will do. Only the last
of a kind matters: `SettledInv` says that the last pending `StartLED` or
`StopLED` asks for what is wanted, or, if there is none, that the thread already
does it, and likewise for `SetRate`.

`PeriodicThreads_proofs` proves, for any number of threads and any room in the
kernel that is enough for them:

| Theorem | States |
| --- | --- |
| `PeriodicTypeCorrect` | `TypeOK` |
| `StopLeavesNothing` | `TidyStop` |
| `ThreadsAreTheirOwn` | `TidyRunning` |
| `StatusIsOk` | `TidyStatus` |
| `StopIsWhole` | `StopCompletes` |

The inductive invariant `PeriodicInv` says of every user that the kernel's lists
have each free slot once (`ListsOK`) and how far the menu is (`MenuOK`); and of
a tidy one (who changes the count only while no threads run, and stops them only
after each has come to create its period) that each index in use, `Live(n)`, has
a task of its own, which finds its own period in the array (`ThreadsOK`,
`PeriodsOK`), with every status successful (`StatusOK`). `Live` follows `Start`
upwards and `Stop` upwards behind it, so that it is true also half-way, when the
two arrays hold ids of deleted objects next to those of live ones. A pigeonhole
argument shows that the kernel never runs out (`TasksSuffice`,
`PeriodsSuffice`), and `NextIsThere` that `Stop` never meets an object that is
gone. Of a `Stop` that came too early, `EarlyInv` says that fewer periods exist
than threads are left to delete (`TooFewPeriods`: the thread without one is
missing), and each round takes one from both; so it never comes to the end.

`Programs_proofs` proves, for any size of the table of files, any input, any
functions that the monitor lacks, any length of a second, and any lateness
(`Slow`) of the threads:

| Theorem | States |
| --- | --- |
| `ProgramsAreTyped` | `ProgramsTypeOK` |
| `NothingIsLost` | `NothingLost` |
| `LedAlwaysAlternates` | `Alternates`; in `timer_server` only if no step takes a second (`Prompt`) |
| `BuffersAlwaysSuffice` | `BuffersSuffice`, if seven steps of the delivery thread take less than a pause (`RegulatorPrompt`); `Conserved` however slow they are |
| `FilesAreOffered` | `FilesOffered` |
| `NoAnswerAfterTheEnd` | `StuckAtEnd` |
| `DriverAlwaysServes` | `DriverServes` |
| `ResultIsAlwaysTheUsers` | `ResultIsTheUsers` |

Each step of `Programs` is a step of one part or leaves the part alone, so the
invariant of a part (`MenuInv`, `DriverInv`, `ResultInv`, `RegulatorInv`,
`LedInv`, `TickerInv`) is shown for its own steps only. `MenuInv` relates the
table, the flag and the open directory (`TableOK`) and what is in the buffer after
the end of the input (`BufferOK`).

The programs on the kernel are about who runs when, and their invariants too.
`TaskKernel_proofs` reduces the kernel to two questions: which alarms are set, with
how much left, and which was set before which (`In`, `Before`; what `Set`,
`Unserved` and `Tick` do to them); and who is in the line of two ready threads and
who is first (`LinesOf`, `First`; what blocking and waking do to them). `Places`
says that a thread is in one place only: in the line, asleep, blocked on an object,
or waiting for a period. `LedInv` gives each family of LED programs its own
invariant:

* Events and messages (`SendInv`): either the server has shown what was sent last,
  or it is still to receive or to show it, and then `Init`, if it is to send
  next, is not first in the line. That holds because the two threads have one
  priority: when both are late, the server became ready first, and the line keeps
  that order however long a step takes.
* Condition variables (`CondInv`, `RatemonCondInv`): when `Init` is first and is to
  signal, the server waits. `RatemonCondInv` does without this, because there
  `Init` outranks the server and signals are lost.
* Semaphore and mutex (`TurnInv`): it is one thread's turn, from its `obtain` to
  its `release`; the other waits for the semaphore, or is still to ask for it, and
  then the first does not come to release it before.
* One thread (`OneInv`): the LED follows from the count or from the place in the
  text. A period that was missed changes the time, not the order.
* `timer` (`TimerInv`): both timers are set for the same time, so the one that was
  set last is due last (`LastSet`), and the interrupts alternate. `Going` says, for
  each statement of `LED_Change_Routine`, what was read and what was cleared, unless
  an interrupt has come upon it (`raced`).
* `timer_server` (`ServerInv`, `OnceInv`): `Serving` says which timer is served
  next. It starts to hold when `Init` sets the second timer before the first is
  served again, which needs `Prompt`. `Asleep` says why that suffices: while
  `Init` sleeps, the first timer has longer to go than `Init`, and the server, whose
  first step takes less than the second that `Init` sleeps, waits before `Init` wakes.
  Without `Prompt` the property is false: with a
  second of two ticks, and steps that may take two, TLC finds `Init` so late to go
  to sleep, and then the server so late to wait, that it serves the first timer
  twice in a row. What holds for any lateness is that no timer is set or left to
  the server twice (`OnceInv`).

`RegulatorInv` counts buffers and messages, however slow a step is (`Counts`). With
`RegulatorPrompt` it also keeps time (`InTime`). While the sender pauses, `e` ticks of
the five seconds have gone, which is what its alarm has not left, and one of the
`Phases` holds: each says where the delivery thread is on its way through seven
steps, with how much delivered, and that `e` is no more than the steps behind it can have
taken, `Slow` ticks each (`Late` is what the present one has taken), or, after the
wait for the second period, than a period more. Since seven steps are less
than the pause, the sender wakes when four messages are delivered (`Underway`): seven
buffers are free, and it does not matter any more who preempts whom.

`MonitorLibrary_proofs` proves, for any tasks, functions and monitor:

| Theorem | States |
| --- | --- |
| `MonitorTypeCorrect` | `TypeOK` |
| `MissingFunctionsAreTold` | `MissingIsTold` |
| `MonitorIsExclusive` | `Exclusion` |
| `LocksAreGivenBack` | `LockBalanced` |
| `CommandsDoNotBlockThemselves` | `NoSelfDeadlock` |

`FramesInv` says in which wrappers a task can be: none, one, or one called by a
command. It holds however the back door is used. `MonitorInv` adds, if it is
used as intended, what its counter can be (`DoorOK`) and who has the lock
(`HoldersOK`): the task whose outermost wrapper took it, and one only, and the
lock is free exactly if there is none. `Exclusion` alone is not inductive,
because a wrapper called by a command enters without the lock; that the lock is
its own task's follows from where the back door was opened. `TypeOK` holds for
every use: neither `ignorelock` nor what a task has read of it and is still to
store exceeds 2 (`CountInv`; below there is no bound, as the count may be taken
by several tasks, again and again). `PointersInv` says for which tasks the two
pointers cannot be null, and `MissingIsTold` rests on it: between the test of a
pointer and its call a task finds the same pointer, unless the locks were
changed carelessly (`relocked`).

Model-checked only: liveness (`AcceptedIsTaken`, `AcceptedAreHandled`, `Blinks`,
`TickersEnd`, `FaultingThreadRestarts`), which the prover does not do. Every
invariant and every action property of a run that must pass is a theorem.

## Not modelled

* Failures of `pthread` calls on valid objects: the code throws, or prints and
  goes on.
* The converters of `MessageQueueTemplate`: the LED server passes none.
* The destructors of the queue: `MessageQueueT.h:78` lacks its `~` and is a
  second constructor, so `delete mQueue` frees the outer object only.
* A failure to create the LED thread, which is printed and ignored.
* What is printed, and the LED itself.
* The kernel, the regulator's library, the monitor and the I/O manager. They are
  not in this repository; what the programs use of them is modelled and marked
  external in `PROJECT.json`.
* Failures to create an object in the small programs: most of them stop there or
  look at no status at all.
* `Test_menu_Get_int`, `_Get_float_bounded` and `_Get_string`: nobody calls them.
* `classic_signal`: a handler, run after a send from the clock interrupt, sets a
  flag that one task polls, and the task has a limit of its own.
* `psx_thread_restart`, the same source as `psx_task_restart` built with
  pthreads; the other `posix_api` samples and `c11`, each of which shows a call
  or two.
* `benchmarks/nbench`: vendored, sequential, and about data, not control.
* `hello`, `cxx`, `file_io`, `filesystem`, `schedsim`, `lvgl`, `gdb`, `uboot` and
  the rest of `misc`: straight lines of output, or calls of libraries and
  hardware that are not here.

## What could follow

1. `classic_signal` and the samples of `posix_api` and `c11` with two threads, on
   `TaskKernel`.
2. Bounds on time, which the invariants of `LedTasks_proofs` do not give: by how
   much the LED's second can be off when steps take at most `Slow` ticks.
3. The pure algorithms of `benchmarks/nbench` over bounded inputs, each against
   a reference definition: heap sort, the bit fields, IDEA's inverse keys,
   Huffman coding, the assignment.
4. A refinement of the small servers: an LED that alternates once a second as
   the abstract specification of all of them.
