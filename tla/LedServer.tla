------------------------------ MODULE LedServer ------------------------------
(***************************************************************************)
(* The LED server of led/complex1: the main thread, which sends commands   *)
(* from the menu and at last deletes the server, and the LED thread, which *)
(* takes one command per turn of its loop, switches the LED and sleeps.    *)
(*                                                                         *)
(* The two share a message queue, used here as BoundedFifo describes it,   *)
(* which is what LocalMessageQueue implements.                             *)
(*                                                                         *)
(* Time is counted in clock ticks of one millisecond and passes only while *)
(* nobody can run: a thread that is ready runs in no time.  The two        *)
(* threads interleave freely when both are ready.  Quantum is the longest  *)
(* stretch of time in one step; a command may arrive between two steps.    *)
(***************************************************************************)
EXTENDS Naturals, Sequences, FiniteSetsExt

CONSTANTS
  Periods,      \* the periods the user may ask for, in milliseconds
  Depth,        \* the depth of the queue; 10 in the code
  MaxCommands,  \* bound: how many commands the user gives
  Quantum       \* bound: the longest step of time, in milliseconds

ASSUME LedAssumption ==
  /\ Periods \subseteq 1 .. 10000
  /\ Depth \in Nat \ {0}
  /\ MaxCommands \in Nat
  /\ Quantum \in Nat \ {0}

NoCommand == [type |-> "none"]
ShutdownLED == [type |-> "ShutdownLED"]
SetRate(on, off) == [type |-> "SetRate", on |-> on, off |-> off]

UserCommands ==
  {[type |-> "StartLED"], [type |-> "StopLED"]}
    \cup {SetRate(on, off) : on \in Periods, off \in Periods}

VARIABLES
  outbox, queue, inbox,  \* the message queue, see BoundedFifo
  deleted,               \* has ~LEDServer deleted mQueue?
  mainPc,                \* "menu", "write", "destroy", "closing", "delete", "exit"
  mainTimer,             \* how long main still sleeps
  ledPc,                 \* "check", "read", "blink", "asleep", "gone"
  ledTimer,              \* how long the LED thread still sleeps
  active, ledCount, onPeriod, offPeriod,  \* ThreadBody's locals; ledCount modulo 2
  dangling,              \* has the LED thread used the queue after its deletion?
  commands,              \* how many commands the user gave
  accepted, handled,     \* how many messages the queue accepted, the thread handled
  wanted,                \* what the accepted commands ask for
  calm                   \* was Shutdown accepted with the LED thread about to look?

main == <<mainPc, mainTimer, commands>>
led == <<ledPc, ledTimer, active, ledCount, onPeriod, offPeriod, handled, dangling>>
history == <<accepted, wanted, calm>>
fifo == <<outbox, queue, inbox>>
vars == <<fifo, deleted, main, led, history>>

MQueue == INSTANCE BoundedFifo
            WITH Writers <- {"main"}, Readers <- {"led"},
                 Msgs <- UserCommands \cup {ShutdownLED}, NULL <- NoCommand

-----------------------------------------------------------------------------
(* The LED thread's sleep.                                                 *)

\* tv_nsec in units of 64 ns: (p * 1000000) % 1000000000, the product modulo
\* 2^32, which is 67108864 (2^26) units.  In these units TLC can hold every number.
Nsec64(p) == ((p * 15625) % 67108864) % 15625000

\* Mutant: the milliseconds are taken for microseconds.
SleepTicksMicro(p) == 1000 * (p \div 1000) + ((p % 1000) \div 1000)

\* The ticks nanosleep waits: tv_nsec is rounded up to a whole tick.
SleepTicks(p) == 1000 * (p \div 1000) + (Nsec64(p) + 15624) \div 15625

\* A period of 0, as before the first SetRate, stands for half a second.
Default(p) == IF p = 0 THEN 500 ELSE p

-----------------------------------------------------------------------------
Init ==
  /\ MQueue!FifoInit
  /\ deleted = FALSE
  /\ mainPc = "menu" /\ mainTimer = 0 /\ commands = 0
  /\ ledPc = "check" /\ ledTimer = 0
  /\ active = FALSE /\ ledCount = 0 /\ onPeriod = 0 /\ offPeriod = 0
  /\ handled = 0 /\ dangling = FALSE
  /\ accepted = 0 /\ calm = FALSE
  /\ wanted = [active |-> FALSE, on |-> 0, off |-> 0]

(* The main thread.                                                        *)

\* The user picks an entry of the LED menu: start, stop or setPeriod.
Command(c) ==
  /\ mainPc = "menu"
  /\ commands < MaxCommands
  /\ commands' = commands + 1
  /\ MQueue!Submit("main", c)
  /\ mainPc' = "write"
  /\ UNCHANGED <<mainTimer, deleted, led, history>>

\* The user leaves the menu: `delete led` starts by writing ShutdownLED.
ExitMenu ==
  /\ mainPc = "menu"
  /\ MQueue!Submit("main", ShutdownLED)
  /\ mainPc' = "destroy"
  /\ UNCHANGED <<mainTimer, commands, deleted, led, history>>

\* What an accepted command asks of the LED thread.
Wants(w, c) ==
  CASE c.type = "StartLED" -> [w EXCEPT !.active = TRUE]
    [] c.type = "StopLED"  -> [w EXCEPT !.active = FALSE]
    [] c.type = "SetRate"  -> [w EXCEPT !.on = c.on, !.off = c.off]
    [] OTHER               -> w

\* Write's Send.  Nobody looks at its result.
SendAccepted ==
  /\ mainPc \in {"write", "destroy"}
  /\ MQueue!Accept("main")
  /\ accepted' = accepted + 1
  /\ wanted' = Wants(wanted, outbox["main"])
  /\ calm' = (mainPc = "destroy" /\ queue = <<>> /\ ledPc = "asleep" /\ ledTimer < 1000)

SendRejected ==
  /\ mainPc \in {"write", "destroy"}
  /\ MQueue!Reject("main")
  /\ UNCHANGED history

\* Mutant: the destructor does not wait for the LED thread.
WrittenNoWait ==
  /\ SendAccepted \/ SendRejected
  /\ mainPc' = IF mainPc = "write" THEN "menu" ELSE "delete"
  /\ UNCHANGED <<mainTimer, commands, deleted, led>>

\* Back from Write: to the menu, or to the destructor's sleep(1).
Written ==
  /\ SendAccepted \/ SendRejected
  /\ mainPc' = IF mainPc = "write" THEN "menu" ELSE "closing"
  /\ mainTimer' = IF mainPc = "write" THEN 0 ELSE 1000
  /\ UNCHANGED <<commands, deleted, led>>

DestructorWakes ==
  /\ mainPc = "closing" /\ mainTimer = 0
  /\ mainPc' = "delete"
  /\ UNCHANGED <<fifo, deleted, mainTimer, commands, led, history>>

\* delete mQueue: nothing waits for, or joins, the LED thread.
DeleteQueue ==
  /\ mainPc = "delete" /\ ~deleted
  /\ deleted' = TRUE
  /\ UNCHANGED <<fifo, main, led, history>>

\* doTest returns and main calls exit(0), which ends both threads.
Exit ==
  /\ mainPc = "delete" /\ deleted
  /\ mainPc' = "exit"
  /\ UNCHANGED <<fifo, deleted, mainTimer, commands, led, history>>

-----------------------------------------------------------------------------
(* The LED thread: ThreadBody's loop.                                      *)

\* mQueue->IsAvailable().
Check ==
  /\ ledPc = "check"
  /\ dangling' = (dangling \/ deleted)
  /\ ledPc' = IF queue # <<>> THEN "read" ELSE "blink"
  /\ UNCHANGED <<fifo, deleted, main, history, ledTimer, active, ledCount, onPeriod,
                 offPeriod, handled>>

\* Mutant: the case for SetRate forgets the off period.
HandleOnOnly(c) ==
  /\ active' = (c.type = "StartLED" \/ (active /\ c.type # "StopLED"))
  /\ onPeriod' = IF c.type = "SetRate" THEN c.on ELSE onPeriod
  /\ offPeriod' = offPeriod
  /\ ledPc' = IF c = ShutdownLED THEN "gone" ELSE "blink"

\* Mutant: the case for StopLED lacks its break.
HandleFallsThrough(c) ==
  /\ active' = (c.type = "StartLED" \/ (active /\ c.type # "StopLED"))
  /\ onPeriod' = IF c.type = "SetRate" THEN c.on ELSE onPeriod
  /\ offPeriod' = IF c.type = "SetRate" THEN c.off ELSE offPeriod
  /\ ledPc' = IF c.type \in {"ShutdownLED", "StopLED"} THEN "gone" ELSE "blink"

\* The switch on the message's discriminator.
Handle(c) ==
  /\ active' = (c.type = "StartLED" \/ (active /\ c.type # "StopLED"))
  /\ onPeriod' = IF c.type = "SetRate" THEN c.on ELSE onPeriod
  /\ offPeriod' = IF c.type = "SetRate" THEN c.off ELSE offPeriod
  /\ ledPc' = IF c = ShutdownLED THEN "gone" ELSE "blink"

\* mQueue->Read( &m ), then the switch.
ReadCommand ==
  /\ ledPc = "read"
  /\ MQueue!Take("led")
  /\ Handle(inbox'["led"])
  /\ handled' = handled + 1
  /\ dangling' = (dangling \/ deleted)
  /\ UNCHANGED <<deleted, main, history, ledTimer, ledCount>>

\* LED_ON or LED_OFF by turns while active, and sleep for the period.
Blink ==
  /\ ledPc = "blink"
  /\ IF active
       THEN /\ ledCount' = (ledCount + 1) % 2
            /\ ledTimer' = SleepTicks(Default(IF ledCount' = 1 THEN onPeriod ELSE offPeriod))
       ELSE /\ ledTimer' = 1000
            /\ UNCHANGED ledCount
  /\ ledPc' = "asleep"
  /\ UNCHANGED <<fifo, deleted, main, history, active, onPeriod, offPeriod, handled,
                 dangling>>

LedWakes ==
  /\ ledPc = "asleep" /\ ledTimer = 0
  /\ ledPc' = "check"
  /\ UNCHANGED <<fifo, deleted, main, history, ledTimer, active, ledCount, onPeriod,
                 offPeriod, handled, dangling>>

-----------------------------------------------------------------------------
(* Time.                                                                   *)

Timers == {mainTimer, ledTimer} \ {0}

\* Nobody can run: main waits for the user or sleeps, the LED thread sleeps or
\* is gone.
Tick ==
  /\ mainPc \in {"menu", "closing"} /\ (mainPc = "closing" => mainTimer > 0)
  /\ ledPc \in {"asleep", "gone"} /\ (ledPc = "asleep" => ledTimer > 0)
  /\ Timers # {}
  /\ LET d == Min(Timers \cup {Quantum})
     IN  /\ mainTimer' = IF mainTimer = 0 THEN 0 ELSE mainTimer - d
         /\ ledTimer' = IF ledTimer = 0 THEN 0 ELSE ledTimer - d
  /\ UNCHANGED <<fifo, deleted, mainPc, commands, ledPc, active, ledCount, onPeriod,
                 offPeriod, handled, dangling, history>>

MainStep == Written \/ DestructorWakes \/ DeleteQueue \/ Exit

LedStep == mainPc # "exit" /\ (Check \/ ReadCommand \/ Blink \/ LedWakes)

Ended == mainPc = "exit" /\ UNCHANGED vars

Next ==
  \/ \E c \in UserCommands : Command(c)
  \/ ExitMenu
  \/ MainStep
  \/ LedStep
  \/ Tick
  \/ Ended

\* The threads run when they can, and time passes.  The user owes nothing.
Fairness == WF_vars(MainStep) /\ WF_vars(LedStep) /\ WF_vars(Tick)

Spec == Init /\ [][Next]_vars /\ Fairness

-----------------------------------------------------------------------------
(* Properties.                                                             *)

Commands == UserCommands \cup {ShutdownLED}

QueueOK ==
  /\ outbox \in [{"main"} -> Commands \cup {NoCommand}]
  /\ queue \in Seq(Commands) /\ Len(queue) <= Depth
  /\ inbox \in [{"led"} -> Commands \cup {NoCommand}]

FlagsOK ==
  deleted \in BOOLEAN /\ dangling \in BOOLEAN /\ calm \in BOOLEAN /\ active \in BOOLEAN

PlacesOK ==
  /\ mainPc \in {"menu", "write", "destroy", "closing", "delete", "exit"}
  /\ ledPc \in {"check", "read", "blink", "asleep", "gone"}

TimersOK == mainTimer \in 0 .. 1000 /\ ledTimer \in Nat /\ ledCount \in 0 .. 1

PeriodsOK == onPeriod \in Periods \cup {0} /\ offPeriod \in Periods \cup {0}

NumbersOK ==
  /\ commands \in 0 .. MaxCommands
  /\ accepted \in 0 .. MaxCommands + 1 /\ handled \in 0 .. accepted

WantedOK ==
  wanted \in [active : BOOLEAN, on : Periods \cup {0}, off : Periods \cup {0}]

\* Type correctness: the queue never holds more than Depth messages, nor the
\* LED thread a period nobody gave it; nothing is handled that was not accepted.
TypeOK ==
  /\ QueueOK /\ FlagsOK /\ PlacesOK /\ TimersOK /\ PeriodsOK /\ NumbersOK
  /\ WantedOK

\* The destructor's one second is enough if, when it writes ShutdownLED, no
\* command is pending and the LED thread is asleep and wakes within that second:
\* then the thread has left before the queue is deleted.  Otherwise it is not:
\* the thread takes one command per sleep, may sleep longer, or may just have
\* found the queue empty.
CalmTeardown == calm => ~dangling /\ (deleted => ledPc = "gone")

\* Whatever the order of commands and turns of the loop, with no command under
\* way the LED thread does what the accepted commands, and only those, asked for.
SettledAsWanted ==
  queue = <<>> /\ ledPc # "gone" =>
    [active |-> active, on |-> onPeriod, off |-> offPeriod] = wanted

\* The LED stays on, and off, for as many milliseconds as the user set, or for
\* the default.
PeriodHonoured ==
  [][active /\ ledPc = "blink" /\ ledPc' = "asleep" =>
       ledTimer' = Default(IF ledCount' = 1 THEN onPeriod ELSE offPeriod)]_vars

\* Each command the queue accepted is handled, unless the server is deleted first.
AcceptedAreHandled ==
  \A n \in 1 .. MaxCommands + 1 : accepted >= n ~> handled >= n \/ deleted
==============================================================================
