------------------------------ MODULE Tickers ------------------------------
(***************************************************************************)
(* The ticker programs: three tasks print the time every 5, 10 and 15      *)
(* seconds until one of them finds that 35 seconds have passed, or, in     *)
(* ticker_posix, until main, which sleeps meanwhile, returns.  A tick is a *)
(* second here.                                                            *)
(***************************************************************************)
EXTENDS TaskKernel

VARIABLES
  seconds,     \* the seconds of the time of day, or of the time since boot
  call,        \* call[t]: the call t makes next
  over         \* has the program ended?

tickerTask == <<call, over>>
tickerVars == <<program, kernel, seconds, tickerTask>>

(* What each task of a program calls in its loop, and which clock it reads.   *)
Ticker == [calls |-> <<"look", "sleep">>, clock |-> "time of day"]
TickerStackchk == Ticker
TickerTrace == Ticker
LowTicker == Ticker
LowTicker1 == [calls |-> <<"period", "look">>, clock |-> "uptime"]
LowTicker2 == [calls |-> <<"look", "sleep">>, clock |-> "uptime"]
User_Thread == Ticker

Body ==
  [ticker |-> Ticker, ticker_stackchk |-> TickerStackchk, ticker_trace |-> TickerTrace,
   low_ticker |-> LowTicker, low_ticker1 |-> LowTicker1, low_ticker2 |-> LowTicker2,
   ticker_posix |-> User_Thread]
TickerPrograms == DOMAIN Body

Index == [TA1 |-> 1, TA2 |-> 2, TA3 |-> 3]
TickerTasks == DOMAIN Index
TickerThreads == TickerTasks \cup {"main"}
PeriodOf == [TA1 |-> "Period1", TA2 |-> "Period2", TA3 |-> "Period3"]
Interval(t) == 5 * Index[t]
EndSecond == 35
MainSeconds == 32

FirstCall(t) ==
  IF t = "main" THEN "sleep"
  ELSE IF program \in TickerPrograms THEN Body[program].calls[1] ELSE "look"

TickerBoot ==
  Boot((IF program = "ticker_posix" THEN <<"main">> ELSE <<>>) \o <<"TA1", "TA2", "TA3">>)
TickerIdle ==
  /\ seconds = 0 /\ over = FALSE
  /\ call = [t \in TickerThreads |-> FirstCall(t)]
TickerInit == program \in TickerPrograms /\ TickerBoot /\ TickerIdle

Makes(t, c) == ~over /\ Runs(t) /\ call[t] = c
NextCall(t) ==
  \E n \in 1 .. 2 : /\ Body[program].calls[n] = call[t]
                  /\ call' = [call EXCEPT ![t] = Body[program].calls[3 - n]]

\* The threads of ticker_posix only print the time.
SeesEnd == program # "ticker_posix" /\ seconds >= EndSecond

\* Mutant: the end is only seen in the very second.
LookExactly(t) ==
  /\ Makes(t, "look")
  /\ IF SeesEnd /\ seconds = EndSecond
       THEN over' = TRUE /\ call' = call
       ELSE over' = over /\ NextCall(t)
  /\ Goes(t)
  /\ UNCHANGED <<alarm, seconds>>

\* rtems_clock_get_tod, or rtems_clock_get_uptime, the test for the end, the output.
Look(t) ==
  /\ Makes(t, "look")
  /\ IF SeesEnd
       THEN over' = TRUE /\ call' = call
       ELSE over' = over /\ NextCall(t)
  /\ Goes(t)
  /\ UNCHANGED <<alarm, seconds>>

WakeAfter(t) ==
  /\ Makes(t, "sleep") /\ Sleeps(t, Interval(t)) /\ NextCall(t)
  /\ UNCHANGED <<seconds, over>>

\* The status is not looked at.
WaitPeriod(t) ==
  /\ Makes(t, "period") /\ CallPeriod(t, PeriodOf[t], Interval(t)) /\ NextCall(t)
  /\ UNCHANGED <<seconds, over>>

TickerWakes(t) ==
  /\ \/ SleepIsOver(t)
     \/ PeriodEnds(t, PeriodOf[t], Interval(t))
  /\ UNCHANGED <<seconds, tickerTask>>

\* main of ticker_posix.
MainSleeps ==
  /\ Makes("main", "sleep") /\ Sleeps("main", MainSeconds)
  /\ call' = [call EXCEPT !["main"] = "return"]
  /\ UNCHANGED <<seconds, over>>

MainReturns ==
  /\ Makes("main", "return") /\ over' = TRUE
  /\ Goes("main")
  /\ UNCHANGED <<alarm, seconds, call>>

MainWakes == SleepIsOver("main") /\ UNCHANGED <<seconds, tickerTask>>

\* The seconds of the time of day wrap around; those since boot only matter up to 60.
Second ==
  /\ ~over /\ Tick
  /\ seconds' = IF Body[program].clock = "time of day" THEN (seconds + 1) % 60
                ELSE IF seconds < 60 THEN seconds + 1 ELSE seconds
  /\ UNCHANGED tickerTask

TickerNext ==
  /\ program \in TickerPrograms /\ program' = program
  /\ \/ Second
     \/ MainSleeps \/ MainWakes \/ MainReturns
     \/ \E t \in TickerTasks :
          Look(t) \/ WakeAfter(t) \/ WaitPeriod(t) \/ TickerWakes(t)

-----------------------------------------------------------------------------
\* Type correctness.
TickerTypeOK ==
  /\ seconds \in 0 .. 60
  /\ call \in [TickerThreads -> {"look", "sleep", "period", "return"}]
  /\ over \in BOOLEAN

\* Each ticker ends, although none of its tasks may look at the clock in the very
\* second, and the seconds of the time of day are only above the limit for 25 seconds
\* of every minute; ticker_posix ends although none of its threads ever does.
TickersEnd == program \in TickerPrograms => <>over
==============================================================================
