-------------------------- MODULE Regulator_proofs --------------------------
(***************************************************************************)
(* The task of misc/regulator always finds a buffer when the steps of the  *)
(* delivery thread are short enough (Programs_proofs has the theorem).     *)
(***************************************************************************)
EXTENDS Regulator, TaskKernel_proofs

RegulatorAlarms == {"Send", "Period1"}
Waiter == <<"Deliver", "Period1">>
P == delivery_thread_period
S == Slow["regulator"]
Late == spent["Deliver"]

\* No buffer and no message is lost, whatever the times are.
Counts ==
  /\ burst \in 0 .. 2 /\ i \in 1 .. 8 /\ sending \in BOOLEAN
  /\ buffers \in Nat /\ waiting \in Nat /\ delivered \in Nat \ {0} /\ dequeued \in -1 .. 3
  /\ buffers + waiting + (IF sending THEN 1 ELSE 0) = 10
  /\ delivered - 1 + waiting = msg /\ msg = 7 * burst + i - 1
  /\ sending => i <= 7 /\ burst < 2
OutcomeOK == outcome \in {"no", "end", "assertion failed"}

\* The lines that occur: the task never queues behind the thread.
SendReady == ready \in {<<"Send">>, <<"Send", "Deliver">>}
SendAsleep == ready \in {<<>>, <<"Deliver">>}
DeliverReady == ready \in {<<"Deliver">>, <<"Send", "Deliver">>} /\ awaiting = {}
DeliverWaits ==
  /\ ready \in {<<>>, <<"Send">>} /\ awaiting = {Waiter}
  /\ dequeued = 0 /\ postponed["Period1"] = 0

PeriodRuns == \E p \in 0 .. P : In(alarm, "Period1", p)

\* Until the task first sleeps the thread has not run.
Unstarted ==
  /\ ready = <<"Send", "Deliver">> /\ alarm = <<>> /\ awaiting = {}
  /\ dequeued = -1 /\ delivered = 1 /\ burst = 0
  /\ postponed["Period1"] = 0 /\ Late = 0

\* The phases of the thread in the first pause, when e ticks have passed: how many steps
\* it has taken, and, if it has missed no end of its first period, when that comes.
FirstEnds(e) ==
  \E p \in 0 .. P : In(alarm, "Period1", p) /\ (postponed["Period1"] = 0 => e + p <= S + P)
Begins(e) ==
  /\ ready = <<"Deliver">> /\ awaiting = {} /\ ~IsSet("Period1") /\ postponed["Period1"] = 0
  /\ dequeued = -1 /\ delivered = 1 /\ e <= Late
FirstThree(e) ==
  /\ ready = <<"Deliver">> /\ awaiting = {} /\ FirstEnds(e)
  /\ dequeued >= 0 /\ delivered = dequeued + 1
  /\ \/ dequeued = 0 /\ e <= S + Late
     \/ dequeued = 1 /\ e <= 2 * S + Late
     \/ dequeued = 2 /\ e <= 3 * S + Late
     \/ dequeued = 3 /\ e <= 4 * S + Late
ThreeTaken(e) ==
  /\ ready = <<"Deliver">> /\ awaiting = {} /\ FirstEnds(e)
  /\ dequeued = -1 /\ delivered = 4 /\ e <= 5 * S + Late
ThreeRests(e) ==
  /\ ready = <<>> /\ awaiting = {Waiter} /\ FirstEnds(e) /\ postponed["Period1"] = 0
  /\ dequeued = 0 /\ delivered = 4
Fourth(e) ==
  /\ ready = <<"Deliver">> /\ awaiting = {} /\ PeriodRuns
  /\ dequeued = 0 /\ delivered = 4
  /\ e <= 6 * S + Late \/ e <= S + P + Late
Phases(e) == Begins(e) \/ FirstThree(e) \/ ThreeTaken(e) \/ ThreeRests(e) \/ Fourth(e)
Pausing ==
  /\ burst = 1 /\ i = 1
  /\ \E a \in 0 .. 5 * P : In(alarm, "Send", a) /\ Phases(5 * P - a)

\* Once four messages are delivered the times do not matter.
Underway ==
  /\ burst \in 1 .. 2
  /\ burst = 2 => i = 1
  /\ delivered >= 5 /\ PeriodRuns
  /\ \/ SendReady /\ ~IsSet("Send")
     \/ SendAsleep /\ \E a \in 0 .. 5 * P : In(alarm, "Send", a)
  /\ DeliverReady \/ DeliverWaits

NoFailure == outcome # "assertion failed"

InTime ==
  /\ AlarmsOK(RegulatorAlarms)
  /\ postponed \in [Periods -> 0 .. MostPostponed]
  /\ spent \in [{"Send", "Deliver"} -> Nat] /\ Late <= S
  /\ NoFailure
  /\ Unstarted \/ Pausing \/ Underway

\* The inductive invariant; in the other programs nothing of this changes.
RunningInv == Counts /\ OutcomeOK /\ (RegulatorPrompt => InTime)
RegulatorInv == IF program = "regulator" THEN RunningInv ELSE RegulatorIdle

-----------------------------------------------------------------------------
LEMMA CountsConserve == Counts /\ OutcomeOK => Conserved /\ RegulatorTypeOK
  <1> SUFFICES ASSUME Counts, OutcomeOK PROVE Conserved /\ RegulatorTypeOK
    OBVIOUS
  <1>1. Conserved
    BY DEF Counts, Conserved, maximum_messages
  <1>2. outcome \in {"no", "end", "assertion failed"}
    BY DEF OutcomeOK
  <1>3. buffers \in 0 .. maximum_messages /\ waiting \in 0 .. maximum_messages
    <2>1. CASE sending
      BY <2>1 DEF Counts, maximum_messages
    <2>2. CASE ~sending
      BY <2>2 DEF Counts, maximum_messages
    <2>3. QED
      BY <2>1, <2>2
  <1>4. /\ sending \in BOOLEAN
        /\ dequeued \in -1 .. maximum_to_dequeue_per_period
        /\ burst \in 0 .. Bursts /\ i \in 1 .. BurstSize + 1
    BY DEF Counts, maximum_to_dequeue_per_period, Bursts, BurstSize
  <1>5. QED
    BY <1>1, <1>2, <1>3, <1>4, Zenon DEF RegulatorTypeOK

LEMMA IdleConserves == RegulatorIdle => BuffersSuffice /\ RegulatorTypeOK
  <1> SUFFICES ASSUME RegulatorIdle PROVE BuffersSuffice /\ RegulatorTypeOK
    OBVIOUS
  <1>1. Conserved
    BY DEF RegulatorIdle, maximum_messages, Conserved
  <1>2. outcome = "no"
    BY DEF RegulatorIdle
  <1>3. buffers \in 0 .. maximum_messages /\ waiting \in 0 .. maximum_messages
    BY DEF RegulatorIdle, maximum_messages
  <1>4. /\ dequeued \in -1 .. maximum_to_dequeue_per_period
        /\ burst \in 0 .. Bursts /\ i \in 1 .. BurstSize + 1
    BY DEF RegulatorIdle, maximum_to_dequeue_per_period, Bursts, BurstSize
  <1>5. sending \in BOOLEAN
    BY Zenon DEF RegulatorIdle
  <1>6. outcome # "assertion failed"
    BY <1>2, Zenon
  <1>7. QED
    BY <1>1, <1>2, <1>3, <1>4, <1>5, <1>6, Zenon DEF BuffersSuffice, RegulatorTypeOK

LEMMA RegulatorInvSuffices ==
  RegulatorInv => Conserved /\ (RegulatorPrompt => BuffersSuffice) /\ RegulatorTypeOK
  BY CountsConserve, IdleConserves DEF RegulatorInv, RunningInv, InTime, BuffersSuffice, NoFailure

(* The counts, which no time changes.                                      *)

LEMMA KeepsCounts ==
  ASSUME Counts, RegulatorNext PROVE Counts'
  <1>1. CASE obtain_buffer
    <2>1. /\ burst < 2 /\ i <= 7 /\ ~sending
          /\ UNCHANGED <<waiting, delivered, dequeued, msg, burst, i>>
      BY <1>1 DEF obtain_buffer, Bursts, BurstSize
    <2>2. CASE buffers = 0
      <3>1. UNCHANGED <<buffers, sending>>
        BY <1>1, <2>2, Zenon DEF obtain_buffer
      <3>2. QED
        BY <2>1, <3>1, Zenon DEF Counts
    <2>3. CASE buffers # 0
      <3>1. buffers' = buffers - 1 /\ sending' = TRUE
        BY <1>1, <2>3, Zenon DEF obtain_buffer
      <3>2. sending' \in BOOLEAN /\ sending'
        BY <3>1, Zenon
      <3>3. QED
        BY <2>1, <2>3, <3>1, <3>2 DEF Counts
    <2>4. QED
      BY <2>2, <2>3
  <1>2. CASE send
    <2>1. /\ sending' = FALSE /\ waiting' = waiting + 1 /\ i' = i + 1 /\ msg' = msg + 1 /\ sending
          /\ UNCHANGED <<buffers, delivered, dequeued, burst>>
      BY <1>2, Zenon DEF send
    <2>2. sending' \in BOOLEAN /\ ~sending'
      BY <2>1, Zenon
    <2>3. QED
      BY <2>1, <2>2 DEF Counts
  <1>3. CASE Pause
    <2>1. /\ burst < 2 /\ i > 7 /\ burst' = burst + 1 /\ i' = 1
          /\ UNCHANGED <<buffers, sending, waiting, delivered, dequeued, msg>>
      BY <1>3 DEF Pause, stock, Bursts, BurstSize
    <2>2. ~sending
      BY <2>1 DEF Counts
    <2>3. QED
      BY <2>1, <2>2 DEF Counts
  <1>4. CASE Statistics
    <2>1. UNCHANGED <<buffers, sending, waiting, delivered, dequeued, msg, burst, i>>
      BY <1>4, Zenon DEF Statistics, stock
    <2>2. QED
      BY <2>1, Zenon DEF Counts
  <1>5. CASE AwaitPeriod
    BY <1>5 DEF AwaitPeriod, Counts, sender
  <1>6. CASE example_deliverer
    BY <1>6 DEF example_deliverer, Counts, sender, maximum_to_dequeue_per_period
  <1>7. CASE DequeuedEnough
    BY <1>7 DEF DequeuedEnough, Counts, sender
  <1>8. CASE RegulatorClock
    BY <1>8 DEF RegulatorClock, Counts, stock, sender
  <1>9. QED
    BY <1>1, <1>2, <1>3, <1>4, <1>5, <1>6, <1>7, <1>8 DEF RegulatorNext

LEMMA KeepsOutcome ==
  ASSUME OutcomeOK, RegulatorNext PROVE OutcomeOK'
  <1>1. CASE obtain_buffer
    BY <1>1, Zenon DEF obtain_buffer, OutcomeOK
  <1>2. CASE Statistics
    BY <1>2, Zenon DEF Statistics, OutcomeOK
  <1>3. CASE outcome' = outcome
    BY <1>3, Zenon DEF OutcomeOK
  <1>4. QED
    BY <1>1, <1>2, <1>3 DEF RegulatorNext, send, Pause, AwaitPeriod, example_deliverer,
      DequeuedEnough, RegulatorClock, sender

LEMMA RegulatorStarts == RegulatorBoot /\ RegulatorIdle => RunningInv
  <1> SUFFICES ASSUME RegulatorBoot, RegulatorIdle PROVE RunningInv
    OBVIOUS
  <1>1. /\ ready = <<"Send", "Deliver">> /\ alarm = <<>> /\ awaiting = {}
        /\ postponed = [p \in Periods |-> 0]
        /\ spent = [t \in {"Send", "Deliver"} |-> 0]
    <2>1. Range(<<"Send", "Deliver">>) = {"Send", "Deliver"}
      BY DEF Range
    <2>2. QED
      BY <2>1 DEF RegulatorBoot, Boot
  <1>2. /\ burst = 0 /\ i = 1 /\ buffers = 10 /\ waiting = 0 /\ delivered = 1
        /\ dequeued = -1 /\ msg = 0
    BY DEF RegulatorIdle, maximum_messages
  <1>3. sending \in BOOLEAN /\ ~sending /\ OutcomeOK
    BY Zenon DEF RegulatorIdle, OutcomeOK
  <1>4. Counts
    BY <1>2, <1>3 DEF Counts
  <1>5. ASSUME RegulatorPrompt PROVE InTime
    <2>1. AlarmsOK(RegulatorAlarms)
      BY <1>1 DEF AlarmsOK, Distinct
    <2>2. postponed \in [Periods -> 0 .. MostPostponed] /\ postponed["Period1"] = 0
      BY <1>1 DEF Periods, MostPostponed
    <2>3. spent \in [{"Send", "Deliver"} -> Nat] /\ Late = 0 /\ Late <= S
      BY <1>1, <1>5 DEF Late, S, RegulatorPrompt
    <2>4. NoFailure
      BY Zenon DEF RegulatorIdle, NoFailure
    <2>5. Unstarted
      BY <1>1, <1>2, <2>2, <2>3 DEF Unstarted
    <2>6. QED
      BY <2>1, <2>2, <2>3, <2>4, <2>5 DEF InTime
  <1>6. QED
    BY <1>3, <1>4, <1>5 DEF RunningInv

-----------------------------------------------------------------------------
(* The times.                                                              *)

LEMMA PromptTimes ==
  ASSUME RegulatorPrompt PROVE S \in Nat /\ P \in Nat \ {0} /\ 7 * S < 5 * P
  BY RegulatorAssumption DEF RegulatorPrompt, S, P, PauseSeconds

\* The lines of the two threads, as tuples.
LEMMA LineFacts ==
  /\ Head(<<"Send">>) = "Send" /\ Head(<<"Deliver">>) = "Deliver"
  /\ Head(<<"Send", "Deliver">>) = "Send"
  /\ Tail(<<"Send">>) = <<>> /\ Tail(<<"Deliver">>) = <<>>
  /\ Tail(<<"Send", "Deliver">>) = <<"Deliver">>
  /\ Append(<<>>, "Deliver") = <<"Deliver">>
  /\ Append(<<"Send">>, "Deliver") = <<"Send", "Deliver">>
  /\ <<"Send">> \o <<>> = <<"Send">> /\ <<"Send">> \o <<"Deliver">> = <<"Send", "Deliver">>
  /\ <<>> # <<"Send">> /\ <<>> # <<"Deliver">> /\ <<>> # <<"Send", "Deliver">>
  /\ <<"Send">> # <<"Deliver">> /\ <<"Send">> # <<"Send", "Deliver">>
  /\ <<"Deliver">> # <<"Send", "Deliver">> /\ "Send" # "Deliver"
  <1>1. "Send" # "Deliver"
    OBVIOUS
  <1>2. /\ Head(<<"Send">>) = "Send" /\ Head(<<"Deliver">>) = "Deliver"
        /\ Head(<<"Send", "Deliver">>) = "Send"
        /\ Tail(<<"Send">>) = <<>> /\ Tail(<<"Deliver">>) = <<>>
        /\ Tail(<<"Send", "Deliver">>) = <<"Deliver">>
        /\ Append(<<>>, "Deliver") = <<"Deliver">>
        /\ Append(<<"Send">>, "Deliver") = <<"Send", "Deliver">>
        /\ <<>> # <<"Send">> /\ <<>> # <<"Deliver">> /\ <<>> # <<"Send", "Deliver">>
        /\ <<"Send">> # <<"Deliver">> /\ <<"Send">> # <<"Send", "Deliver">>
        /\ <<"Deliver">> # <<"Send", "Deliver">>
    BY <1>1, ShortLines
  <1>3. <<"Send">> \o <<>> = <<"Send">>
    OBVIOUS
  <1>4. <<"Send">> \o <<"Deliver">> = <<"Send", "Deliver">>
    <2>1. <<"Send">> \in Seq({"Send", "Deliver"}) /\ "Deliver" \in {"Send", "Deliver"}
      OBVIOUS
    <2>2. Append(<<"Send">>, "Deliver") = <<"Send">> \o <<"Deliver">>
      BY <2>1, AppendIsConcat, Zenon
    <2>3. QED
      BY <1>2, <2>2, Zenon
  <1>5. QED
    BY <1>1, <1>2, <1>3, <1>4

LEMMA OutranksHere ==
  ASSUME program = "regulator" PROVE Outranks("Send") /\ ~Outranks("Deliver")
  BY DEF Outranks

\* A step of a thread takes no longer than assumed; it starts again with the next step.
LEMMA SpentStep ==
  ASSUME InTime, RegulatorPrompt, NEW t \in {"Send", "Deliver"}, Stepped(t)
  PROVE  /\ spent' \in [{"Send", "Deliver"} -> Nat] /\ Late \in Nat /\ Late' \in Nat /\ Late' <= S
         /\ t = "Deliver" => Late' = 0
         /\ t = "Send" => Late' = Late
  BY PromptTimes DEF InTime, Stepped, Late

LEMMA TheSender ==
  ASSUME InTime, Sending
  PROVE  /\ Quiet /\ SendReady
         /\ Unstarted \/ (Underway /\ ~IsSet("Send"))
  BY LineFacts DEF InTime, Sending, Runs, Unstarted, Pausing, Phases, Begins, FirstThree,
    ThreeTaken, ThreeRests, Fourth, Underway, SendReady, SendAsleep

\* What a step that leaves the threads and the alarms alone keeps.
LEMMA Undisturbed ==
  ASSUME InTime, UNCHANGED <<ready, alarm, period>>
  PROVE  /\ AlarmsOK(RegulatorAlarms)' /\ postponed' \in [Periods -> 0 .. MostPostponed]
         /\ postponed' = postponed /\ awaiting' = awaiting
         /\ \A x : IsSet(x)' <=> IsSet(x)
         /\ PeriodRuns' <=> PeriodRuns
         /\ SendReady' <=> SendReady
         /\ SendAsleep' <=> SendAsleep
         /\ DeliverReady' <=> DeliverReady
         /\ dequeued' = dequeued => (DeliverWaits' <=> DeliverWaits)
  BY DEF InTime, AlarmsOK, IsSet, PeriodRuns, SendReady, SendAsleep, DeliverReady, DeliverWaits, period

\* A step of the task that does not block it.
LEMMA SendGoes ==
  ASSUME InTime, RegulatorPrompt, Sending, Goes("Send"), alarm' = alarm,
         UNCHANGED <<delivered, dequeued, burst>>, burst = 2 => i' = i, NoFailure'
  PROVE  InTime'
  <1>1. /\ Quiet /\ SendReady
        /\ Unstarted \/ (Underway /\ ~IsSet("Send"))
    BY TheSender
  <1>2. UNCHANGED <<ready, alarm, period>>
    BY DEF Goes
  <1>3. /\ spent' \in [{"Send", "Deliver"} -> Nat] /\ Late' <= S /\ Late' = Late
    BY SpentStep DEF Goes
  <1>4. CASE Unstarted
    <2>1. Unstarted'
      BY <1>2, <1>3, <1>4, Undisturbed DEF Unstarted
    <2>2. QED
      BY <1>2, <1>3, <2>1, Undisturbed DEF InTime
  <1>5. CASE Underway /\ ~IsSet("Send")
    <2>1. Underway'
      BY <1>1, <1>2, <1>5, Undisturbed DEF Underway
    <2>2. QED
      BY <1>2, <1>3, <2>1, Undisturbed DEF InTime
  <1>6. QED
    BY <1>1, <1>4, <1>5

LEMMA KeepsObtain ==
  ASSUME Counts, InTime, RegulatorPrompt, obtain_buffer PROVE InTime'
  <1>1. Sending /\ Goes("Send") /\ alarm' = alarm /\ UNCHANGED <<delivered, dequeued, burst, i>>
    BY DEF obtain_buffer
  <1>2. burst < 2 /\ i <= 7 /\ ~sending
    BY DEF obtain_buffer, Bursts, BurstSize
  <1>3. buffers # 0
    <2>1. buffers + waiting = 10
      BY <1>2 DEF Counts
    <2>2. CASE Unstarted
      BY <1>2, <2>1, <2>2 DEF Unstarted, Counts
    <2>3. CASE Underway
      BY <1>2, <2>1, <2>3 DEF Underway, Counts
    <2>4. QED
      BY <1>1, <2>2, <2>3, TheSender
  <1>4. NoFailure'
    BY <1>3, Zenon DEF obtain_buffer, NoFailure, InTime
  <1>5. QED
    BY <1>1, <1>4, SendGoes

LEMMA KeepsSend ==
  ASSUME Counts, InTime, RegulatorPrompt, send PROVE InTime'
  <1>1. /\ Sending /\ Goes("Send") /\ alarm' = alarm /\ UNCHANGED <<delivered, dequeued, burst>>
        /\ sending
    BY DEF send
  <1>2. burst < 2
    BY <1>1 DEF Counts
  <1>3. NoFailure'
    BY Zenon DEF send, NoFailure, InTime
  <1>4. burst = 2 => i' = i
    BY <1>2
  <1>5. QED
    BY <1>1, <1>3, <1>4, SendGoes

LEMMA KeepsStatistics ==
  ASSUME Counts, InTime, RegulatorPrompt, Statistics PROVE InTime'
  <1>1. Sending /\ Goes("Send") /\ alarm' = alarm /\ UNCHANGED <<delivered, dequeued, burst, i>>
    BY DEF Statistics, stock
  <1>2. NoFailure'
    BY Zenon DEF Statistics, NoFailure
  <1>3. QED
    BY <1>1, <1>2, SendGoes

\* When the task first goes to sleep the thread begins.
LEMMA KeepsPause ==
  ASSUME Counts, InTime, RegulatorPrompt, Pause PROVE InTime'
  <1>1. /\ Quiet /\ SendReady
        /\ Unstarted \/ (Underway /\ ~IsSet("Send"))
    BY TheSender DEF Pause
  <1>2. /\ burst < 2 /\ burst' = burst + 1 /\ i' = 1 /\ ready' = Tail(ready)
        /\ Set("Send", 5 * P) /\ Stepped("Send")
        /\ UNCHANGED <<postponed, awaiting, delivered, dequeued>>
    BY DEF Pause, Sleeps, Blocks, stock, PauseSeconds, Bursts, P, period
  <1>3. /\ spent' \in [{"Send", "Deliver"} -> Nat] /\ Late' <= S /\ Late' = Late
        /\ Late \in Nat
    BY <1>2, SpentStep
  <1>4. NoFailure'
    BY Zenon DEF Pause, NoFailure, InTime
  <1>5. S \in Nat /\ P \in Nat \ {0} /\ 5 * P \in Nat /\ 5 * P \in 0 .. 5 * P
    BY PromptTimes
  <1>6. ~IsSet("Send")
    BY <1>1 DEF Unstarted, IsSet
  <1>7. /\ AlarmsOK(RegulatorAlarms)'
        /\ \A y, l : In(alarm', y, l) <=> In(alarm, y, l) \/ (y = "Send" /\ l = 5 * P)
    BY <1>1, <1>2, <1>5, <1>6, SetAlarm DEF InTime, RegulatorAlarms
  <1>8. In(alarm', "Send", 5 * P)
    BY <1>7
  <1>9. CASE Unstarted
    <2>1. ready' = <<"Deliver">>
      BY <1>2, <1>9, LineFacts DEF Unstarted
    <2>2. \A y, l : ~In(alarm, y, l)
      BY <1>9 DEF Unstarted, In
    <2>3. ~IsSet("Period1")'
      BY <1>7, <2>2, SetIsInNext
    <2>4. Begins(0)'
      BY <1>2, <1>3, <1>9, <2>1, <2>3 DEF Unstarted, Begins
    <2>5. 5 * P - 5 * P = 0
      BY <1>5
    <2>6. burst' = 1
      BY <1>2, <1>9 DEF Unstarted
    <2>7. Pausing'
      BY <1>2, <1>5, <1>8, <2>4, <2>5, <2>6 DEF Pausing, Phases
    <2>8. QED
      BY <1>2, <1>3, <1>4, <1>7, <2>7 DEF InTime
  <1>10. CASE Underway
    <2>1. PeriodRuns'
      BY <1>7, <1>10 DEF PeriodRuns, Underway
    <2>2. SendAsleep' /\ (DeliverReady' \/ DeliverWaits')
      BY <1>1, <1>2, <1>10, LineFacts DEF Underway, SendReady, SendAsleep, DeliverReady, DeliverWaits
    <2>3. burst' = 2
      BY <1>2, <1>10 DEF Underway
    <2>4. Underway'
      BY <1>2, <1>5, <1>8, <1>10, <2>1, <2>2, <2>3 DEF Underway
    <2>5. QED
      BY <1>2, <1>3, <1>4, <1>7, <2>4 DEF InTime
  <1>11. QED
    BY <1>1, <1>9, <1>10

-----------------------------------------------------------------------------
(* The steps of the delivery thread: the task sleeps.                       *)

LEMMA TheDeliverer ==
  ASSUME InTime, Delivering
  PROVE  /\ Quiet /\ ready = <<"Deliver">>
         /\ Pausing \/ Underway
  BY LineFacts DEF InTime, Delivering, Runs, Unstarted, Pausing, Phases, Begins, FirstThree,
    ThreeTaken, ThreeRests, Fourth, Underway, SendReady, SendAsleep

LEMMA PausePicked ==
  ASSUME Counts, InTime, RegulatorPrompt, Pausing
  PROVE  \E a \in 0 .. 5 * P :
           /\ In(alarm, "Send", a) /\ Phases(5 * P - a) /\ 5 * P - a \in Nat
           /\ waiting = 8 - delivered
  BY PromptTimes DEF Pausing, Counts

\* A step of the thread that goes on: what remains is to find its phase.
LEMMA DeliverGoes ==
  ASSUME InTime, RegulatorPrompt, Goes("Deliver"), alarm' = alarm, sender' = sender,
         Pausing' \/ Underway'
  PROVE  InTime'
  <1>1. UNCHANGED <<ready, alarm, period>>
    BY DEF Goes
  <1>2. /\ spent' \in [{"Send", "Deliver"} -> Nat] /\ Late' <= S
    BY SpentStep DEF Goes
  <1>3. NoFailure'
    BY DEF sender, NoFailure, InTime
  <1>4. QED
    BY <1>1, <1>2, <1>3, Undisturbed DEF InTime

LEMMA FirstEndsStays ==
  ASSUME NEW e, FirstEnds(e), alarm' = alarm, postponed' = postponed PROVE FirstEnds(e)'
  BY DEF FirstEnds

LEMMA KeepsDeliverer ==
  ASSUME Counts, InTime, RegulatorPrompt, example_deliverer PROVE InTime'
  <1>1. /\ ready = <<"Deliver">>
        /\ Pausing \/ Underway
    BY TheDeliverer DEF example_deliverer
  <1>2. /\ dequeued \in 0 .. 2 /\ waiting > 0 /\ delivered' = delivered + 1
        /\ dequeued' = dequeued + 1 /\ Goes("Deliver") /\ alarm' = alarm /\ sender' = sender
        /\ burst' = burst /\ i' = i
        /\ UNCHANGED <<ready, alarm, period>> /\ postponed' = postponed /\ awaiting' = awaiting
    BY DEF example_deliverer, maximum_to_dequeue_per_period, Goes, sender, period
  <1>3. /\ Late \in Nat /\ Late <= S /\ Late' = 0
    BY <1>2, SpentStep DEF Goes, InTime
  <1>4. S \in Nat /\ P \in Nat \ {0}
    BY PromptTimes
  <1>5. CASE Pausing
    <2>1. PICK a \in 0 .. 5 * P : In(alarm, "Send", a) /\ Phases(5 * P - a) /\ 5 * P - a \in Nat
      BY <1>5, PausePicked
    <2> DEFINE e == 5 * P - a
    <2>2. e \in Nat /\ Phases(e) /\ burst' = 1 /\ i' = 1 /\ In(alarm', "Send", a)
      BY <1>2, <1>5, <2>1 DEF Pausing
    <2> HIDE DEF e
    <2>3. CASE FirstThree(e)
      <3>1. /\ ready = <<"Deliver">> /\ awaiting = {} /\ delivered = dequeued + 1
            /\ FirstEnds(e)
        BY <2>3 DEF FirstThree
      <3>2. \/ dequeued = 0 /\ e <= S + Late
            \/ dequeued = 1 /\ e <= 2 * S + Late
            \/ dequeued = 2 /\ e <= 3 * S + Late
        BY <1>2, <2>3 DEF FirstThree
      <3>3. \/ dequeued' = 1 /\ e <= 2 * S + Late'
            \/ dequeued' = 2 /\ e <= 3 * S + Late'
            \/ dequeued' = 3 /\ e <= 4 * S + Late'
        BY <1>2, <1>3, <1>4, <2>2, <3>2
      <3>4. ready' = <<"Deliver">> /\ awaiting' = {} /\ delivered' = dequeued' + 1 /\ dequeued' >= 0
        BY <1>2, <3>1
      <3>5. FirstEnds(e)'
        BY <1>2, <3>1, FirstEndsStays DEF FirstEnds
      <3>6. FirstThree(e)'
        BY <3>3, <3>4, <3>5 DEF FirstThree
      <3>7. Pausing'
        BY <2>2, <3>6 DEF Pausing, Phases, e
      <3>8. QED
        BY <1>2, <3>7, DeliverGoes
    <2>4. CASE Fourth(e)
      <3>1. PeriodRuns /\ delivered' = 5 /\ awaiting = {}
        BY <1>2, <2>4 DEF Fourth
      <3>2. PeriodRuns' /\ SendAsleep' /\ DeliverReady'
        BY <1>1, <1>2, <3>1 DEF PeriodRuns, SendAsleep, DeliverReady
      <3>3. \E b \in 0 .. 5 * P : In(alarm', "Send", b)
        BY <2>2
      <3>4. Underway'
        BY <2>2, <3>1, <3>2, <3>3 DEF Underway
      <3>5. QED
        BY <1>2, <3>4, DeliverGoes
    <2>5. QED
      BY <1>1, <1>2, <2>2, <2>3, <2>4, LineFacts DEF Phases, Begins, ThreeTaken, ThreeRests
  <1>6. CASE Underway
    <2>1. /\ SendAsleep' /\ DeliverReady' /\ PeriodRuns'
          /\ \E b \in 0 .. 5 * P : In(alarm', "Send", b)
      BY <1>1, <1>2, <1>6, LineFacts DEF Underway, SendAsleep, SendReady, DeliverReady,
        DeliverWaits, PeriodRuns
    <2>2. Underway'
      BY <1>2, <1>6, <2>1 DEF Underway, Counts
    <2>3. QED
      BY <1>2, <2>2, DeliverGoes
  <1>7. QED
    BY <1>1, <1>5, <1>6

\* The queue is not empty before the fourth message.
LEMMA KeepsDequeued ==
  ASSUME Counts, InTime, RegulatorPrompt, DequeuedEnough PROVE InTime'
  <1>1. /\ ready = <<"Deliver">>
        /\ Pausing \/ Underway
    BY TheDeliverer DEF DequeuedEnough
  <1>2. /\ dequeued = 3 \/ (dequeued >= 0 /\ waiting = 0)
        /\ dequeued' = -1 /\ delivered' = delivered
        /\ Goes("Deliver") /\ alarm' = alarm /\ sender' = sender
        /\ burst' = burst /\ i' = i
        /\ UNCHANGED <<ready, alarm, period>> /\ postponed' = postponed /\ awaiting' = awaiting
    BY DEF DequeuedEnough, maximum_to_dequeue_per_period, Goes, sender, period
  <1>3. /\ Late \in Nat /\ Late <= S /\ Late' = 0
    BY <1>2, SpentStep DEF Goes, InTime
  <1>4. S \in Nat /\ P \in Nat \ {0} /\ dequeued \in -1 .. 3 /\ delivered \in Nat
    BY PromptTimes DEF Counts
  <1>5. CASE Pausing
    <2>1. PICK a \in 0 .. 5 * P : /\ In(alarm, "Send", a) /\ Phases(5 * P - a) /\ 5 * P - a \in Nat
                                  /\ waiting = 8 - delivered
      BY <1>5, PausePicked
    <2> DEFINE e == 5 * P - a
    <2>2. e \in Nat /\ Phases(e) /\ burst' = 1 /\ i' = 1 /\ In(alarm', "Send", a)
      BY <1>2, <1>5, <2>1 DEF Pausing
    <2> HIDE DEF e
    <2>3. FirstThree(e) /\ dequeued = 3
      <3>1. ~Begins(e) /\ ~ThreeTaken(e)
        BY <1>2 DEF Begins, ThreeTaken
      <3>2. ~ThreeRests(e)
        BY <1>1, LineFacts DEF ThreeRests
      <3>3. ~Fourth(e)
        BY <1>2, <2>1 DEF Fourth
      <3>4. FirstThree(e)
        BY <2>2, <3>1, <3>2, <3>3 DEF Phases
      <3>5. delivered = dequeued + 1
        BY <3>4 DEF FirstThree
      <3>6. QED
        BY <1>2, <1>4, <2>1, <3>4, <3>5
    <2>4. /\ awaiting = {} /\ delivered = 4 /\ FirstEnds(e)
          /\ e <= 4 * S + Late
      BY <2>3 DEF FirstThree
    <2>5. FirstEnds(e)'
      BY <1>2, <2>4, FirstEndsStays
    <2>6. e <= 5 * S + Late'
      BY <1>3, <1>4, <2>2, <2>4
    <2>7. ThreeTaken(e)'
      BY <1>1, <1>2, <2>4, <2>5, <2>6 DEF ThreeTaken
    <2>8. Pausing'
      BY <2>2, <2>7 DEF Pausing, Phases, e
    <2>9. QED
      BY <1>2, <2>8, DeliverGoes
  <1>6. CASE Underway
    <2>1. /\ SendAsleep' /\ DeliverReady' /\ PeriodRuns'
          /\ \E b \in 0 .. 5 * P : In(alarm', "Send", b)
      BY <1>1, <1>2, <1>6, LineFacts DEF Underway, SendAsleep, SendReady, DeliverReady,
        DeliverWaits, PeriodRuns
    <2>2. Underway'
      BY <1>2, <1>6, <2>1 DEF Underway
    <2>3. QED
      BY <1>2, <2>2, DeliverGoes
  <1>7. QED
    BY <1>1, <1>5, <1>6

\* The thread starts its period, or has missed an end of it, or waits for the end.
LEMMA KeepsAwait ==
  ASSUME Counts, InTime, RegulatorPrompt, AwaitPeriod PROVE InTime'
  <1>1. /\ Quiet /\ ready = <<"Deliver">>
        /\ Pausing \/ Underway
    BY TheDeliverer DEF AwaitPeriod
  <1>2. /\ dequeued = -1 /\ dequeued' = 0 /\ Stepped("Deliver")
        /\ delivered' = delivered /\ burst' = burst /\ i' = i /\ sender' = sender
    BY DEF AwaitPeriod, CallPeriod, sender
  <1>3. /\ Late \in Nat /\ Late <= S /\ Late' = 0
        /\ spent' \in [{"Send", "Deliver"} -> Nat] /\ Late' <= S
    BY <1>2, SpentStep DEF InTime
  <1>4. S \in Nat /\ P \in Nat \ {0} /\ delivered \in Nat
    BY PromptTimes DEF Counts
  <1>5. NoFailure'
    BY <1>2 DEF sender, NoFailure, InTime
  <1>6. postponed \in [Periods -> 0 .. 2] /\ postponed["Period1"] \in 0 .. 2
    BY DEF InTime, MostPostponed, Periods
  <1>7. CASE ~IsSet("Period1") /\ Set("Period1", P) /\ UNCHANGED <<ready, period>>
    <2>1. ~PeriodRuns
      BY <1>7, SetIsIn DEF InTime, PeriodRuns
    <2>2. Pausing
      BY <1>1, <2>1 DEF Underway
    <2>3. PICK a \in 0 .. 5 * P : In(alarm, "Send", a) /\ Phases(5 * P - a) /\ 5 * P - a \in Nat
      BY <2>2, PausePicked
    <2> DEFINE e == 5 * P - a
    <2>4. e \in Nat /\ Phases(e) /\ burst' = 1 /\ i' = 1
      BY <1>2, <2>2, <2>3 DEF Pausing
    <2> HIDE DEF e
    <2>5. FirstEnds(e) => PeriodRuns
      BY DEF FirstEnds, PeriodRuns
    <2>6. Begins(e)
      BY <2>1, <2>4, <2>5 DEF Phases, FirstThree, ThreeTaken, ThreeRests, Fourth
    <2>7. /\ AlarmsOK(RegulatorAlarms)'
          /\ \A y, l : In(alarm', y, l) <=> In(alarm, y, l) \/ (y = "Period1" /\ l = P)
      BY <1>1, <1>4, <1>7, SetAlarm DEF InTime, RegulatorAlarms
    <2>8. In(alarm', "Period1", P) /\ In(alarm', "Send", a) /\ P \in 0 .. P
      BY <1>4, <2>3, <2>7
    <2>9. e <= S /\ e + P <= S + P
      BY <1>3, <1>4, <2>4, <2>6 DEF Begins
    <2>10. FirstEnds(e)'
      BY <2>8, <2>9 DEF FirstEnds
    <2>11. ready' = <<"Deliver">> /\ awaiting' = {} /\ delivered' = 1 /\ postponed' = postponed
      BY <1>2, <1>7, <2>6 DEF Begins, period
    <2>12. e <= S + Late'
      BY <1>3, <1>4, <2>4, <2>9
    <2>13. FirstThree(e)'
      BY <1>2, <2>10, <2>11, <2>12 DEF FirstThree
    <2>14. Pausing'
      BY <2>4, <2>8, <2>13 DEF Pausing, Phases, e
    <2>15. QED
      BY <1>3, <1>5, <1>6, <2>7, <2>11, <2>14 DEF InTime, MostPostponed
  <1>8. CASE /\ IsSet("Period1") /\ Missed("Period1")
             /\ postponed' = [postponed EXCEPT !["Period1"] = @ - 1]
             /\ UNCHANGED <<ready, alarm, awaiting>>
    <2>1. postponed' \in [Periods -> 0 .. 2] /\ AlarmsOK(RegulatorAlarms)'
      BY <1>6, <1>8 DEF Missed, Periods, InTime, AlarmsOK
    <2>2. CASE Pausing
      <3>1. PICK a \in 0 .. 5 * P : In(alarm, "Send", a) /\ Phases(5 * P - a) /\ 5 * P - a \in Nat
        BY <2>2, PausePicked
      <3> DEFINE e == 5 * P - a
      <3>2. /\ e \in Nat /\ Phases(e) /\ burst' = 1 /\ i' = 1 /\ In(alarm', "Send", a)
        BY <1>2, <1>8, <2>2, <3>1 DEF Pausing
      <3> HIDE DEF e
      <3>3. ThreeTaken(e)
        BY <1>1, <1>2, <1>8, <3>2, LineFacts DEF Phases, Begins, FirstThree, ThreeRests, Fourth
      <3>4. e <= 6 * S + Late'
        BY <1>3, <1>4, <3>2, <3>3 DEF ThreeTaken
      <3>5. ready' = <<"Deliver">> /\ awaiting' = {} /\ delivered' = 4 /\ PeriodRuns'
        BY <1>1, <1>2, <1>8, <3>3 DEF ThreeTaken, FirstEnds, PeriodRuns
      <3>6. Fourth(e)'
        BY <1>2, <3>4, <3>5 DEF Fourth
      <3>7. Pausing'
        BY <3>2, <3>6 DEF Pausing, Phases, e
      <3>8. QED
        BY <1>3, <1>5, <2>1, <3>7 DEF InTime, MostPostponed
    <2>3. CASE Underway
      <3>1. /\ SendAsleep' /\ DeliverReady' /\ PeriodRuns'
            /\ \E b \in 0 .. 5 * P : In(alarm', "Send", b)
        BY <1>1, <1>8, <2>3, LineFacts DEF Underway, SendAsleep, SendReady, DeliverReady,
          DeliverWaits, PeriodRuns
      <3>2. Underway'
        BY <1>2, <2>3, <3>1 DEF Underway
      <3>3. QED
        BY <1>3, <1>5, <2>1, <3>2 DEF InTime, MostPostponed
    <2>4. QED
      BY <1>1, <2>2, <2>3
  <1>9. CASE /\ IsSet("Period1") /\ ~Missed("Period1")
             /\ awaiting' = awaiting \cup {Waiter} /\ ready' = Tail(ready)
             /\ UNCHANGED <<alarm, postponed>>
    <2>1. postponed["Period1"] = 0 /\ ready' = <<>> /\ AlarmsOK(RegulatorAlarms)'
      BY <1>1, <1>6, <1>9, LineFacts DEF Missed, InTime, AlarmsOK
    <2>2. CASE Pausing
      <3>1. PICK a \in 0 .. 5 * P : In(alarm, "Send", a) /\ Phases(5 * P - a) /\ 5 * P - a \in Nat
        BY <2>2, PausePicked
      <3> DEFINE e == 5 * P - a
      <3>2. /\ e \in Nat /\ Phases(e) /\ burst' = 1 /\ i' = 1 /\ In(alarm', "Send", a)
        BY <1>2, <1>9, <2>2, <3>1 DEF Pausing
      <3> HIDE DEF e
      <3>3. ThreeTaken(e)
        BY <1>1, <1>2, <1>9, <3>2, LineFacts DEF Phases, Begins, FirstThree, ThreeRests, Fourth
      <3>4. awaiting' = {Waiter} /\ delivered' = 4 /\ FirstEnds(e)
        BY <1>2, <1>9, <3>3 DEF ThreeTaken
      <3>5. FirstEnds(e)'
        BY <1>9, <3>4, FirstEndsStays
      <3>6. ThreeRests(e)'
        BY <1>2, <1>9, <2>1, <3>4, <3>5 DEF ThreeRests
      <3>7. Pausing'
        BY <3>2, <3>6 DEF Pausing, Phases, e
      <3>8. QED
        BY <1>3, <1>5, <1>9, <2>1, <3>7 DEF InTime
    <2>3. CASE Underway
      <3>1. awaiting = {}
        BY <1>1, <2>3, LineFacts DEF Underway, DeliverReady, DeliverWaits
      <3>2. /\ SendAsleep' /\ DeliverWaits' /\ PeriodRuns'
            /\ \E b \in 0 .. 5 * P : In(alarm', "Send", b)
        BY <1>1, <1>2, <1>9, <2>1, <2>3, <3>1, LineFacts DEF Underway, SendAsleep, SendReady,
          DeliverWaits, PeriodRuns
      <3>3. Underway'
        BY <1>2, <2>3, <3>2 DEF Underway
      <3>4. QED
        BY <1>3, <1>5, <1>9, <2>1, <3>3 DEF InTime
    <2>4. QED
      BY <1>1, <2>2, <2>3
  <1>10. QED
    BY <1>7, <1>8, <1>9 DEF AwaitPeriod, CallPeriod, Waiter, P

-----------------------------------------------------------------------------
(* The clock.                                                              *)

\* Only what is set comes due, and with nothing left.
LEMMA DueNow ==
  ASSUME InTime, NEW x, Due(x)
  PROVE  /\ In(alarm, x, 0) /\ \A l : In(alarm, x, l) => l = 0
         /\ ~Unstarted
  <1>1. AlarmsOK(RegulatorAlarms) /\ Distinct(alarm)
    BY DEF InTime, AlarmsOK
  <1>2. In(alarm, x, 0)
    BY <1>1, UnservedIs
  <1>3. ~Unstarted
    BY <1>2 DEF Unstarted, In
  <1>4. \A l : In(alarm, x, l) => l = 0
    BY <1>1, <1>2, OneLeft
  <1>5. QED
    BY <1>2, <1>3, <1>4

\* After the five seconds four messages have been delivered.
LEMMA PauseOver ==
  ASSUME Counts, InTime, RegulatorPrompt, Due("Send") PROVE Underway
  <1>1. In(alarm, "Send", 0) /\ (\A l : In(alarm, "Send", l) => l = 0) /\ ~Unstarted
    BY DueNow
  <1>2. /\ S \in Nat /\ P \in Nat \ {0} /\ 7 * S < 5 * P
        /\ Late \in Nat /\ Late <= S
    BY PromptTimes DEF InTime, Late
  <1>3. ASSUME Pausing PROVE FALSE
    <2>1. PICK a \in 0 .. 5 * P : In(alarm, "Send", a) /\ Phases(5 * P - a)
      BY <1>3, PausePicked
    <2>2. a = 0
      BY <1>1, <2>1
    <2> DEFINE e == 5 * P
    <2>3. Phases(e) /\ e = 5 * P
      BY <1>2, <2>1, <2>2
    <2> HIDE DEF e
    <2>4. ~Begins(e)
      BY <1>2, <2>3 DEF Begins
    <2>5. ~FirstThree(e)
      BY <1>2, <2>3 DEF FirstThree
    <2>6. ~ThreeTaken(e)
      BY <1>2, <2>3 DEF ThreeTaken
    <2>7. ~ThreeRests(e)
      BY <1>2, <2>3 DEF ThreeRests, FirstEnds
    <2>8. ~Fourth(e)
      BY <1>2, <2>3 DEF Fourth
    <2>9. QED
      BY <2>3, <2>4, <2>5, <2>6, <2>7, <2>8 DEF Phases
  <1>4. QED
    BY <1>1, <1>3 DEF InTime

LEMMA KeepsSleepEnds ==
  ASSUME Counts, InTime, RegulatorPrompt, program = "regulator", SleepIsOver("Send"),
         UNCHANGED <<stock, sender>>
  PROVE  InTime'
  <1>1. Underway /\ AlarmsOK(RegulatorAlarms)
    BY PauseOver DEF SleepIsOver, Serves, InTime
  <1>2. /\ Due("Send") /\ alarm' = Unserved /\ ready' = <<"Send">> \o ready
        /\ UNCHANGED <<spent, postponed, awaiting, delivered, dequeued, burst, i>> /\ sender' = sender
    BY OutranksHere DEF SleepIsOver, Serves, Wakes, Enqueue, period, stock, sender
  <1>3. In(alarm, "Send", 0) /\ \A l : In(alarm, "Send", l) => l = 0
    BY <1>2, DueNow
  <1>4. /\ AlarmsOK(RegulatorAlarms)'
        /\ \A y, l : In(alarm', y, l) <=> In(alarm, y, l) /\ y # "Send"
    BY <1>1, <1>2, ServedAlarm
  <1>5. ~IsSet("Send")' /\ IsSet("Send")
    BY <1>1, <1>3, <1>4, SetIsInNext, SetIsIn
  <1>6. PeriodRuns'
    BY <1>1, <1>4 DEF Underway, PeriodRuns
  <1>7. SendReady' /\ (DeliverReady' \/ DeliverWaits')
    BY <1>1, <1>2, <1>5, LineFacts DEF Underway, SendReady, SendAsleep, DeliverReady, DeliverWaits
  <1>8. Underway'
    BY <1>1, <1>2, <1>5, <1>6, <1>7 DEF Underway
  <1>9. NoFailure'
    BY <1>2 DEF sender, NoFailure, InTime
  <1>10. QED
    BY <1>2, <1>4, <1>8, <1>9 DEF InTime, Late

LEMMA KeepsPeriodEnds ==
  ASSUME Counts, InTime, RegulatorPrompt, program = "regulator",
         PeriodEnds("Deliver", "Period1", P), UNCHANGED <<stock, sender>>
  PROVE  InTime'
  <1>1. AlarmsOK(RegulatorAlarms) /\ postponed \in [Periods -> 0 .. 2]
    BY DEF InTime, MostPostponed
  <1>2. /\ Due("Period1") /\ Set("Period1", P) /\ awaiting' = awaiting \ {Waiter}
        /\ UNCHANGED <<spent, delivered, dequeued, burst, i>> /\ sender' = sender
    BY DEF PeriodEnds, Waiter, stock, sender
  <1>3. /\ In(alarm, "Period1", 0) /\ ~Unstarted
        /\ \A l : In(alarm, "Period1", l) => l = 0
    BY <1>2, DueNow
  <1>4. S \in Nat /\ P \in Nat \ {0} /\ P \in 0 .. P /\ Late \in Nat
    BY PromptTimes DEF InTime, Late
  <1>5. /\ AlarmsOK(RegulatorAlarms)'
        /\ \A z, l : In(alarm', z, l) <=>
             (In(alarm, z, l) /\ z # "Period1") \/ (z = "Period1" /\ l = P)
    BY <1>1, <1>2, <1>4, SetServed DEF RegulatorAlarms
  <1>6. /\ In(alarm', "Period1", P) /\ PeriodRuns'
        /\ \A l : In(alarm', "Send", l) <=> In(alarm, "Send", l)
    BY <1>4, <1>5 DEF PeriodRuns
  <1>7. IsSet("Period1") /\ (IsSet("Send")' <=> IsSet("Send"))
    BY <1>1, <1>3, <1>5, <1>6, SetIsIn, SetIsInNext
  <1>8. ASSUME awaiting = {}
        PROVE  /\ ready' = ready /\ awaiting' = {} /\ postponed' \in [Periods -> 0 .. 2]
               /\ postponed'["Period1"] # 0
    <2>1. /\ ready' = ready /\ awaiting' = {}
          /\ postponed' = [postponed EXCEPT !["Period1"] = IF @ < 2 THEN @ + 1 ELSE @]
      BY <1>2, <1>8 DEF PeriodEnds, MostPostponed
    <2>2. QED
      BY <1>1, <2>1 DEF Periods
  <1>9. ASSUME awaiting = {Waiter}
        PROVE  ready' = Append(ready, "Deliver") /\ awaiting' = {} /\ postponed' = postponed
    BY <1>2, <1>9, OutranksHere DEF PeriodEnds, Waiter, Wakes, Enqueue
  <1>10. postponed' \in [Periods -> 0 .. 2] /\ (Pausing' \/ Underway')
    <2>1. CASE Pausing
      <3>1. PICK a \in 0 .. 5 * P : In(alarm, "Send", a) /\ Phases(5 * P - a) /\ 5 * P - a \in Nat
        BY <2>1, PausePicked
      <3> DEFINE e == 5 * P - a
      <3>2. /\ e \in Nat /\ Phases(e) /\ burst' = 1 /\ i' = 1 /\ In(alarm', "Send", a)
        BY <1>2, <1>6, <2>1, <3>1 DEF Pausing
      <3> HIDE DEF e
      <3>3. ~Begins(e)
        BY <1>7 DEF Begins
      <3>4. CASE FirstThree(e) \/ ThreeTaken(e)
        <4>1. awaiting = {}
          BY <3>4 DEF FirstThree, ThreeTaken
        <4>2. FirstEnds(e)'
          BY <1>4, <1>6, <1>8, <4>1 DEF FirstEnds
        <4>3. FirstThree(e)' \/ ThreeTaken(e)'
          BY <1>2, <1>8, <3>4, <4>1, <4>2 DEF FirstThree, ThreeTaken, Late
        <4>4. QED
          BY <1>8, <3>2, <4>1, <4>3 DEF Pausing, Phases, e
      <3>5. CASE Fourth(e)
        <4>1. awaiting = {}
          BY <3>5 DEF Fourth
        <4>2. Fourth(e)'
          BY <1>2, <1>6, <1>8, <3>5, <4>1 DEF Fourth, Late
        <4>3. QED
          BY <1>8, <3>2, <4>1, <4>2 DEF Pausing, Phases, e
      <3>6. CASE ThreeRests(e)
        <4>1. awaiting = {Waiter} /\ ready = <<>> /\ postponed["Period1"] = 0
              /\ dequeued = 0 /\ delivered = 4 /\ FirstEnds(e)
          BY <3>6 DEF ThreeRests
        <4>2. e <= S + P
          BY <1>3, <1>4, <3>2, <4>1 DEF FirstEnds
        <4>3. ready' = <<"Deliver">> /\ awaiting' = {} /\ postponed' = postponed
          BY <1>9, <4>1, LineFacts
        <4>4. e <= S + P + Late'
          BY <1>2, <1>4, <3>2, <4>2 DEF Late
        <4>5. Fourth(e)'
          BY <1>2, <1>6, <4>1, <4>3, <4>4 DEF Fourth
        <4>6. QED
          BY <1>1, <3>2, <4>3, <4>5 DEF Pausing, Phases, e
      <3>7. QED
        BY <3>2, <3>3, <3>4, <3>5, <3>6 DEF Phases
    <2>2. CASE Underway
      <3>1. \/ SendReady /\ ~IsSet("Send")'
            \/ SendAsleep /\ \E b \in 0 .. 5 * P : In(alarm', "Send", b)
        BY <1>6, <1>7, <2>2 DEF Underway
      <3>2. CASE DeliverReady
        <4>1. ready' = ready /\ awaiting' = {} /\ postponed' \in [Periods -> 0 .. 2]
          BY <1>8, <3>2 DEF DeliverReady
        <4>2. /\ SendReady' <=> SendReady
              /\ SendAsleep' <=> SendAsleep
              /\ DeliverReady'
          BY <3>2, <4>1 DEF SendReady, SendAsleep, DeliverReady
        <4>3. QED
          BY <1>2, <1>6, <2>2, <3>1, <4>1, <4>2 DEF Underway
      <3>3. CASE DeliverWaits
        <4>1. ready' = Append(ready, "Deliver") /\ awaiting' = {} /\ postponed' = postponed
          BY <1>9, <3>3 DEF DeliverWaits
        <4>2. /\ SendReady => SendReady'
              /\ SendAsleep => SendAsleep'
              /\ DeliverReady'
          BY <3>3, <4>1, LineFacts DEF SendReady, SendAsleep, DeliverReady, DeliverWaits
        <4>3. QED
          BY <1>1, <1>2, <1>6, <2>2, <3>1, <4>1, <4>2 DEF Underway
      <3>4. QED
        BY <2>2, <3>2, <3>3 DEF Underway
    <2>3. QED
      BY <1>3, <2>1, <2>2 DEF InTime
  <1>11. NoFailure'
    BY <1>2 DEF sender, NoFailure, InTime
  <1>12. QED
    BY <1>2, <1>5, <1>10, <1>11 DEF InTime, Late, MostPostponed

\* While a tick passes the running thread may be as late as assumed.
LEMMA TickSpent ==
  ASSUME InTime, RegulatorPrompt, program = "regulator", Tick
  PROVE  /\ spent' \in [{"Send", "Deliver"} -> Nat] /\ Late \in Nat /\ Late' \in Nat /\ Late' <= S
         /\ ready = <<"Deliver">> => Late' = Late + 1
         /\ ready # <<"Deliver">> => Late' = Late
  <1>1. ready \in {<<>>, <<"Send">>, <<"Deliver">>, <<"Send", "Deliver">>}
    BY DEF InTime, Unstarted, Pausing, Phases, Begins, FirstThree, ThreeTaken, ThreeRests, Fourth,
      Underway, SendReady, SendAsleep
  <1>2. /\ S \in Nat /\ spent \in [{"Send", "Deliver"} -> Nat] /\ Late <= S
        /\ Slow[program] = S
    BY PromptTimes DEF InTime, S
  <1>3. CASE ready = <<>>
    <2>1. spent' = spent
      BY <1>3 DEF Tick
    <2>2. QED
      BY <1>2, <1>3, <2>1, LineFacts DEF Late
  <1>4. CASE ready = <<"Deliver">>
    <2>1. /\ spent' = [spent EXCEPT !["Deliver"] = @ + 1]
          /\ spent["Deliver"] < S
      BY <1>2, <1>4, LineFacts DEF Tick
    <2>2. QED
      BY <1>2, <1>4, <2>1 DEF Late
  <1>5. CASE ready \in {<<"Send">>, <<"Send", "Deliver">>}
    <2>1. spent' = [spent EXCEPT !["Send"] = @ + 1]
      BY <1>5, LineFacts DEF Tick
    <2>2. QED
      BY <1>2, <1>5, <2>1, LineFacts DEF Late
  <1>6. QED
    BY <1>1, <1>3, <1>4, <1>5

LEMMA KeepsTick ==
  ASSUME Counts, InTime, RegulatorPrompt, program = "regulator", Tick, UNCHANGED <<stock, sender>>
  PROVE  InTime'
  <1>1. /\ Quiet /\ AlarmsOK(RegulatorAlarms)
        /\ UNCHANGED <<ready, postponed, awaiting, delivered, dequeued, burst, i>> /\ sender' = sender
    BY DEF Tick, period, stock, sender, InTime
  <1>2. /\ spent' \in [{"Send", "Deliver"} -> Nat] /\ Late \in Nat /\ Late' \in Nat /\ Late' <= S
        /\ ready = <<"Deliver">> => Late' = Late + 1
        /\ ready # <<"Deliver">> => Late' = Late
    BY TickSpent
  <1>3. /\ AlarmsOK(RegulatorAlarms)'
        /\ \A y : \A l \in Nat : In(alarm', y, l) <=> In(alarm, y, l + 1)
    BY <1>1, TickAlarms
  <1>4. \A x : ~In(alarm, x, 0)
    BY <1>1, SetIsIn
  <1>5. P \in Nat \ {0} /\ S \in Nat
    BY PromptTimes
  <1>6. NoFailure'
    BY <1>1 DEF sender, NoFailure, InTime
  <1>7. ASSUME NEW p \in 0 .. P, In(alarm, "Period1", p)
        PROVE  p - 1 \in 0 .. P /\ In(alarm', "Period1", p - 1)
    BY <1>3, <1>4, <1>5, <1>7
  <1>8. ASSUME NEW a \in 0 .. 5 * P, In(alarm, "Send", a)
        PROVE  a - 1 \in 0 .. 5 * P /\ In(alarm', "Send", a - 1)
    BY <1>3, <1>4, <1>5, <1>8
  <1>9. ASSUME NEW x, ~IsSet(x) PROVE ~IsSet(x)'
    <2>1. \A l \in Nat : ~In(alarm, x, l)
      BY <1>1, <1>9, SetIsIn
    <2>2. \A l \in Nat : ~In(alarm', x, l)
      BY <1>3, <2>1
    <2>3. QED
      BY <1>3, <2>2, SetIsInNext
  <1>10. PeriodRuns => PeriodRuns'
    BY <1>7 DEF PeriodRuns
  <1>11. CASE Unstarted
    <2>1. alarm' = <<>>
      BY <1>11 DEF Unstarted, Tick
    <2>2. Late' = 0
      BY <1>2, <1>11, LineFacts DEF Unstarted
    <2>3. Unstarted'
      BY <1>1, <1>11, <2>1, <2>2 DEF Unstarted
    <2>4. QED
      BY <1>1, <1>2, <1>3, <1>6, <2>3 DEF InTime
  <1>12. CASE Pausing
    <2>1. PICK a \in 0 .. 5 * P : In(alarm, "Send", a) /\ Phases(5 * P - a) /\ 5 * P - a \in Nat
      BY <1>12, PausePicked
    <2>2. a - 1 \in 0 .. 5 * P /\ In(alarm', "Send", a - 1)
      BY <1>8, <2>1
    <2>3. PICK e \in Nat : e = 5 * P - a
      BY <2>1
    <2>4. PICK f \in Nat : f = e + 1
      BY <2>3
    <2>5. /\ e \in Nat /\ f = e + 1 /\ Phases(e) /\ burst' = 1 /\ i' = 1
      BY <1>1, <1>12, <2>1, <2>3, <2>4 DEF Pausing
    <2>6. f = 5 * P - (a - 1)
      BY <1>5, <2>1, <2>3, <2>4
    <2>7. ASSUME FirstEnds(e) PROVE FirstEnds(f)'
      <3>1. PICK p \in 0 .. P : /\ In(alarm, "Period1", p)
                                /\ postponed["Period1"] = 0 => e + p <= S + P
        BY <2>7 DEF FirstEnds
      <3>2. p - 1 \in 0 .. P /\ In(alarm', "Period1", p - 1) /\ f + (p - 1) = e + p
        BY <1>5, <1>7, <2>5, <3>1
      <3>3. QED
        BY <1>1, <3>1, <3>2 DEF FirstEnds
    <2>8. ASSUME Begins(e) PROVE Phases(f)'
      <3>1. f <= Late'
        BY <1>2, <2>5, <2>8 DEF Begins
      <3>2. Begins(f)'
        BY <1>1, <1>9, <2>8, <3>1 DEF Begins
      <3>3. QED
        BY <3>2 DEF Phases
    <2>9. ASSUME FirstThree(e) PROVE Phases(f)'
      <3>1. /\ ready = <<"Deliver">> /\ awaiting = {} /\ FirstEnds(f)'
            /\ dequeued >= 0 /\ delivered = dequeued + 1
        BY <2>7, <2>9 DEF FirstThree
      <3>2. \/ dequeued = 0 /\ f <= S + Late'
            \/ dequeued = 1 /\ f <= 2 * S + Late'
            \/ dequeued = 2 /\ f <= 3 * S + Late'
            \/ dequeued = 3 /\ f <= 4 * S + Late'
        BY <1>2, <1>5, <2>5, <2>9, <3>1 DEF FirstThree
      <3>3. FirstThree(f)'
        BY <1>1, <3>1, <3>2 DEF FirstThree
      <3>4. QED
        BY <3>3 DEF Phases
    <2>10. ASSUME ThreeTaken(e) PROVE Phases(f)'
      <3>1. f <= 5 * S + Late'
        BY <1>2, <1>5, <2>5, <2>10 DEF ThreeTaken
      <3>2. ThreeTaken(f)'
        BY <1>1, <2>7, <2>10, <3>1 DEF ThreeTaken
      <3>3. QED
        BY <3>2 DEF Phases
    <2>11. ASSUME ThreeRests(e) PROVE Phases(f)'
      <3>1. ThreeRests(f)'
        BY <1>1, <2>7, <2>11 DEF ThreeRests
      <3>2. QED
        BY <3>1 DEF Phases
    <2>12. ASSUME Fourth(e) PROVE Phases(f)'
      <3>1. f <= 6 * S + Late' \/ f <= S + P + Late'
        BY <1>2, <1>5, <2>5, <2>12 DEF Fourth
      <3>2. Fourth(f)'
        BY <1>1, <1>10, <2>12, <3>1 DEF Fourth
      <3>3. QED
        BY <3>2 DEF Phases
    <2>13. Phases(f)'
      BY <2>5, <2>8, <2>9, <2>10, <2>11, <2>12 DEF Phases
    <2>14. Pausing'
      BY <2>2, <2>5, <2>6, <2>13 DEF Pausing
    <2>15. QED
      BY <1>1, <1>2, <1>3, <1>6, <2>14 DEF InTime
  <1>13. CASE Underway
    <2>1. /\ SendReady' <=> SendReady
          /\ SendAsleep' <=> SendAsleep
          /\ DeliverReady' <=> DeliverReady
          /\ DeliverWaits' <=> DeliverWaits
      BY <1>1 DEF SendReady, SendAsleep, DeliverReady, DeliverWaits
    <2>2. \/ SendReady' /\ ~IsSet("Send")'
          \/ SendAsleep' /\ \E b \in 0 .. 5 * P : In(alarm', "Send", b)
      BY <1>8, <1>9, <1>13, <2>1 DEF Underway
    <2>3. Underway'
      BY <1>1, <1>10, <1>13, <2>1, <2>2 DEF Underway
    <2>4. QED
      BY <1>1, <1>2, <1>3, <1>6, <2>3 DEF InTime
  <1>14. QED
    BY <1>11, <1>12, <1>13 DEF InTime

-----------------------------------------------------------------------------
\* Every step of the program keeps the invariant.
LEMMA RegulatorKeeps ==
  ASSUME RegulatorInv, RegulatorNext PROVE RegulatorInv'
  <1>1. RunningInv /\ program = "regulator" /\ program' = "regulator"
    BY DEF RegulatorInv, RegulatorNext
  <1>2. Counts' /\ OutcomeOK'
    BY <1>1, KeepsCounts, KeepsOutcome DEF RunningInv
  <1>3. ASSUME RegulatorPrompt PROVE InTime'
    <2>1. Counts /\ InTime
      BY <1>1, <1>3 DEF RunningInv
    <2>2. CASE RegulatorClock
      BY <1>1, <1>3, <2>1, <2>2, KeepsTick, KeepsSleepEnds, KeepsPeriodEnds DEF RegulatorClock, P
    <2>3. QED
      BY <1>3, <2>1, <2>2, KeepsObtain, KeepsSend, KeepsPause, KeepsStatistics, KeepsAwait,
        KeepsDeliverer, KeepsDequeued DEF RegulatorNext
  <1>4. RegulatorPrompt' <=> RegulatorPrompt
    BY DEF RegulatorPrompt
  <1>5. QED
    BY <1>1, <1>2, <1>3, <1>4 DEF RegulatorInv, RunningInv

\* So does a step that leaves all of it alone.
LEMMA RegulatorAlone ==
  ASSUME RegulatorInv, UNCHANGED <<program, stock, sender>>,
         program = "regulator" => UNCHANGED kernel
  PROVE  RegulatorInv'
  <1>1. CASE program = "regulator"
    <2>1. /\ RunningInv /\ program' = "regulator"
          /\ UNCHANGED <<ready, alarm, spent, postponed, awaiting, buffers, sending, waiting,
                          delivered, dequeued, msg, burst, i, outcome>>
      BY <1>1 DEF RegulatorInv, kernel, period, stock, sender
    <2>2. Counts' /\ OutcomeOK'
      BY <2>1 DEF RunningInv, Counts, OutcomeOK
    <2>3. InTime => InTime'
      BY <2>1 DEF InTime, NoFailure, AlarmsOK, Late, Unstarted, Pausing, Phases, Begins, FirstThree,
        ThreeTaken, ThreeRests, Fourth, FirstEnds, PeriodRuns, Underway, SendReady, SendAsleep,
        DeliverReady, DeliverWaits, IsSet
    <2>4. RegulatorPrompt' <=> RegulatorPrompt
      BY DEF RegulatorPrompt
    <2>5. QED
      BY <2>1, <2>2, <2>3, <2>4 DEF RegulatorInv, RunningInv
  <1>2. CASE program # "regulator"
    BY <1>2 DEF RegulatorInv, RegulatorIdle, stock, sender
  <1>3. QED
    BY <1>1, <1>2

==============================================================================
