--------------------------- MODULE LedServer_proofs ---------------------------
(***************************************************************************)
(* Theorems about LedServer: type correctness, the periods that are kept,  *)
(* what the LED thread does, and when the destructor's second is enough.   *)
(***************************************************************************)
EXTENDS LedServer, TLAPS

(* Lengths of time.                                                        *)

\* The periods, in milliseconds, that fit in 32 bits as nanoseconds.
ShortPeriods == 1 .. 4294

\* Up to 4294 ms the product of 32 bits does not overflow: the LED thread
\* sleeps for as many ticks as the period has milliseconds.
LEMMA SleepIsExact ==
  ASSUME NEW p \in ShortPeriods
  PROVE  SleepTicks(p) = p
  <1> USE DEF ShortPeriods
  <1>1. (p * 15625) % 67108864 = p * 15625
    BY SMT
  <1>2. (p * 15625) % 15625000 = (p % 1000) * 15625
    BY SMT
  <1>3. (Nsec64(p) + 15624) \div 15625 = p % 1000
    BY <1>1, <1>2, SMT DEF Nsec64
  <1>4. QED
    BY <1>3, SMT DEF SleepTicks

\* Whatever the period, the thread sleeps for a natural number of ticks.
LEMMA SleepIsNat ==
  ASSUME NEW p \in Nat
  PROVE  SleepTicks(p) \in Nat
  BY SMT DEF SleepTicks, Nsec64

\* A set with one number more has a least one, too.
LEMMA LeastOfMore ==
  ASSUME NEW T, T \subseteq Nat, T = {} \/ \E x \in T : \A y \in T : x <= y,
         NEW q \in Nat
  PROVE  \E x \in T \cup {q} : \A y \in T \cup {q} : x <= y
  <1>1. CASE T = {}
    BY <1>1
  <1>2. CASE \E x \in T : \A y \in T : x <= y
    <2>1. PICK x \in T : \A y \in T : x <= y
      BY <1>2
    <2>2. CASE x <= q
      BY <2>1, <2>2
    <2>3. CASE q <= x
      <3>1. \A y \in T \cup {q} : q <= y
        BY <2>1, <2>3
      <3>2. QED
        BY <3>1
    <2>4. QED
      BY <2>1, <2>2, <2>3
  <1>3. QED
    BY <1>1, <1>2

\* A step of time is not zero and overshoots no timer.
LEMMA TickLength ==
  ASSUME mainTimer \in Nat, ledTimer \in Nat, NEW d, d = Min(Timers \cup {Quantum})
  PROVE  /\ d \in Nat \ {0}
         /\ mainTimer # 0 => d <= mainTimer
         /\ ledTimer # 0 => d <= ledTimer
  <1> DEFINE S == Timers \cup {Quantum}
  <1>1. S \subseteq Nat \ {0}
    BY LedAssumption DEF Timers
  <1>2. \E x \in S : \A y \in S : x <= y
    <2>1. Timers = {} \/ \E x \in Timers : \A y \in Timers : x <= y
      <3>1. CASE mainTimer = 0 \/ ledTimer = 0
        BY <3>1 DEF Timers
      <3>2. CASE mainTimer # 0 /\ ledTimer # 0
        <4>1. Timers = {mainTimer} \cup {ledTimer}
          BY <3>2 DEF Timers
        <4>2. QED
          BY <4>1, LeastOfMore
      <3>3. QED
        BY <3>1, <3>2
    <2>2. Timers \subseteq Nat /\ Quantum \in Nat
      BY LedAssumption DEF Timers
    <2>3. QED
      BY <2>1, <2>2, LeastOfMore
  <1>3. d \in S /\ \A y \in S : d <= y
    BY <1>2 DEF Min
  <1>4. QED
    BY <1>1, <1>3 DEF Timers

-----------------------------------------------------------------------------
(* The inductive invariant.                                                *)

\* What main is submitting, by where it is.
OutboxOK ==
  /\ mainPc = "write" => outbox["main"] \in UserCommands
  /\ mainPc = "destroy" => outbox["main"] = ShutdownLED
  /\ mainPc \notin {"write", "destroy"} => outbox["main"] = NoCommand

\* No accepted message is lost or made up, and each was given by the user or
\* by the destructor.
CountsOK ==
  /\ accepted = handled + Len(queue)
  /\ mainPc \in {"menu", "destroy"} => accepted <= commands
  /\ mainPc = "write" => accepted < commands

LedInv == TypeOK /\ OutboxOK /\ CountsOK

\* What the LED thread reads off a message.
LEMMA CommandFields ==
  ASSUME NEW c \in Commands
  PROVE  c.type = "SetRate" => c.on \in Periods /\ c.off \in Periods
  BY DEF Commands, UserCommands, SetRate, ShutdownLED

LEMMA CommandsAreMessages ==
  UserCommands \subseteq Commands /\ ShutdownLED \in Commands
  BY DEF Commands

\* What an accepted message asks for is of the right type.
LEMMA WantsType ==
  ASSUME WantedOK, NEW c \in Commands
  PROVE  Wants(wanted, c) \in
           [active : BOOLEAN, on : Periods \cup {0}, off : Periods \cup {0}]
  BY CommandFields DEF WantedOK, Wants

LEMMA InitLedInv == Init => LedInv
  <1> SUFFICES ASSUME Init PROVE LedInv
    OBVIOUS
  <1> USE DEF Init, MQueue!FifoInit
  <1>1. QueueOK /\ NumbersOK
    BY LedAssumption DEF QueueOK, NumbersOK
  <1>2. FlagsOK
    BY DEF FlagsOK
  <1>3. PlacesOK /\ TimersOK /\ PeriodsOK /\ WantedOK
    BY DEF PlacesOK, TimersOK, PeriodsOK, WantedOK
  <1>4. OutboxOK /\ CountsOK
    BY DEF OutboxOK, CountsOK
  <1>5. QED
    BY <1>1, <1>2, <1>3, <1>4 DEF LedInv, TypeOK

\* Every step preserves the invariant.
LEMMA NextLedInv == LedInv /\ [Next]_vars => LedInv'
  <1> SUFFICES ASSUME LedInv, [Next]_vars PROVE LedInv'
    OBVIOUS
  <1>0. /\ QueueOK /\ FlagsOK /\ PlacesOK /\ TimersOK /\ PeriodsOK
        /\ NumbersOK /\ WantedOK /\ OutboxOK /\ CountsOK
    BY DEF LedInv, TypeOK
  <1>a. Depth \in Nat \ {0} /\ MaxCommands \in Nat
    BY LedAssumption
  <1>00. ASSUME QueueOK', FlagsOK', PlacesOK', TimersOK', PeriodsOK', NumbersOK',
                WantedOK', OutboxOK', CountsOK'
         PROVE  LedInv'
    BY <1>00 DEF LedInv, TypeOK
  <1>1. ASSUME NEW c \in UserCommands, Command(c) PROVE LedInv'
    <2>1. QueueOK'
      BY <1>0, <1>1, CommandsAreMessages DEF Command, MQueue!Submit, led, history, QueueOK
    <2>2. FlagsOK'
      BY <1>0, <1>1 DEF Command, MQueue!Submit, led, history, FlagsOK
    <2>3. PlacesOK' /\ PeriodsOK' /\ WantedOK'
      BY <1>0, <1>1 DEF Command, MQueue!Submit, led, history, PlacesOK, PeriodsOK, WantedOK
    <2>4. TimersOK'
      BY <1>0, <1>1 DEF Command, MQueue!Submit, led, history, TimersOK
    <2>5. OutboxOK'
      BY <1>0, <1>1 DEF Command, MQueue!Submit, led, history, OutboxOK, QueueOK
    <2>6. CountsOK'
      BY <1>0, <1>1, <1>a DEF Command, MQueue!Submit, led, history, CountsOK, NumbersOK, QueueOK, PlacesOK
    <2>8. NumbersOK'
      BY <1>0, <1>1, <1>a DEF Command, MQueue!Submit, led, history, CountsOK, NumbersOK, QueueOK, PlacesOK
    <2>7. QED
      BY <1>00, <2>1, <2>2, <2>3, <2>4, <2>5, <2>6, <2>8
  <1>2. CASE ExitMenu
    <2>1. QueueOK'
      BY <1>0, <1>2, CommandsAreMessages DEF ExitMenu, MQueue!Submit, led, history, QueueOK
    <2>2. FlagsOK'
      BY <1>0, <1>2 DEF ExitMenu, MQueue!Submit, led, history, FlagsOK
    <2>3. PlacesOK' /\ PeriodsOK' /\ WantedOK'
      BY <1>0, <1>2 DEF ExitMenu, MQueue!Submit, led, history, PlacesOK, PeriodsOK, WantedOK
    <2>4. TimersOK'
      BY <1>0, <1>2 DEF ExitMenu, MQueue!Submit, led, history, TimersOK
    <2>5. OutboxOK'
      BY <1>0, <1>2 DEF ExitMenu, MQueue!Submit, led, history, OutboxOK, QueueOK
    <2>6. CountsOK'
      BY <1>0, <1>2, <1>a DEF ExitMenu, MQueue!Submit, led, history, CountsOK, NumbersOK, QueueOK, PlacesOK
    <2>8. NumbersOK'
      BY <1>0, <1>2, <1>a DEF ExitMenu, MQueue!Submit, led, history, CountsOK, NumbersOK, QueueOK, PlacesOK
    <2>7. QED
      BY <1>00, <2>1, <2>2, <2>3, <2>4, <2>5, <2>6, <2>8
  <1>3. CASE SendAccepted /\ Written
    <2>0. outbox["main"] \in Commands /\ Len(queue') = Len(queue) + 1
      BY <1>0, <1>3, CommandsAreMessages DEF SendAccepted, MQueue!Accept, OutboxOK, QueueOK
    <2>1. QueueOK'
      BY <1>0, <1>3, <2>0, <1>a DEF SendAccepted, Written, MQueue!Accept, QueueOK
    <2>2. FlagsOK'
      BY <1>0, <1>3 DEF SendAccepted, Written, MQueue!Accept, led, FlagsOK
    <2>3. PlacesOK' /\ PeriodsOK' /\ WantedOK'
      BY <1>0, <1>3, <2>0, WantsType
         DEF SendAccepted, Written, MQueue!Accept, led, PlacesOK, PeriodsOK, WantedOK
    <2>4. TimersOK'
      BY <1>0, <1>3 DEF SendAccepted, Written, MQueue!Accept, led, TimersOK
    <2>5. OutboxOK'
      BY <1>0, <1>3 DEF SendAccepted, Written, MQueue!Accept, led, OutboxOK, QueueOK
    <2>6. CountsOK'
      BY <1>0, <1>3, <2>0, <1>a DEF SendAccepted, Written, MQueue!Accept, led, CountsOK, NumbersOK, QueueOK, PlacesOK
    <2>8. NumbersOK'
      BY <1>0, <1>3, <2>0, <1>a DEF SendAccepted, Written, MQueue!Accept, led, CountsOK, NumbersOK, QueueOK, PlacesOK
    <2>7. QED
      BY <1>00, <2>1, <2>2, <2>3, <2>4, <2>5, <2>6, <2>8
  <1>4. CASE SendRejected /\ Written
    <2>1. QueueOK'
      BY <1>0, <1>4, CommandsAreMessages DEF SendRejected, Written, MQueue!Reject, led, history, QueueOK
    <2>2. FlagsOK'
      BY <1>0, <1>4 DEF SendRejected, Written, MQueue!Reject, led, history, FlagsOK
    <2>3. PlacesOK' /\ PeriodsOK' /\ WantedOK'
      BY <1>0, <1>4 DEF SendRejected, Written, MQueue!Reject, led, history, PlacesOK, PeriodsOK, WantedOK
    <2>4. TimersOK'
      BY <1>0, <1>4 DEF SendRejected, Written, MQueue!Reject, led, history, TimersOK
    <2>5. OutboxOK'
      BY <1>0, <1>4 DEF SendRejected, Written, MQueue!Reject, led, history, OutboxOK, QueueOK
    <2>6. CountsOK'
      BY <1>0, <1>4, <1>a DEF SendRejected, Written, MQueue!Reject, led, history, CountsOK, NumbersOK, QueueOK, PlacesOK
    <2>8. NumbersOK'
      BY <1>0, <1>4, <1>a DEF SendRejected, Written, MQueue!Reject, led, history, CountsOK, NumbersOK, QueueOK, PlacesOK
    <2>7. QED
      BY <1>00, <2>1, <2>2, <2>3, <2>4, <2>5, <2>6, <2>8
  <1>5. CASE DestructorWakes
    <2>1. QueueOK'
      BY <1>0, <1>5, CommandsAreMessages DEF DestructorWakes, fifo, led, history, QueueOK
    <2>2. FlagsOK'
      BY <1>0, <1>5 DEF DestructorWakes, fifo, led, history, FlagsOK
    <2>3. PlacesOK' /\ PeriodsOK' /\ WantedOK'
      BY <1>0, <1>5 DEF DestructorWakes, fifo, led, history, PlacesOK, PeriodsOK, WantedOK
    <2>4. TimersOK'
      BY <1>0, <1>5 DEF DestructorWakes, fifo, led, history, TimersOK
    <2>5. OutboxOK'
      BY <1>0, <1>5 DEF DestructorWakes, fifo, led, history, OutboxOK, QueueOK
    <2>6. CountsOK'
      BY <1>0, <1>5, <1>a DEF DestructorWakes, fifo, led, history, CountsOK, NumbersOK, QueueOK, PlacesOK
    <2>8. NumbersOK'
      BY <1>0, <1>5, <1>a DEF DestructorWakes, fifo, led, history, CountsOK, NumbersOK, QueueOK, PlacesOK
    <2>7. QED
      BY <1>00, <2>1, <2>2, <2>3, <2>4, <2>5, <2>6, <2>8
  <1>6. CASE DeleteQueue
    <2>1. QueueOK'
      BY <1>0, <1>6, CommandsAreMessages DEF DeleteQueue, fifo, main, led, history, QueueOK
    <2>2. FlagsOK'
      BY <1>0, <1>6 DEF DeleteQueue, fifo, main, led, history, FlagsOK
    <2>3. PlacesOK' /\ PeriodsOK' /\ WantedOK'
      BY <1>0, <1>6 DEF DeleteQueue, fifo, main, led, history, PlacesOK, PeriodsOK, WantedOK
    <2>4. TimersOK'
      BY <1>0, <1>6 DEF DeleteQueue, fifo, main, led, history, TimersOK
    <2>5. OutboxOK'
      BY <1>0, <1>6 DEF DeleteQueue, fifo, main, led, history, OutboxOK, QueueOK
    <2>6. CountsOK'
      BY <1>0, <1>6, <1>a DEF DeleteQueue, fifo, main, led, history, CountsOK, NumbersOK, QueueOK, PlacesOK
    <2>8. NumbersOK'
      BY <1>0, <1>6, <1>a DEF DeleteQueue, fifo, main, led, history, CountsOK, NumbersOK, QueueOK, PlacesOK
    <2>7. QED
      BY <1>00, <2>1, <2>2, <2>3, <2>4, <2>5, <2>6, <2>8
  <1>7. CASE Exit
    <2>1. QueueOK'
      BY <1>0, <1>7, CommandsAreMessages DEF Exit, fifo, led, history, QueueOK
    <2>2. FlagsOK'
      BY <1>0, <1>7 DEF Exit, fifo, led, history, FlagsOK
    <2>3. PlacesOK' /\ PeriodsOK' /\ WantedOK'
      BY <1>0, <1>7 DEF Exit, fifo, led, history, PlacesOK, PeriodsOK, WantedOK
    <2>4. TimersOK'
      BY <1>0, <1>7 DEF Exit, fifo, led, history, TimersOK
    <2>5. OutboxOK'
      BY <1>0, <1>7 DEF Exit, fifo, led, history, OutboxOK, QueueOK
    <2>6. CountsOK'
      BY <1>0, <1>7, <1>a DEF Exit, fifo, led, history, CountsOK, NumbersOK, QueueOK, PlacesOK
    <2>8. NumbersOK'
      BY <1>0, <1>7, <1>a DEF Exit, fifo, led, history, CountsOK, NumbersOK, QueueOK, PlacesOK
    <2>7. QED
      BY <1>00, <2>1, <2>2, <2>3, <2>4, <2>5, <2>6, <2>8
  <1>8. CASE Check
    <2>1. QueueOK'
      BY <1>0, <1>8, CommandsAreMessages DEF Check, fifo, main, history, QueueOK
    <2>2. FlagsOK'
      BY <1>0, <1>8 DEF Check, fifo, main, history, FlagsOK
    <2>3. PlacesOK' /\ PeriodsOK' /\ WantedOK'
      BY <1>0, <1>8 DEF Check, fifo, main, history, PlacesOK, PeriodsOK, WantedOK
    <2>4. TimersOK'
      BY <1>0, <1>8 DEF Check, fifo, main, history, TimersOK
    <2>5. OutboxOK'
      BY <1>0, <1>8 DEF Check, fifo, main, history, OutboxOK, QueueOK
    <2>6. CountsOK'
      BY <1>0, <1>8, <1>a DEF Check, fifo, main, history, CountsOK, NumbersOK, QueueOK, PlacesOK
    <2>8. NumbersOK'
      BY <1>0, <1>8, <1>a DEF Check, fifo, main, history, CountsOK, NumbersOK, QueueOK, PlacesOK
    <2>7. QED
      BY <1>00, <2>1, <2>2, <2>3, <2>4, <2>5, <2>6, <2>8
  <1>9. CASE ReadCommand
    <2>0. /\ queue # <<>> /\ Head(queue) \in Commands /\ queue' = Tail(queue)
          /\ Tail(queue) \in Seq(Commands) /\ Len(Tail(queue)) = Len(queue) - 1
          /\ inbox' = [inbox EXCEPT !["led"] = Head(queue)]
      BY <1>0, <1>9 DEF ReadCommand, MQueue!Take, QueueOK
    <2>9. inbox'["led"] = Head(queue)
      BY <1>0, <2>0 DEF QueueOK
    <2>1. QueueOK'
      BY <1>0, <1>9, <2>0, <1>a DEF ReadCommand, MQueue!Take, QueueOK
    <2>2. FlagsOK'
      BY <1>0, <1>9 DEF ReadCommand, Handle, MQueue!Take, main, history, FlagsOK
    <2>3. PlacesOK' /\ PeriodsOK' /\ WantedOK'
      BY <1>0, <1>9, <2>0, <2>9, CommandFields
         DEF ReadCommand, Handle, main, history, PlacesOK, PeriodsOK, WantedOK
    <2>4. TimersOK'
      BY <1>0, <1>9 DEF ReadCommand, Handle, MQueue!Take, main, history, TimersOK
    <2>5. OutboxOK'
      BY <1>0, <1>9 DEF ReadCommand, Handle, MQueue!Take, main, history, OutboxOK, QueueOK
    <2>6. CountsOK'
      BY <1>0, <1>9, <2>0, <1>a DEF ReadCommand, main, history, CountsOK, NumbersOK, QueueOK, PlacesOK
    <2>8. NumbersOK'
      BY <1>0, <1>9, <2>0, <1>a DEF ReadCommand, main, history, CountsOK, NumbersOK, QueueOK, PlacesOK
    <2>7. QED
      BY <1>00, <2>1, <2>2, <2>3, <2>4, <2>5, <2>6, <2>8
  <1>10. CASE Blink
    <2>0. \A x \in Periods \cup {0} : SleepTicks(Default(x)) \in Nat
      <3>1. \A x \in Periods \cup {0} : Default(x) \in Nat
        BY LedAssumption DEF Default
      <3>2. QED
        BY <3>1, SleepIsNat
    <2>1. QueueOK'
      BY <1>0, <1>10, CommandsAreMessages DEF Blink, fifo, main, history, QueueOK
    <2>2. FlagsOK'
      BY <1>0, <1>10 DEF Blink, fifo, main, history, FlagsOK
    <2>3. PlacesOK' /\ PeriodsOK' /\ WantedOK'
      BY <1>0, <1>10 DEF Blink, fifo, main, history, PlacesOK, PeriodsOK, WantedOK
    <2>4. TimersOK'
      BY <1>0, <1>10, <2>0 DEF Blink, main, TimersOK, PeriodsOK
    <2>5. OutboxOK'
      BY <1>0, <1>10 DEF Blink, fifo, main, history, OutboxOK, QueueOK
    <2>6. CountsOK'
      BY <1>0, <1>10, <1>a DEF Blink, fifo, main, history, CountsOK, NumbersOK, QueueOK, PlacesOK
    <2>8. NumbersOK'
      BY <1>0, <1>10, <1>a DEF Blink, fifo, main, history, CountsOK, NumbersOK, QueueOK, PlacesOK
    <2>7. QED
      BY <1>00, <2>1, <2>2, <2>3, <2>4, <2>5, <2>6, <2>8
  <1>11. CASE LedWakes
    <2>1. QueueOK'
      BY <1>0, <1>11, CommandsAreMessages DEF LedWakes, fifo, main, history, QueueOK
    <2>2. FlagsOK'
      BY <1>0, <1>11 DEF LedWakes, fifo, main, history, FlagsOK
    <2>3. PlacesOK' /\ PeriodsOK' /\ WantedOK'
      BY <1>0, <1>11 DEF LedWakes, fifo, main, history, PlacesOK, PeriodsOK, WantedOK
    <2>4. TimersOK'
      BY <1>0, <1>11 DEF LedWakes, fifo, main, history, TimersOK
    <2>5. OutboxOK'
      BY <1>0, <1>11 DEF LedWakes, fifo, main, history, OutboxOK, QueueOK
    <2>6. CountsOK'
      BY <1>0, <1>11, <1>a DEF LedWakes, fifo, main, history, CountsOK, NumbersOK, QueueOK, PlacesOK
    <2>8. NumbersOK'
      BY <1>0, <1>11, <1>a DEF LedWakes, fifo, main, history, CountsOK, NumbersOK, QueueOK, PlacesOK
    <2>7. QED
      BY <1>00, <2>1, <2>2, <2>3, <2>4, <2>5, <2>6, <2>8
  <1>12. CASE Tick
    <2>1. QueueOK'
      BY <1>0, <1>12, CommandsAreMessages DEF Tick, fifo, history, QueueOK
    <2>2. FlagsOK'
      BY <1>0, <1>12 DEF Tick, fifo, history, FlagsOK
    <2>3. PlacesOK' /\ PeriodsOK' /\ WantedOK'
      BY <1>0, <1>12 DEF Tick, fifo, history, PlacesOK, PeriodsOK, WantedOK
    <2>4. TimersOK'
      <3> DEFINE d == Min(Timers \cup {Quantum})
      <3>1. mainTimer \in Nat /\ ledTimer \in Nat
        BY <1>0 DEF TimersOK
      <3>2. /\ d \in Nat \ {0}
            /\ mainTimer # 0 => d <= mainTimer
            /\ ledTimer # 0 => d <= ledTimer
        BY <3>1, TickLength
      <3> HIDE DEF d
      <3>4. /\ mainTimer' = IF mainTimer = 0 THEN 0 ELSE mainTimer - d
            /\ ledTimer' = IF ledTimer = 0 THEN 0 ELSE ledTimer - d
            /\ ledCount' = ledCount
        BY <1>12 DEF Tick, d
      <3>3. QED
        BY <1>0, <3>2, <3>4 DEF TimersOK
    <2>5. OutboxOK'
      BY <1>0, <1>12 DEF Tick, fifo, history, OutboxOK, QueueOK
    <2>6. CountsOK'
      BY <1>0, <1>12, <1>a DEF Tick, fifo, history, CountsOK, NumbersOK, QueueOK, PlacesOK
    <2>8. NumbersOK'
      BY <1>0, <1>12, <1>a DEF Tick, fifo, history, CountsOK, NumbersOK, QueueOK, PlacesOK
    <2>7. QED
      BY <1>00, <2>1, <2>2, <2>3, <2>4, <2>5, <2>6, <2>8
  <1>13. CASE UNCHANGED vars
    <2>1. QueueOK'
      BY <1>0, <1>13, CommandsAreMessages DEF vars, fifo, main, led, history, QueueOK
    <2>2. FlagsOK'
      BY <1>0, <1>13 DEF vars, fifo, main, led, history, FlagsOK
    <2>3. PlacesOK' /\ PeriodsOK' /\ WantedOK'
      BY <1>0, <1>13 DEF vars, fifo, main, led, history, PlacesOK, PeriodsOK, WantedOK
    <2>4. TimersOK'
      BY <1>0, <1>13 DEF vars, fifo, main, led, history, TimersOK
    <2>5. OutboxOK'
      BY <1>0, <1>13 DEF vars, fifo, main, led, history, OutboxOK, QueueOK
    <2>6. CountsOK'
      BY <1>0, <1>13, <1>a DEF vars, fifo, main, led, history, CountsOK, NumbersOK, QueueOK, PlacesOK
    <2>8. NumbersOK'
      BY <1>0, <1>13, <1>a DEF vars, fifo, main, led, history, CountsOK, NumbersOK, QueueOK, PlacesOK
    <2>7. QED
      BY <1>00, <2>1, <2>2, <2>3, <2>4, <2>5, <2>6, <2>8
  <1>14. QED
    BY <1>1, <1>2, <1>3, <1>4, <1>5, <1>6, <1>7, <1>8, <1>9, <1>10, <1>11, <1>12, <1>13
       DEF Next, MainStep, LedStep, Written, Ended

LEMMA LedInvHolds == Spec => []LedInv
  BY InitLedInv, NextLedInv, PTL DEF Spec

\* Type correctness: the queue stays within its depth, the LED thread has only
\* periods the user gave it, and it handles no message that was not accepted.
THEOREM LedTypeCorrect == Spec => []TypeOK
  BY LedInvHolds, PTL DEF LedInv

-----------------------------------------------------------------------------
(* The periods.                                                            *)

\* If the menu offered periods up to 4294 ms only, each would be honoured:
\* ThreadBody's arithmetic in 32 bits is right exactly that far.
THEOREM ShortPeriodsAreHonoured ==
  ASSUME Periods \subseteq ShortPeriods
  PROVE  Spec => PeriodHonoured
  <1>1. LedInv /\ [Next]_vars =>
          [active /\ ledPc = "blink" /\ ledPc' = "asleep" =>
             ledTimer' = Default(IF ledCount' = 1 THEN onPeriod ELSE offPeriod)]_vars
    <2> SUFFICES ASSUME LedInv, Next, active, ledPc = "blink", ledPc' = "asleep"
                 PROVE  ledTimer' = Default(IF ledCount' = 1 THEN onPeriod ELSE offPeriod)
      OBVIOUS
    <2>1. Blink
      BY DEF Next, Command, ExitMenu, MainStep, Written, DestructorWakes, DeleteQueue,
             Exit, LedStep, Check, ReadCommand, LedWakes, Tick, Ended, vars, led
    <2>2. ASSUME NEW x \in Periods \cup {0}
          PROVE  SleepTicks(Default(x)) = Default(x)
      <3>1. Default(x) \in ShortPeriods
        <4>1. 500 \in ShortPeriods
          BY SMT DEF ShortPeriods
        <4>2. QED
          BY <4>1 DEF Default
      <3>2. QED
        BY <3>1, SleepIsExact, Zenon
    <2>3. PeriodsOK
      BY DEF LedInv, TypeOK
    <2>4. QED
      BY <2>1, <2>2, <2>3 DEF Blink, PeriodsOK
  <1>2. QED
    BY <1>1, LedInvHolds, PTL DEF Spec, PeriodHonoured

-----------------------------------------------------------------------------
(* The destructor.                                                         *)

\* The queue is deleted at the end of the destructor only.
DeletedOK ==
  /\ deleted => mainPc \in {"delete", "exit"}
  /\ dangling => deleted

\* After a calm submission the LED thread is gone, or on its way to the message
\* with time left: it wakes before main does.
CalmOK ==
  calm =>
    /\ mainPc \in {"closing", "delete", "exit"}
    /\ ~dangling
    /\ \/ ledPc = "gone"
       \/ /\ mainPc = "closing"
          /\ queue = <<ShutdownLED>>
          /\ \/ ledPc = "asleep" /\ ledTimer < mainTimer
             \/ ledPc \in {"check", "read"} /\ mainTimer > 0

CalmInv == DeletedOK /\ CalmOK

LEMMA NextCalmInv == LedInv /\ CalmInv /\ [Next]_vars => CalmInv'
  <1> SUFFICES ASSUME LedInv, CalmInv, [Next]_vars PROVE CalmInv'
    OBVIOUS
  <1>0. /\ QueueOK /\ PlacesOK /\ TimersOK /\ OutboxOK
    BY DEF LedInv, TypeOK
  <1> USE DEF CalmInv, DeletedOK, CalmOK
  <1>1. ASSUME NEW c \in UserCommands, Command(c) PROVE CalmInv'
    BY <1>1 DEF Command, MQueue!Submit, led, history
  <1>2. CASE ExitMenu
    BY <1>2 DEF ExitMenu, MQueue!Submit, led, history
  <1>3. CASE SendAccepted /\ Written
    <2>1. calm' => mainPc' = "closing" /\ mainTimer' = 1000 /\ ledPc' = "asleep"
                   /\ ledTimer' < mainTimer' /\ ~deleted /\ ~dangling'
      BY <1>3 DEF SendAccepted, Written, led
    <2>2. calm' => queue' = <<ShutdownLED>>
      <3>1. calm' => mainPc = "destroy" /\ queue = <<>>
        BY <1>3 DEF SendAccepted
      <3>2. queue' = Append(queue, outbox["main"])
        BY <1>3 DEF SendAccepted, MQueue!Accept
      <3>3. mainPc = "destroy" => outbox["main"] = ShutdownLED
        BY <1>0 DEF OutboxOK
      <3>4. Append(<<>>, ShutdownLED) = <<ShutdownLED>>
        OBVIOUS
      <3>5. QED
        BY <3>1, <3>2, <3>3, <3>4
    <2>3. QED
      BY <1>3, <2>1, <2>2 DEF SendAccepted, Written, led
  <1>4. CASE SendRejected /\ Written
    BY <1>4 DEF SendRejected, Written, MQueue!Reject, led, history
  <1>5. CASE DestructorWakes
    BY <1>0, <1>5 DEF DestructorWakes, fifo, led, history, TimersOK
  <1>6. CASE DeleteQueue
    BY <1>6 DEF DeleteQueue, fifo, main, led, history
  <1>7. CASE Exit
    BY <1>7 DEF Exit, fifo, led, history
  <1>8. CASE Check
    <2>1. UNCHANGED <<queue, deleted, mainPc, mainTimer, calm>>
      BY <1>8 DEF Check, fifo, main, history
    <2>2. calm => queue # <<>> /\ mainPc = "closing" /\ ~deleted /\ mainTimer > 0
      BY <1>8 DEF Check
    <2>3. calm => ledPc' = "read" /\ ~dangling'
      BY <1>8, <2>2 DEF Check
    <2>4. DeletedOK'
      <3>1. dangling' => dangling \/ deleted
        BY <1>8 DEF Check
      <3>2. deleted' = deleted /\ mainPc' = mainPc
        BY <2>1
      <3>3. QED
        BY <3>1, <3>2
    <2>5. CalmOK'
      BY <1>8, <2>1, <2>2, <2>3 DEF Check
    <2>6. QED
      BY <2>4, <2>5
  <1>9. CASE ReadCommand
    <2>1. calm => inbox'["led"] = ShutdownLED
      BY <1>0, <1>9 DEF ReadCommand, MQueue!Take, QueueOK
    <2>2. calm => ledPc' = "gone" /\ ~dangling'
      BY <1>9, <2>1 DEF ReadCommand, Handle
    <2>3. QED
      BY <1>9, <2>2 DEF ReadCommand, main, history
  <1>10. CASE Blink
    BY <1>10 DEF Blink, fifo, main, history
  <1>11. CASE LedWakes
    BY <1>0, <1>11 DEF LedWakes, fifo, main, history, TimersOK
  <1>12. CASE Tick
    <2> DEFINE d == Min(Timers \cup {Quantum})
    <2>1. mainTimer \in Nat /\ ledTimer \in Nat
      BY <1>0 DEF TimersOK
    <2>2. /\ d \in Nat \ {0}
          /\ mainTimer # 0 => d <= mainTimer
          /\ ledTimer # 0 => d <= ledTimer
      BY <2>1, TickLength
    <2>3. /\ mainTimer' = IF mainTimer = 0 THEN 0 ELSE mainTimer - d
          /\ ledTimer' = IF ledTimer = 0 THEN 0 ELSE ledTimer - d
          /\ ledPc = "asleep" => ledTimer > 0
          /\ ledPc \in {"asleep", "gone"}
          /\ UNCHANGED <<queue, deleted, mainPc, ledPc, dangling, calm>>
      BY <1>12 DEF Tick, d, fifo, history
    <2> HIDE DEF d
    <2>4. QED
      BY <2>1, <2>2, <2>3
  <1>13. CASE UNCHANGED vars
    BY <1>13 DEF vars, fifo, main, led, history
  <1>14. QED
    BY <1>1, <1>2, <1>3, <1>4, <1>5, <1>6, <1>7, <1>8, <1>9, <1>10, <1>11, <1>12, <1>13
       DEF Next, MainStep, LedStep, Written, Ended

\* Whatever the periods, the depth and the commands: if ShutdownLED is accepted
\* with nothing else pending, while the LED thread sleeps and has less than a
\* second to go, then the thread has left before its queue is deleted.
THEOREM CalmTeardownIsSafe == Spec => []CalmTeardown
  <1>1. Init => CalmInv
    BY DEF Init, CalmInv, DeletedOK, CalmOK
  <1>2. LedInv /\ CalmInv => CalmTeardown
    BY DEF CalmInv, DeletedOK, CalmOK, CalmTeardown
  <1>3. QED
    BY <1>1, <1>2, NextCalmInv, LedInvHolds, PTL DEF Spec

-----------------------------------------------------------------------------
(* What the pending commands will do.                                      *)

\* The last message in q of one of the given types, and a queue without any.
Last(q, types, i) ==
  /\ i \in 1 .. Len(q) /\ q[i].type \in types
  /\ \A j \in 1 .. Len(q) : j > i => q[j].type \notin types
Without(q, types) == \A i \in 1 .. Len(q) : q[i].type \notin types

\* The last one, after push_back.
LEMMA LastAppended ==
  ASSUME NEW S, NEW q \in Seq(S), NEW c \in S, NEW types
  PROVE  /\ c.type \in types =>
              /\ ~Without(Append(q, c), types)
              /\ \A i : Last(Append(q, c), types, i) => Append(q, c)[i] = c
         /\ c.type \notin types =>
              /\ Without(Append(q, c), types) => Without(q, types)
              /\ \A i : Last(Append(q, c), types, i) =>
                          Last(q, types, i) /\ Append(q, c)[i] = q[i]
  <1> DEFINE r == Append(q, c)
  <1>1. /\ Len(q) \in Nat /\ Len(r) = Len(q) + 1 /\ r[Len(q) + 1] = c
        /\ \A i \in 1 .. Len(q) : r[i] = q[i]
    OBVIOUS
  <1> HIDE DEF r
  <1>2. ASSUME c.type \in types
        PROVE  ~Without(r, types) /\ \A i : Last(r, types, i) => r[i] = c
    BY <1>1, <1>2 DEF Without, Last
  <1>3. ASSUME c.type \notin types
        PROVE  /\ Without(r, types) => Without(q, types)
               /\ \A i : Last(r, types, i) => Last(q, types, i) /\ r[i] = q[i]
    BY <1>1, <1>3 DEF Without, Last
  <1>4. QED
    BY <1>2, <1>3 DEF r

\* The last one, before pop_front.
LEMMA LastOfTail ==
  ASSUME NEW S, NEW q \in Seq(S), q # <<>>, NEW types
  PROVE  /\ Without(Tail(q), types) /\ Head(q).type \notin types => Without(q, types)
         /\ Without(Tail(q), types) /\ Head(q).type \in types =>
              Last(q, types, 1) /\ q[1] = Head(q)
         /\ \A i \in 1 .. Len(Tail(q)) : Last(Tail(q), types, i) =>
              Last(q, types, i + 1) /\ q[i + 1] = Tail(q)[i]
  <1> DEFINE r == Tail(q)
  <1>1. /\ Len(q) \in Nat \ {0} /\ Len(r) = Len(q) - 1 /\ Head(q) = q[1]
        /\ \A i \in 1 .. Len(r) : r[i] = q[i + 1]
    OBVIOUS
  <1> HIDE DEF r
  <1>2. \A j \in 1 .. Len(q) : j # 1 => j - 1 \in 1 .. Len(r) /\ q[j] = r[j - 1]
    BY <1>1
  <1>3. ASSUME Without(r, types), Head(q).type \notin types PROVE Without(q, types)
    BY <1>1, <1>2, <1>3 DEF Without
  <1>4. ASSUME Without(r, types), Head(q).type \in types
        PROVE  Last(q, types, 1) /\ q[1] = Head(q)
    BY <1>1, <1>2, <1>4 DEF Without, Last
  <1>5. ASSUME NEW i \in 1 .. Len(r), Last(r, types, i)
        PROVE  Last(q, types, i + 1) /\ q[i + 1] = r[i]
    <2>1. i + 1 \in 1 .. Len(q) /\ q[i + 1] = r[i] /\ r[i].type \in types
      BY <1>1, <1>5 DEF Last
    <2>2. ASSUME NEW j \in 1 .. Len(q), j > i + 1 PROVE q[j].type \notin types
      <3>1. j - 1 \in 1 .. Len(r) /\ j - 1 > i /\ q[j] = r[j - 1]
        BY <1>1, <1>2, <2>2
      <3>2. QED
        BY <3>1, <1>5 DEF Last
    <2>3. QED
      BY <2>1, <2>2 DEF Last
  <1>6. QED
    BY <1>3, <1>4, <1>5 DEF r

Switches == {"StartLED", "StopLED"}
Rates == {"SetRate"}

\* What the last pending command of a kind asks for is wanted; if none is
\* pending, the LED thread has what is wanted.
SwitchOK ==
  /\ Without(queue, Switches) => active = wanted.active
  /\ \A i \in 1 .. Len(queue) :
       Last(queue, Switches, i) => wanted.active = (queue[i].type = "StartLED")
RateOK ==
  /\ Without(queue, Rates) => onPeriod = wanted.on /\ offPeriod = wanted.off
  /\ \A i \in 1 .. Len(queue) :
       Last(queue, Rates, i) => wanted.on = queue[i].on /\ wanted.off = queue[i].off

SettledInv == ledPc # "gone" => SwitchOK /\ RateOK

\* What an accepted message changes of what is wanted.
LEMMA WantsFields ==
  ASSUME WantedOK, NEW c \in Commands
  PROVE  /\ Wants(wanted, c).active =
              IF c.type \in Switches THEN c.type = "StartLED" ELSE wanted.active
         /\ Wants(wanted, c).on = IF c.type \in Rates THEN c.on ELSE wanted.on
         /\ Wants(wanted, c).off = IF c.type \in Rates THEN c.off ELSE wanted.off
  <1>1. c.type \in {"StartLED", "StopLED", "SetRate", "ShutdownLED"}
    BY DEF Commands, UserCommands, SetRate, ShutdownLED
  <1>2. CASE c.type = "StartLED"
    BY <1>2 DEF Wants, Switches, Rates, WantedOK
  <1>3. CASE c.type = "StopLED"
    BY <1>3 DEF Wants, Switches, Rates, WantedOK
  <1>4. CASE c.type = "SetRate"
    BY <1>4 DEF Wants, Switches, Rates, WantedOK
  <1>5. CASE c.type = "ShutdownLED"
    BY <1>5 DEF Wants, Switches, Rates, WantedOK
  <1>6. QED
    BY <1>1, <1>2, <1>3, <1>4, <1>5

\* A message that is accepted.
LEMMA AcceptedSettles ==
  ASSUME LedInv, SwitchOK, RateOK, SendAccepted, Written
  PROVE  SwitchOK' /\ RateOK'
  <1> DEFINE c == outbox["main"]
  <1>1. /\ c \in Commands /\ queue \in Seq(Commands) /\ queue' = Append(queue, c)
        /\ UNCHANGED <<active, onPeriod, offPeriod>> /\ WantedOK
    BY CommandsAreMessages
       DEF LedInv, TypeOK, QueueOK, OutboxOK, SendAccepted, Written, MQueue!Accept, led
  <1>2. /\ wanted'.active =
             IF c.type \in Switches THEN c.type = "StartLED" ELSE wanted.active
        /\ wanted'.on = IF c.type \in Rates THEN c.on ELSE wanted.on
        /\ wanted'.off = IF c.type \in Rates THEN c.off ELSE wanted.off
    BY <1>1, WantsFields DEF SendAccepted
  <1> HIDE DEF c
  <1>3. SwitchOK'
    BY <1>1, <1>2, LastAppended DEF SwitchOK, Last
  <1>4. RateOK'
    BY <1>1, <1>2, LastAppended DEF RateOK, Last
  <1>5. QED
    BY <1>3, <1>4

\* A message that is handled.
LEMMA HandledSettles ==
  ASSUME LedInv, SwitchOK, RateOK, ReadCommand
  PROVE  SwitchOK' /\ RateOK'
  <1> DEFINE c == Head(queue)
  <1>1. /\ queue \in Seq(Commands) /\ queue # <<>> /\ queue' = Tail(queue)
        /\ c \in Commands /\ Len(queue) \in Nat \ {0} /\ Len(queue') = Len(queue) - 1
    BY DEF LedInv, TypeOK, QueueOK, ReadCommand, MQueue!Take
  <1>2. inbox'["led"] = c
    BY DEF LedInv, TypeOK, QueueOK, ReadCommand, MQueue!Take
  <1>3. /\ active' = (c.type = "StartLED" \/ (active /\ c.type # "StopLED"))
        /\ onPeriod' = IF c.type = "SetRate" THEN c.on ELSE onPeriod
        /\ offPeriod' = IF c.type = "SetRate" THEN c.off ELSE offPeriod
        /\ wanted' = wanted
    BY <1>2 DEF ReadCommand, Handle, history
  <1>4. active \in BOOLEAN /\ wanted.active \in BOOLEAN
    BY DEF LedInv, TypeOK, FlagsOK, WantedOK
  <1> HIDE DEF c
  <1>5. \A i \in 1 .. Len(queue') : i + 1 \in 1 .. Len(queue)
    BY <1>1
  <1>6. SwitchOK'
    BY <1>1, <1>3, <1>4, <1>5, LastOfTail DEF SwitchOK, Switches, c
  <1>7. RateOK'
    BY <1>1, <1>3, <1>5, LastOfTail DEF RateOK, Rates, c
  <1>8. QED
    BY <1>6, <1>7

LEMMA NextSettledInv == LedInv /\ SettledInv /\ [Next]_vars => SettledInv'
  <1> SUFFICES ASSUME LedInv, SettledInv, [Next]_vars PROVE SettledInv'
    OBVIOUS
  <1>1. ASSUME UNCHANGED <<queue, active, onPeriod, offPeriod, wanted>>,
               ledPc = "gone" => ledPc' = "gone"
        PROVE  SettledInv'
    BY <1>1 DEF SettledInv, SwitchOK, RateOK
  <1>2. CASE SendAccepted /\ Written
    <2>1. ledPc' = ledPc
      BY <1>2 DEF Written, led
    <2>2. QED
      BY <1>2, <2>1, AcceptedSettles DEF SettledInv
  <1>3. CASE ReadCommand
    <2>1. ledPc # "gone"
      BY <1>3 DEF ReadCommand
    <2>2. QED
      BY <1>3, <2>1, HandledSettles DEF SettledInv
  <1>4. CASE \/ \E c \in UserCommands : Command(c)
             \/ ExitMenu
             \/ SendRejected /\ Written
             \/ DestructorWakes \/ DeleteQueue \/ Exit
             \/ Tick
             \/ UNCHANGED vars
    <2>1. UNCHANGED <<queue, active, onPeriod, offPeriod, wanted, ledPc>>
      BY <1>4
         DEF Command, ExitMenu, MQueue!Submit, MQueue!Reject, SendRejected, Written,
             DestructorWakes, DeleteQueue, Exit, Tick, vars, fifo, led, history
    <2>2. QED
      BY <1>1, <2>1
  <1>5. CASE Check
    BY <1>1, <1>5 DEF Check, fifo, history
  <1>6. CASE Blink
    BY <1>1, <1>6 DEF Blink, fifo, history
  <1>7. CASE LedWakes
    BY <1>1, <1>7 DEF LedWakes, fifo, history
  <1>8. QED
    <2>1. Written => (SendAccepted /\ Written) \/ (SendRejected /\ Written)
      BY DEF Written
    <2>2. QED
      BY <2>1, <1>2, <1>3, <1>4, <1>5, <1>6, <1>7 DEF Next, MainStep, LedStep, Ended

\* For any depth and any commands in any order, some of them rejected: when
\* none is pending, the LED thread does what the accepted ones asked for.
THEOREM SettlesAsWanted == Spec => []SettledAsWanted
  <1>1. Init => SettledInv
    <2> SUFFICES ASSUME Init PROVE SwitchOK /\ RateOK
      BY DEF SettledInv
    <2>1. /\ queue = <<>> /\ active = FALSE /\ onPeriod = 0 /\ offPeriod = 0
          /\ wanted = [active |-> FALSE, on |-> 0, off |-> 0]
      BY DEF Init, MQueue!FifoInit
    <2>2. 1 .. Len(queue) = {} /\ wanted.active = FALSE /\ wanted.on = 0 /\ wanted.off = 0
      BY <2>1
    <2>3. QED
      BY <2>1, <2>2 DEF SwitchOK, RateOK
  <1>2. LedInv /\ SettledInv => SettledAsWanted
    <2> SUFFICES ASSUME LedInv, SettledInv, queue = <<>>, ledPc # "gone"
                 PROVE  [active |-> active, on |-> onPeriod, off |-> offPeriod] = wanted
      BY DEF SettledAsWanted
    <2>1. active = wanted.active /\ onPeriod = wanted.on /\ offPeriod = wanted.off
      BY DEF SettledInv, SwitchOK, RateOK, Without
    <2>2. WantedOK
      BY DEF LedInv, TypeOK
    <2>3. QED
      BY <2>1, <2>2 DEF WantedOK
  <1>3. QED
    BY <1>1, <1>2, NextSettledInv, LedInvHolds, PTL DEF Spec
==============================================================================
