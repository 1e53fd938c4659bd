--------------------------- MODULE LedTasks_proofs ---------------------------
(***************************************************************************)
(* The LED programs lose nothing and alternate the LED (Programs_proofs    *)
(* has the theorems).                                                      *)
(***************************************************************************)
EXTENDS LedTasks, TaskKernel_proofs, FiniteSetTheorems

-----------------------------------------------------------------------------
(* The texts.                                                              *)

\* The next call of thread t, and where it is after that.
Op(t) == Text[program][t].ops[pc[t]]
NextPc(t) ==
  IF pc[t] = Len(Text[program][t].ops) THEN Text[program][t].loop ELSE pc[t] + 1

\* Each kind of step is the one of its call.
LEMMA OpOf ==
  ASSUME NEW t, LedStep(t)
  PROVE  /\ Runs(t) /\ t \in DOMAIN Text[program]
         /\ \/ Op(t) \in {"sleep", "poll"} /\ Sleep(t)
            \/ Op(t) = "delete_self" /\ DeleteSelf(t)
            \/ Op(t) = "send_event" /\ SendEvent(t)
            \/ Op(t) = "receive_event" /\ ReceiveEvent(t)
            \/ Op(t) = "led_event" /\ LedEvent(t)
            \/ Op(t) = "send_message" /\ SendMessage(t)
            \/ Op(t) = "receive_message" /\ ReceiveMessage(t)
            \/ Op(t) = "led_message" /\ LedMessage(t)
            \/ Op(t) = "release" /\ Release(t)
            \/ Op(t) = "obtain" /\ Obtain(t)
            \/ Op(t) = "wait" /\ Wait(t)
            \/ Op(t) = "signal" /\ Signal(t)
            \/ Op(t) = "period_1" /\ Period(t, "Period1", "period_1")
            \/ Op(t) = "period_2" /\ Period(t, "Period2", "period_2")
            \/ Op(t) = "led_count" /\ LedCount(t)
            \/ Op(t) \in {"led_off", "led_on"} /\ LedSet(t)
            \/ Op(t) = "routine_1" /\ Routine(t, "Timer1", "routine_1")
            \/ Op(t) = "routine_2" /\ Routine(t, "Timer2", "routine_2")
            \/ Op(t) \in {"read_print", "read_value", "clear_print", "clear_value", "show_change"}
               /\ Change(t)
            \/ Op(t) = "serve_timers" /\ ServeTimers(t)
  <1> DEFINE Ok == Runs(t) /\ t \in DOMAIN Text[program]
  <1>1. /\ Sleep(t) => Ok /\ Op(t) \in {"sleep", "poll"}
        /\ DeleteSelf(t) => Ok /\ Op(t) = "delete_self"
    BY DEF Sleep, DeleteSelf, At, Op
  <1>2. /\ SendEvent(t) => Ok /\ Op(t) = "send_event"
        /\ ReceiveEvent(t) => Ok /\ Op(t) = "receive_event"
        /\ LedEvent(t) => Ok /\ Op(t) = "led_event"
    BY DEF SendEvent, ReceiveEvent, LedEvent, At, Op
  <1>3. /\ SendMessage(t) => Ok /\ Op(t) = "send_message"
        /\ ReceiveMessage(t) => Ok /\ Op(t) = "receive_message"
        /\ LedMessage(t) => Ok /\ Op(t) = "led_message"
    BY DEF SendMessage, ReceiveMessage, LedMessage, At, Op
  <1>4. /\ Release(t) => Ok /\ Op(t) = "release"
        /\ Obtain(t) => Ok /\ Op(t) = "obtain"
        /\ Wait(t) => Ok /\ Op(t) = "wait"
        /\ Signal(t) => Ok /\ Op(t) = "signal"
    BY DEF Release, Obtain, Wait, Signal, At, Op
  <1>5. \A p, op : Period(t, p, op) => Ok /\ Op(t) = op
    BY DEF Period, At, Op
  <1>6. /\ LedCount(t) => Ok /\ Op(t) = "led_count"
        /\ LedSet(t) => Ok /\ Op(t) \in {"led_off", "led_on"}
    BY DEF LedCount, LedSet, At, Op
  <1>7. \A x, op : Routine(t, x, op) => Ok /\ Op(t) = op
    BY DEF Routine, At, Op
  <1>8. /\ Change(t) => Ok /\ Op(t) \in {"read_print", "read_value", "clear_print",
                                         "clear_value", "show_change"}
        /\ ServeTimers(t) => Ok /\ Op(t) = "serve_timers"
    BY DEF Change, ServeTimers, At, Op
  <1> HIDE DEF Ok
  <1>9. Ok
    BY <1>1, <1>2, <1>3, <1>4, <1>5, <1>6, <1>7, <1>8 DEF LedStep
  <1>10. QED
    BY <1>1, <1>2, <1>3, <1>4, <1>5, <1>6, <1>7, <1>8, <1>9 DEF LedStep, Ok

-----------------------------------------------------------------------------
(* Where the threads are.                                                  *)

LedAlarms == Threads \cup Periods \cup {"Timer1", "Timer2"}
Reasons == {"no", "event", "message", "semaphore", "condition", "timer"}
Up(t) == IsReady(t, Other(t))
Waits(t) == \E p \in Periods : <<t, p>> \in awaiting

\* A thread is in one place only: in the line, asleep, blocked, or waiting for a period.
Places ==
  /\ AlarmsOK(LedAlarms) /\ ready \in LinesOf("Init", "Server")
  /\ blocked \in [Threads -> Reasons] /\ awaiting \subseteq Threads \X Periods
  /\ \A t \in Threads : \A p, q \in Periods : {<<t, p>>, <<t, q>>} \subseteq awaiting => p = q
  /\ \A t \in Threads :
       /\ Up(t) => ~IsSet(t) /\ blocked[t] = "no" /\ ~Waits(t)
       /\ IsSet(t) => blocked[t] = "no" /\ ~Waits(t)
       /\ blocked[t] # "no" => ~Waits(t)

LEMMA Others ==
  \A t \in Threads : /\ Other(t) \in Threads /\ Other(t) # t /\ Other(Other(t)) = t
                     /\ \A u \in Threads : u = t \/ u = Other(t)
  BY DEF Threads, Other

LEMMA InLine ==
  ASSUME ready \in LinesOf("Init", "Server"), NEW t \in Threads
  PROVE  /\ ready \in LinesOf(t, Other(t))
         /\ First(t) => Up(t) /\ ~First(Other(t))
         /\ Up(t) => First(t) \/ (First(Other(t)) /\ Up(Other(t)))
         /\ Runs(t) => First(t) /\ Up(t) /\ Quiet
  <1>1. ready \in LinesOf(t, Other(t))
    BY DEF Threads, Other, LinesOf
  <1>2. Other(t) # t /\ Other(Other(t)) = t
    BY Others
  <1>3. QED
    BY <1>1, <1>2, LineForms, RunsFirst DEF Up

LEMMA LineOf == \A t \in Threads : \A q : q \in LinesOf(t, Other(t)) => q \in LinesOf("Init", "Server")
  BY DEF Threads, Other, LinesOf

\* Thread t blocks.
LEMMA Leaves ==
  ASSUME ready \in LinesOf("Init", "Server"), NEW t \in Threads, Runs(t), ready' = Tail(ready)
  PROVE  /\ ready' \in LinesOf("Init", "Server")
         /\ ~Up(t)' /\ ~First(t)'
         /\ Up(Other(t))' <=> Up(Other(t))
         /\ First(Other(t))' <=> Up(Other(t))
  <1>1. ready \in LinesOf(t, Other(t)) /\ First(t)
    BY InLine
  <1>2. Other(t) # t /\ Other(Other(t)) = t
    BY Others
  <1>3. ready' \in LinesOf(t, Other(t))
    BY <1>1, <1>2, LineBlocks
  <1>4. QED
    BY <1>1, <1>2, <1>3, LineBlocks, LineOf DEF Up

\* Thread t, which was not ready, goes to the end of the line.
LEMMA Joins ==
  ASSUME ready \in LinesOf("Init", "Server"), NEW t \in Threads, ~Up(t), ready' = Append(ready, t)
  PROVE  /\ ready' \in LinesOf("Init", "Server") /\ Up(t)'
         /\ Up(Other(t))' <=> Up(Other(t))
         /\ First(Other(t))' <=> First(Other(t))
         /\ First(t)' <=> ~Up(Other(t))
  <1>1. ready \in LinesOf(t, Other(t))
    BY InLine
  <1>2. Other(t) # t /\ Other(Other(t)) = t
    BY Others
  <1>3. ready' \in LinesOf(t, Other(t))
    BY <1>1, <1>2, LineWakes DEF Up
  <1>4. QED
    BY <1>1, <1>2, <1>3, LineWakes, LineOf DEF Up

LEMMA Stays ==
  ASSUME ready' = ready PROVE \A t : (Up(t)' <=> Up(t)) /\ (First(t)' <=> First(t))
  BY DEF Up, First, IsReady, Other

LEMMA SameAlarms ==
  ASSUME alarm' = alarm
  PROVE  /\ \A x : IsSet(x)' <=> IsSet(x)
         /\ AlarmsOK(LedAlarms) => AlarmsOK(LedAlarms)'
  BY DEF IsSet, AlarmsOK

\* An alarm that is not set is set, while nothing is due.
LEMMA Sets ==
  ASSUME AlarmsOK(LedAlarms), NEW x \in LedAlarms, NEW n \in Nat, Quiet, ~IsSet(x), Set(x, n)
  PROVE  /\ AlarmsOK(LedAlarms)' /\ IsSet(x)'
         /\ \A y : y # x => (IsSet(y)' <=> IsSet(y))
         /\ \A y, l : In(alarm', y, l) <=> In(alarm, y, l) \/ (y = x /\ l = n)
         /\ \A y, z : Before(alarm, y, z) => Before(alarm', y, z)
         /\ \A y : IsSet(y) => Before(alarm', y, x)
  <1>1. /\ AlarmsOK(LedAlarms)'
        /\ \A y, l : In(alarm', y, l) <=> In(alarm, y, l) \/ (y = x /\ l = n)
        /\ \A y, z : Before(alarm, y, z) => Before(alarm', y, z)
        /\ \A y, l : In(alarm, y, l) => Before(alarm', y, x)
    BY SetAlarm
  <1>2. \A y : IsSet(y) <=> \E l \in Nat : In(alarm, y, l)
    BY SetIsIn
  <1>3. \A y : IsSet(y)' <=> \E l \in Nat : In(alarm', y, l)
    BY <1>1, SetIsInNext
  <1>4. IsSet(x)'
    BY <1>1, <1>3
  <1>5. \A y : y # x => (IsSet(y)' <=> IsSet(y))
    BY <1>1, <1>2, <1>3
  <1>6. QED
    BY <1>1, <1>2, <1>4, <1>5

\* An alarm is served, and not set again.
LEMMA Served ==
  ASSUME AlarmsOK(LedAlarms), NEW x, Due(x), alarm' = Unserved
  PROVE  /\ AlarmsOK(LedAlarms)' /\ IsSet(x) /\ ~IsSet(x)'
         /\ \A y : y # x => (IsSet(y)' <=> IsSet(y))
         /\ In(alarm, x, 0)
         /\ \A y, l : In(alarm', y, l) <=> In(alarm, y, l) /\ y # x
         /\ \A y, z : Before(alarm, y, z) /\ y # x /\ z # x => Before(alarm', y, z)
         /\ \A y : Before(alarm, y, x) => ~In(alarm, y, 0)
  <1>1. /\ AlarmsOK(LedAlarms)' /\ In(alarm, x, 0)
        /\ \A y, l : In(alarm', y, l) <=> In(alarm, y, l) /\ y # x
        /\ \A y, z : Before(alarm, y, z) /\ y # x /\ z # x => Before(alarm', y, z)
        /\ \A y : Before(alarm, y, x) => ~In(alarm, y, 0)
    BY ServedAlarm
  <1>2. \A y : IsSet(y) <=> \E l \in Nat : In(alarm, y, l)
    BY SetIsIn
  <1>3. \A y : IsSet(y)' <=> \E l \in Nat : In(alarm', y, l)
    BY <1>1, SetIsInNext
  <1>4. IsSet(x) /\ ~IsSet(x)'
    BY <1>1, <1>2, <1>3
  <1>5. \A y : y # x => (IsSet(y)' <=> IsSet(y))
    BY <1>1, <1>2, <1>3
  <1>6. QED
    BY <1>1, <1>4, <1>5

\* An alarm is served and set again.
LEMMA Renewed ==
  ASSUME AlarmsOK(LedAlarms), NEW x \in LedAlarms, NEW n \in Nat, Due(x), Set(x, n)
  PROVE  /\ AlarmsOK(LedAlarms)'
         /\ \A y : IsSet(y)' <=> IsSet(y)
         /\ In(alarm, x, 0)
         /\ \A y, l : In(alarm', y, l) <=> (In(alarm, y, l) /\ y # x) \/ (y = x /\ l = n)
         /\ \A y, z : Before(alarm, y, z) /\ y # x /\ z # x => Before(alarm', y, z)
         /\ \A y : IsSet(y) /\ y # x => Before(alarm', y, x)
         /\ \A y : Before(alarm, y, x) => ~In(alarm, y, 0)
  <1>1. /\ AlarmsOK(LedAlarms)'
        /\ \A y, l : In(alarm', y, l) <=> (In(alarm, y, l) /\ y # x) \/ (y = x /\ l = n)
        /\ \A y, z : Before(alarm, y, z) /\ y # x /\ z # x => Before(alarm', y, z)
        /\ \A y, l : In(alarm, y, l) /\ y # x => Before(alarm', y, x)
    BY SetServed
  <1>2. \A y : IsSet(y) <=> \E l \in Nat : In(alarm, y, l)
    BY SetIsIn
  <1>3. \A y : IsSet(y)' <=> \E l \in Nat : In(alarm', y, l)
    BY <1>1, SetIsInNext
  <1>4. /\ In(alarm, x, 0)
        /\ \A y : Before(alarm, y, x) => ~In(alarm, y, 0)
    BY UnservedIs
  <1>5. \A y : IsSet(y)' <=> IsSet(y)
    <2>1. IsSet(x) /\ IsSet(x)'
      BY <1>1, <1>2, <1>3, <1>4
    <2>2. \A y : y # x => (IsSet(y)' <=> IsSet(y))
      BY <1>1, <1>2, <1>3
    <2>3. QED
      BY <2>1, <2>2
  <1>6. QED
    BY <1>1, <1>2, <1>4, <1>5

\* The clock ticks.
LEMMA Ticks ==
  ASSUME AlarmsOK(LedAlarms), Tick
  PROVE  /\ AlarmsOK(LedAlarms)' /\ ready' = ready /\ UNCHANGED period
         /\ \A x : IsSet(x)' <=> IsSet(x)
         /\ \A y : \A l \in Nat : In(alarm', y, l) <=> In(alarm, y, l + 1)
         /\ \A y, z : Before(alarm, y, z) => Before(alarm', y, z)
  <1>1. /\ AlarmsOK(LedAlarms)'
        /\ \A y : \A l \in Nat : In(alarm', y, l) <=> In(alarm, y, l + 1)
        /\ \A y, z : Before(alarm, y, z) => Before(alarm', y, z)
    BY TickAlarms
  <1>2. /\ \A y : IsSet(y) <=> \E l \in Nat : In(alarm, y, l)
        /\ \A y : ~In(alarm, y, 0)
    BY SetIsIn DEF Tick
  <1>3. \A y : IsSet(y)' <=> \E l \in Nat : In(alarm', y, l)
    BY <1>1, SetIsInNext
  <1>4. ASSUME NEW x, IsSet(x) PROVE IsSet(x)'
    <2>1. PICK l \in Nat : In(alarm, x, l)
      BY <1>2, <1>4
    <2>2. l # 0
      BY <1>2, <2>1
    <2>3. l - 1 \in Nat /\ l = (l - 1) + 1
      BY <2>2
    <2>4. In(alarm', x, l - 1)
      BY <1>1, <2>1, <2>3
    <2>5. QED
      BY <1>3, <2>3, <2>4
  <1>5. ASSUME NEW x, IsSet(x)' PROVE IsSet(x)
    <2>1. PICK l \in Nat : In(alarm', x, l)
      BY <1>3, <1>5
    <2>2. In(alarm, x, l + 1) /\ l + 1 \in Nat
      BY <1>1, <2>1
    <2>3. QED
      BY <1>2, <2>2
  <1>6. QED
    BY <1>1, <1>4, <1>5 DEF Tick

\* A thread that is made ready; in ratemon_cond_server Init goes to the front.
LEMMA Fronts ==
  /\ <<"Init">> \o <<>> = <<"Init">>
  /\ <<"Init">> \o <<"Server">> = <<"Init", "Server">>
  <1> DEFINE q == <<"Init">>
             r == <<"Server">>
             s == <<"Init", "Server">>
  <1>1. /\ q \in Seq(Threads) /\ r \in Seq(Threads) /\ s \in Seq(Threads)
        /\ Len(q) = 1 /\ Len(r) = 1 /\ Len(s) = 2
        /\ q[1] = "Init" /\ r[1] = "Server" /\ s[1] = "Init" /\ s[2] = "Server"
    <2>1. "Init" \in Threads /\ "Server" \in Threads
      BY DEF Threads
    <2>2. q \in Seq(Threads) /\ r \in Seq(Threads) /\ s \in Seq(Threads)
      BY <2>1
    <2>3. /\ Len(q) = 1 /\ Len(r) = 1 /\ Len(s) = 2
          /\ q[1] = "Init" /\ r[1] = "Server" /\ s[1] = "Init" /\ s[2] = "Server"
      OBVIOUS
    <2>4. QED
      BY <2>2, <2>3
  <1> HIDE DEF q, r, s
  <1>2. /\ q \o r \in Seq(Threads) /\ Len(q \o r) = 2
        /\ \A i \in 1 .. 2 : (q \o r)[i] = IF i <= 1 THEN q[i] ELSE r[i - 1]
    BY <1>1, ConcatProperties
  <1>3. (q \o r)[1] = s[1] /\ (q \o r)[2] = s[2]
    BY <1>1, <1>2
  <1>4. \A i \in 1 .. Len(q \o r) : (q \o r)[i] = s[i]
    BY <1>2, <1>3
  <1>5. q \o r = s
    BY <1>1, <1>2, <1>4, SeqEqual
  <1>6. q \o <<>> = q
    BY <1>1, ConcatEmptySeq
  <1>7. QED
    BY <1>5, <1>6 DEF q, r, s

LEMMA Enqueues ==
  ASSUME ready \in LinesOf("Init", "Server"), NEW t \in Threads, ~Up(t), Wakes(t),
         program \in LedPrograms
  PROVE  /\ ready' \in LinesOf("Init", "Server") /\ Up(t)'
         /\ Up(Other(t))' <=> Up(Other(t))
         /\ program # "ratemon_cond_server" \/ t # "Init" =>
              /\ First(Other(t))' <=> First(Other(t))
              /\ First(t)' <=> ~Up(Other(t))
  <1>1. CASE ~Outranks(t)
    BY <1>1, Joins DEF Wakes, Enqueue
  <1>2. CASE Outranks(t)
    <2>1. program = "ratemon_cond_server" /\ t = "Init"
      BY <1>2 DEF Outranks, LedPrograms, Text
    <2>2. ready' = <<"Init">> \o ready
      BY <1>2, <2>1 DEF Wakes, Enqueue
    <2>3. ready = <<>> \/ ready = <<"Server">>
      BY <2>1 DEF Up, IsReady, LinesOf, Other
    <2>4. \/ ready = <<>> /\ ready' = <<"Init">>
          \/ ready = <<"Server">> /\ ready' = <<"Init", "Server">>
      BY <2>2, <2>3, Fronts
    <2>5. QED
      BY <2>1, <2>4 DEF Up, IsReady, LinesOf, Other
  <1>3. QED
    BY <1>1, <1>2

-----------------------------------------------------------------------------
(* What each kind of step does to the places.                              *)

LEMMA PlacesSame ==
  ASSUME Places, UNCHANGED <<ready, alarm, blocked, awaiting>>
  PROVE  Places'
  BY DEF Places, AlarmsOK, Up, IsReady, IsSet, Waits, Other

\* Thread t sleeps.
LEMMA PlacesSleeps ==
  ASSUME Places, NEW t \in Threads, Runs(t), NEW n \in Nat, Sleeps(t, n), blocked' = blocked
  PROVE  /\ Places' /\ UNCHANGED period
         /\ ~Up(t)' /\ ~First(t)' /\ IsSet(t)' /\ blocked[t] = "no"
         /\ Up(Other(t))' <=> Up(Other(t))
         /\ First(Other(t))' <=> Up(Other(t))
         /\ \A x : x # t => (IsSet(x)' <=> IsSet(x))
         /\ \A x, l : In(alarm', x, l) <=> In(alarm, x, l) \/ (x = t /\ l = n)
         /\ \A x, y : Before(alarm, x, y) => Before(alarm', x, y)
  <1>1. /\ ready' = Tail(ready) /\ Set(t, n) /\ postponed' = postponed /\ awaiting' = awaiting
        /\ UNCHANGED period
    BY DEF Sleeps, Blocks, period
  <1>2. /\ AlarmsOK(LedAlarms) /\ ready \in LinesOf("Init", "Server") /\ t \in LedAlarms
        /\ Quiet /\ Up(t)
    BY InLine DEF Places, LedAlarms
  <1>3. ~IsSet(t) /\ blocked[t] = "no" /\ ~Waits(t)
    BY <1>2 DEF Places
  <1>4. /\ ready' \in LinesOf("Init", "Server")
        /\ ~Up(t)' /\ ~First(t)'
        /\ Up(Other(t))' <=> Up(Other(t))
        /\ First(Other(t))' <=> Up(Other(t))
    BY <1>1, <1>2, Leaves
  <1>5. /\ AlarmsOK(LedAlarms)' /\ IsSet(t)'
        /\ \A x : x # t => (IsSet(x)' <=> IsSet(x))
        /\ \A x, l : In(alarm', x, l) <=> In(alarm, x, l) \/ (x = t /\ l = n)
        /\ \A x, y : Before(alarm, x, y) => Before(alarm', x, y)
    BY <1>1, <1>2, <1>3, Sets
  <1>6. \A u : Waits(u)' <=> Waits(u)
    BY <1>1 DEF Waits
  <1>7. \A u \in Threads : u = t \/ u = Other(t)
    BY Others
  <1>8. Places'
    BY <1>1, <1>3, <1>4, <1>5, <1>6, <1>7 DEF Places
  <1>9. QED
    BY <1>1, <1>3, <1>4, <1>5, <1>8

\* Thread t waits for w, or for good.
LEMMA PlacesWaits ==
  ASSUME Places, NEW t \in Threads, Runs(t), Blocks(t), alarm' = alarm,
         NEW w \in Reasons, blocked' = [blocked EXCEPT ![t] = w]
  PROVE  /\ Places' /\ UNCHANGED period
         /\ ~Up(t)' /\ ~First(t)' /\ blocked[t] = "no" /\ blocked'[t] = w
         /\ blocked'[Other(t)] = blocked[Other(t)]
         /\ Up(Other(t))' <=> Up(Other(t))
         /\ First(Other(t))' <=> Up(Other(t))
         /\ \A x : IsSet(x)' <=> IsSet(x)
  <1>1. ready' = Tail(ready) /\ awaiting' = awaiting /\ UNCHANGED period
    BY DEF Blocks, period
  <1>2. ready \in LinesOf("Init", "Server") /\ Up(t)
    BY InLine DEF Places
  <1>3. ~IsSet(t) /\ blocked[t] = "no" /\ ~Waits(t)
    BY <1>2 DEF Places
  <1>4. /\ ready' \in LinesOf("Init", "Server")
        /\ ~Up(t)' /\ ~First(t)'
        /\ Up(Other(t))' <=> Up(Other(t))
        /\ First(Other(t))' <=> Up(Other(t))
    BY <1>1, <1>2, Leaves
  <1>5. /\ AlarmsOK(LedAlarms)'
        /\ \A x : IsSet(x)' <=> IsSet(x)
    BY SameAlarms DEF Places
  <1>6. \A u : Waits(u)' <=> Waits(u)
    BY <1>1 DEF Waits
  <1>7. /\ Other(t) \in Threads /\ Other(t) # t
        /\ \A u \in Threads : u = t \/ u = Other(t)
    BY Others
  <1>8. /\ blocked' \in [Threads -> Reasons] /\ blocked'[t] = w
        /\ blocked'[Other(t)] = blocked[Other(t)]
    BY <1>7 DEF Places
  <1>9. Places'
    BY <1>1, <1>3, <1>4, <1>5, <1>6, <1>7, <1>8 DEF Places
  <1>10. QED
    BY <1>1, <1>3, <1>4, <1>5, <1>8, <1>9

\* Thread t hands thread u, which waits, what it waits for.
LEMMA PlacesHand ==
  ASSUME Places, program \in LedPrograms, NEW t \in Threads, NEW u \in Threads, Runs(t),
         Hand(t, u), blocked[u] # "no", alarm' = alarm
  PROVE  /\ Places' /\ UNCHANGED period
         /\ u = Other(t) /\ blocked'[u] = "no" /\ blocked'[t] = "no" /\ blocked[t] = "no"
         /\ Up(t)' /\ Up(u)' /\ Up(t) /\ First(t) /\ ~Up(u) /\ ~IsSet(u) /\ ~IsSet(t)
         /\ program # "ratemon_cond_server" \/ u # "Init" => First(t)' /\ ~First(u)'
         /\ \A x : IsSet(x)' <=> IsSet(x)
  <1>1. /\ Wakes(u) /\ awaiting' = awaiting /\ UNCHANGED period
        /\ blocked' = [blocked EXCEPT ![u] = "no"]
    BY DEF Hand, GoesAndWakes, Wakes, period
  <1>2. ready \in LinesOf("Init", "Server") /\ Up(t) /\ First(t)
    BY InLine DEF Places
  <1>3. /\ blocked[t] = "no" /\ ~IsSet(t) /\ ~Waits(t)
        /\ ~Up(u) /\ ~IsSet(u) /\ ~Waits(u)
    BY <1>2 DEF Places
  <1>4. u = Other(t) /\ Other(u) = t /\ u # t
    BY <1>2, <1>3, Others
  <1>5. /\ ready' \in LinesOf("Init", "Server") /\ Up(u)'
        /\ Up(t)'
        /\ program # "ratemon_cond_server" \/ u # "Init" => First(t)' /\ ~First(u)'
    BY <1>1, <1>2, <1>3, <1>4, Enqueues
  <1>6. /\ AlarmsOK(LedAlarms)'
        /\ \A x : IsSet(x)' <=> IsSet(x)
    BY SameAlarms DEF Places
  <1>7. \A v : Waits(v)' <=> Waits(v)
    BY <1>1 DEF Waits
  <1>8. \A v \in Threads : v = t \/ v = u
    BY <1>4, Others
  <1>9. /\ blocked' \in [Threads -> Reasons] /\ blocked'[u] = "no" /\ blocked'[t] = "no"
    BY <1>1, <1>3, <1>4 DEF Places, Reasons
  <1>10. Places'
    BY <1>1, <1>3, <1>5, <1>6, <1>7, <1>8, <1>9 DEF Places
  <1>11. QED
    BY <1>1, <1>2, <1>3, <1>4, <1>5, <1>6, <1>9, <1>10

\* The sleep of thread t is over.
LEMMA PlacesWakes ==
  ASSUME Places, program \in LedPrograms, NEW t \in Threads, SleepIsOver(t), blocked' = blocked
  PROVE  /\ Places' /\ UNCHANGED period
         /\ ~Up(t) /\ Up(t)' /\ IsSet(t) /\ ~IsSet(t)' /\ blocked[t] = "no"
         /\ Up(Other(t))' <=> Up(Other(t))
         /\ program # "ratemon_cond_server" =>
              /\ First(Other(t))' <=> First(Other(t))
              /\ First(t)' <=> ~Up(Other(t))
         /\ \A x : x # t => (IsSet(x)' <=> IsSet(x))
         /\ In(alarm, t, 0)
         /\ \A y, l : In(alarm', y, l) <=> In(alarm, y, l) /\ y # t
         /\ \A y, z : Before(alarm, y, z) /\ y # t /\ z # t => Before(alarm', y, z)
  <1>1. /\ Due(t) /\ alarm' = Unserved /\ Wakes(t) /\ awaiting' = awaiting /\ UNCHANGED period
    BY DEF SleepIsOver, Serves, period
  <1>2. /\ AlarmsOK(LedAlarms)' /\ IsSet(t) /\ ~IsSet(t)'
        /\ \A x : x # t => (IsSet(x)' <=> IsSet(x))
        /\ In(alarm, t, 0)
        /\ \A y, l : In(alarm', y, l) <=> In(alarm, y, l) /\ y # t
        /\ \A y, z : Before(alarm, y, z) /\ y # t /\ z # t => Before(alarm', y, z)
    BY <1>1, Served DEF Places
  <1>3. ~Up(t) /\ blocked[t] = "no" /\ ~Waits(t) /\ ready \in LinesOf("Init", "Server")
    BY <1>2 DEF Places
  <1>4. /\ ready' \in LinesOf("Init", "Server") /\ Up(t)'
        /\ Up(Other(t))' <=> Up(Other(t))
        /\ program # "ratemon_cond_server" =>
             /\ First(Other(t))' <=> First(Other(t))
             /\ First(t)' <=> ~Up(Other(t))
    BY <1>1, <1>3, Enqueues
  <1>5. \A v : Waits(v)' <=> Waits(v)
    BY <1>1 DEF Waits
  <1>6. Other(t) # t /\ \A v \in Threads : v = t \/ v = Other(t)
    BY Others
  <1>7. Places'
    BY <1>1, <1>2, <1>3, <1>4, <1>5, <1>6 DEF Places
  <1>8. QED
    BY <1>1, <1>2, <1>3, <1>4, <1>7

\* A running thread sets a timer that is not set.
LEMMA PlacesSets ==
  ASSUME Places, NEW x \in {"Timer1", "Timer2"}, NEW n \in Nat, ~IsSet(x), Quiet, Set(x, n),
         UNCHANGED <<ready, blocked, awaiting>>
  PROVE  /\ Places' /\ IsSet(x)'
         /\ \A y : y # x => (IsSet(y)' <=> IsSet(y))
         /\ \A y, l : In(alarm', y, l) <=> In(alarm, y, l) \/ (y = x /\ l = n)
         /\ \A y, z : Before(alarm, y, z) => Before(alarm', y, z)
         /\ \A y : IsSet(y) => Before(alarm', y, x)
  <1>1. x \in LedAlarms /\ AlarmsOK(LedAlarms) /\ x \notin Threads
    BY DEF LedAlarms, Places, Threads
  <1>2. /\ AlarmsOK(LedAlarms)' /\ IsSet(x)'
        /\ \A y : y # x => (IsSet(y)' <=> IsSet(y))
        /\ \A y, l : In(alarm', y, l) <=> In(alarm, y, l) \/ (y = x /\ l = n)
        /\ \A y, z : Before(alarm, y, z) => Before(alarm', y, z)
        /\ \A y : IsSet(y) => Before(alarm', y, x)
    BY <1>1, Sets
  <1>3. \A t \in Threads : /\ IsSet(t)' <=> IsSet(t)
                           /\ Up(t)' <=> Up(t)
                           /\ Waits(t)' <=> Waits(t)
    BY <1>1, <1>2, Stays DEF Waits
  <1>4. Places'
    BY <1>2, <1>3 DEF Places
  <1>5. QED
    BY <1>2, <1>4

\* The interrupt serves a timer and sets it again.
LEMMA PlacesRenews ==
  ASSUME Places, NEW x \in {"Timer1", "Timer2"}, NEW n \in Nat, Due(x), Set(x, n),
         UNCHANGED <<ready, blocked, awaiting>>
  PROVE  /\ Places' /\ \A y : IsSet(y)' <=> IsSet(y)
         /\ In(alarm, x, 0)
         /\ \A y, l : In(alarm', y, l) <=> (In(alarm, y, l) /\ y # x) \/ (y = x /\ l = n)
         /\ \A y, z : Before(alarm, y, z) /\ y # x /\ z # x => Before(alarm', y, z)
         /\ \A y : IsSet(y) /\ y # x => Before(alarm', y, x)
         /\ \A y : Before(alarm, y, x) => ~In(alarm, y, 0)
  <1>1. x \in LedAlarms /\ AlarmsOK(LedAlarms)
    BY DEF LedAlarms, Places
  <1>2. /\ AlarmsOK(LedAlarms)' /\ \A y : IsSet(y)' <=> IsSet(y)
        /\ In(alarm, x, 0)
        /\ \A y, l : In(alarm', y, l) <=> (In(alarm, y, l) /\ y # x) \/ (y = x /\ l = n)
        /\ \A y, z : Before(alarm, y, z) /\ y # x /\ z # x => Before(alarm', y, z)
        /\ \A y : IsSet(y) /\ y # x => Before(alarm', y, x)
        /\ \A y : Before(alarm, y, x) => ~In(alarm, y, 0)
    BY <1>1, Renewed
  <1>3. \A t \in Threads : (Up(t)' <=> Up(t)) /\ (Waits(t)' <=> Waits(t))
    BY Stays DEF Waits
  <1>4. Places'
    BY <1>2, <1>3 DEF Places
  <1>5. QED
    BY <1>2, <1>4

LEMMA PlacesTicks ==
  ASSUME Places, Tick, blocked' = blocked
  PROVE  /\ Places' /\ UNCHANGED period
         /\ \A t : (Up(t)' <=> Up(t)) /\ (First(t)' <=> First(t))
         /\ \A x : IsSet(x)' <=> IsSet(x)
         /\ \A y : \A l \in Nat : In(alarm', y, l) <=> In(alarm, y, l + 1)
         /\ \A y, z : Before(alarm, y, z) => Before(alarm', y, z)
  <1>1. /\ AlarmsOK(LedAlarms)' /\ ready' = ready /\ UNCHANGED period
        /\ \A x : IsSet(x)' <=> IsSet(x)
        /\ \A y : \A l \in Nat : In(alarm', y, l) <=> In(alarm, y, l + 1)
        /\ \A y, z : Before(alarm, y, z) => Before(alarm', y, z)
    BY Ticks DEF Places
  <1>2. \A t : (Up(t)' <=> Up(t)) /\ (First(t)' <=> First(t))
    BY <1>1, Stays
  <1>3. \A t : Waits(t)' <=> Waits(t)
    BY <1>1 DEF Waits, period
  <1>4. Places'
    BY <1>1, <1>2, <1>3 DEF Places, period
  <1>5. QED
    BY <1>1, <1>2, <1>4

\* A thread calls for a period.
LEMMA PlacesPeriod ==
  ASSUME Places, NEW t \in Threads, NEW p \in Periods, NEW n \in Nat, Runs(t),
         CallPeriod(t, p, n), blocked' = blocked
  PROVE  Places'
  <1>1. /\ ready \in LinesOf("Init", "Server") /\ Up(t) /\ Quiet
        /\ blocked[t] = "no" /\ ~IsSet(t) /\ AlarmsOK(LedAlarms)
    BY InLine DEF Places
  <1>2. CASE ~IsSet(p) /\ Set(p, n) /\ UNCHANGED <<ready, period>>
    <2>1. p \in LedAlarms /\ p \notin Threads
      BY DEF LedAlarms, Periods, Threads
    <2>2. AlarmsOK(LedAlarms)' /\ \A u \in Threads : IsSet(u)' <=> IsSet(u)
      BY <1>1, <1>2, <2>1, Sets
    <2>3. \A u \in Threads : (Up(u)' <=> Up(u)) /\ (Waits(u)' <=> Waits(u))
      BY <1>2, Stays DEF Waits, period
    <2>4. QED
      BY <1>2, <2>2, <2>3 DEF Places, period
  <1>3. CASE UNCHANGED <<ready, alarm, awaiting>>
    BY <1>3, PlacesSame
  <1>4. CASE awaiting' = awaiting \cup {<<t, p>>} /\ ready' = Tail(ready) /\ alarm' = alarm
    <2>1. /\ ready' \in LinesOf("Init", "Server") /\ ~Up(t)'
          /\ Up(Other(t))' <=> Up(Other(t))
      BY <1>1, <1>4, Leaves
    <2>2. /\ AlarmsOK(LedAlarms)'
          /\ \A x : IsSet(x)' <=> IsSet(x)
      BY <1>1, <1>4, SameAlarms
    <2>3. Other(t) # t /\ \A u \in Threads : u = t \/ u = Other(t)
      BY Others
    <2>4. Waits(Other(t))' <=> Waits(Other(t))
      BY <1>4, <2>3 DEF Waits
    <2>5. awaiting' \subseteq Threads \X Periods
      BY <1>4 DEF Places
    <2>6. ASSUME NEW u \in Threads, NEW q \in Periods, NEW r \in Periods,
                 {<<u, q>>, <<u, r>>} \subseteq awaiting'
          PROVE  q = r
      BY <1>1, <1>4, <2>6 DEF Places, Waits
    <2>7. QED
      BY <1>1, <2>1, <2>2, <2>3, <2>4, <2>5, <2>6 DEF Places
  <1>5. QED
    BY <1>2, <1>3, <1>4 DEF CallPeriod

\* A period ends, and wakes Init if it waits for it.
LEMMA PlacesExpires ==
  ASSUME Places, program \in LedPrograms, NEW p \in Periods, NEW n \in Nat,
         PeriodEnds("Init", p, n), blocked' = blocked
  PROVE  Places'
  <1>1. p \in LedAlarms /\ p \notin Threads
    BY DEF LedAlarms, Periods, Threads
  <1>2. /\ AlarmsOK(LedAlarms) /\ ready \in LinesOf("Init", "Server")
        /\ Due(p) /\ Set(p, n) /\ awaiting' = awaiting \ {<<"Init", p>>}
    BY DEF PeriodEnds, Places
  <1>3. /\ AlarmsOK(LedAlarms)'
        /\ \A x : IsSet(x)' <=> IsSet(x)
    BY <1>1, <1>2, Renewed
  <1>4. awaiting' \subseteq Threads \X Periods /\ \A u : Waits(u)' => Waits(u)
    BY <1>2 DEF Places, Waits
  <1>5. CASE <<"Init", p>> \in awaiting
    <2>1. Wakes("Init") /\ Waits("Init")
      BY <1>5 DEF PeriodEnds, Waits
    <2>2. ~Up("Init") /\ ~IsSet("Init") /\ blocked["Init"] = "no" /\ "Init" \in Threads
      BY <2>1 DEF Places, Threads
    <2>3. /\ ready' \in LinesOf("Init", "Server") /\ Up("Init")'
          /\ Up(Other("Init"))' <=> Up(Other("Init"))
      BY <1>2, <2>1, <2>2, Enqueues
    <2>4. \A u \in Threads : u = "Init" \/ u = Other("Init")
      BY <2>2, Others
    <2>5. ~Waits("Init")'
      BY <1>2, <1>5, <2>2 DEF Places, Waits
    <2>6. \A u \in Threads : \A q, r \in Periods :
            {<<u, q>>, <<u, r>>} \subseteq awaiting' => q = r
      BY <1>2 DEF Places
    <2>7. QED
      BY <1>2, <1>3, <1>4, <2>2, <2>3, <2>4, <2>5, <2>6 DEF Places
  <1>6. CASE <<"Init", p>> \notin awaiting
    <2>1. ready' = ready
      BY <1>6 DEF PeriodEnds
    <2>2. \A u \in Threads : (Up(u)' <=> Up(u))
      BY <2>1, Stays
    <2>3. \A u \in Threads : \A q, r \in Periods :
            {<<u, q>>, <<u, r>>} \subseteq awaiting' => q = r
      BY <1>2 DEF Places
    <2>4. QED
      BY <1>2, <1>3, <1>4, <2>1, <2>2, <2>3 DEF Places
  <1>7. QED
    BY <1>5, <1>6

\* The interrupt leaves the timer server a timer, and wakes it if it waits.
LEMMA PlacesDue ==
  ASSUME Places, program \in LedPrograms, NEW x \in {"Timer1", "Timer2"}, Due(x),
         alarm' = Unserved, awaiting' = awaiting,
         IF blocked["Server"] = "timer"
           THEN blocked' = [blocked EXCEPT !["Server"] = "no"] /\ Wakes("Server")
           ELSE UNCHANGED <<blocked, ready>>
  PROVE  /\ Places' /\ IsSet(x) /\ ~IsSet(x)'
         /\ \A y : y # x => (IsSet(y)' <=> IsSet(y))
         /\ In(alarm, x, 0)
         /\ \A y, l : In(alarm', y, l) <=> In(alarm, y, l) /\ y # x
         /\ \A y, z : Before(alarm, y, z) /\ y # x /\ z # x => Before(alarm', y, z)
         /\ \A y : Before(alarm, y, x) => ~In(alarm, y, 0)
         /\ First("Init") => First("Init")'
         /\ IF blocked["Server"] = "timer" THEN Up("Server")' /\ blocked'["Server"] = "no"
                                           ELSE UNCHANGED <<blocked, ready>>
         /\ blocked'["Init"] = blocked["Init"]
  <1>1. /\ AlarmsOK(LedAlarms)' /\ IsSet(x) /\ ~IsSet(x)'
        /\ \A y : y # x => (IsSet(y)' <=> IsSet(y))
        /\ In(alarm, x, 0)
        /\ \A y, l : In(alarm', y, l) <=> In(alarm, y, l) /\ y # x
        /\ \A y, z : Before(alarm, y, z) /\ y # x /\ z # x => Before(alarm', y, z)
        /\ \A y : Before(alarm, y, x) => ~In(alarm, y, 0)
    BY Served DEF Places
  <1>2. \A t \in Threads : (IsSet(t)' <=> IsSet(t)) /\ (Waits(t)' <=> Waits(t))
    BY <1>1 DEF Waits, Threads
  <1>3. CASE blocked["Server"] = "timer"
    <2>1. /\ "Server" \in Threads /\ "Init" \in Threads
          /\ Other("Server") = "Init" /\ Other("Init") = "Server"
      BY DEF Threads, Other
    <2>2. ~Up("Server") /\ ~IsSet("Server") /\ ~Waits("Server") /\ ready \in LinesOf("Init", "Server")
      BY <1>3, <2>1 DEF Places
    <2>3. /\ ready' \in LinesOf("Init", "Server") /\ Up("Server")'
          /\ Up("Init")' <=> Up("Init")
          /\ First("Init")' <=> First("Init")
      BY <1>3, <2>1, <2>2, Enqueues
    <2>4. /\ blocked' \in [Threads -> Reasons] /\ blocked'["Server"] = "no"
          /\ blocked'["Init"] = blocked["Init"]
      BY <1>3, <2>1 DEF Places, Reasons
    <2>5. \A t \in Threads : t = "Init" \/ t = "Server"
      BY DEF Threads
    <2>6. Places'
      BY <1>1, <1>2, <2>2, <2>3, <2>4, <2>5 DEF Places
    <2>7. QED
      BY <1>1, <1>3, <2>3, <2>4, <2>6
  <1>4. CASE blocked["Server"] # "timer"
    <2>1. UNCHANGED <<blocked, ready>>
      BY <1>4
    <2>2. \A t : (Up(t)' <=> Up(t)) /\ (First(t)' <=> First(t))
      BY <2>1, Stays
    <2>3. Places'
      BY <1>1, <1>2, <2>1, <2>2 DEF Places
    <2>4. QED
      BY <1>1, <1>4, <2>1, <2>2, <2>3
  <1>5. QED
    BY <1>3, <1>4

LEMMA Advances == ASSUME NEW t, Advance(t) PROVE pc' = [pc EXCEPT ![t] = NextPc(t)]
  BY DEF Advance, NextPc

\* The clock does no more than this, but in the two programs with timers.
LEMMA ClockSteps ==
  ASSUME LedTick \/ LedInterrupt, program \notin {"timer", "timer_server"}
  PROVE  /\ UNCHANGED <<pc, blocked, count, events, queue, got, sem, due, doPrint, value,
                        readPrint, readValue, led, again, lost, raced>>
         /\ \/ Tick
            \/ \E t \in Threads : IsSet(t) /\ SleepIsOver(t)
            \/ \E p \in {"Period1", "Period2"} : IsSet(p) /\ PeriodEnds("Init", p, PeriodTicks)
  <1>1. \A x : Due(x) => IsSet(x)
    BY DEF Due, IsSet
  <1>2. QED
    BY <1>1 DEF LedTick, LedInterrupt, SleepEnds, PeriodExpires, TimerInterrupt, TimerExpires,
      SleepIsOver, Serves, PeriodEnds, thread, object, timer, lamp, history

LEMMA PeriodTicksNat == PeriodTicks \in Nat /\ TimerTicks \in Nat /\ TicksPerSecond \in Nat /\ PollTicks \in Nat
  BY LedAssumption DEF PeriodTicks, TimerTicks

LEMMA ClockKeepsPlaces ==
  ASSUME Places, LedTick \/ LedInterrupt, program \in LedPrograms \ {"timer", "timer_server"}
  PROVE  Places'
  <1>1. CASE Tick
    BY <1>1, ClockSteps, PlacesTicks
  <1>2. ASSUME NEW t \in Threads, SleepIsOver(t) PROVE Places'
    BY <1>2, ClockSteps, PlacesWakes
  <1>3. ASSUME NEW p \in {"Period1", "Period2"}, PeriodEnds("Init", p, PeriodTicks)
        PROVE  Places'
    <2>1. p \in Periods
      BY DEF Periods
    <2>2. QED
      BY <1>3, <2>1, ClockSteps, PlacesExpires, PeriodTicksNat
  <1>4. QED
    BY <1>1, <1>2, <1>3, ClockSteps

-----------------------------------------------------------------------------
(* A change sent to the server: event_server, msg_server and               *)
(* posix_message_server.                                                   *)

SendPrograms == {"event_server", "msg_server", "posix_message_server"}
Reason == IF program = "event_server" THEN "event" ELSE "message"
Colors == {"unknown", "off", "on"}

\* What Init sent last, and whether it is pending.
Sent == IF program = "event_server" THEN Lamp(1 - count["Init"]) ELSE 1 - count["Init"]
NonePending == events = {} /\ queue = <<>>
SentPending ==
  IF program = "event_server" THEN events = {Sent} /\ queue = <<>>
                              ELSE events = {} /\ queue = <<Sent>>
ServerAt(n, why) == pc["Server"] = n /\ blocked["Server"] = why
ToSend == First("Init") /\ pc["Init"] = 1

\* Either the server has shown what was sent last, or it is still to receive it or to
\* show it and Init does not run to send again: it sleeps, or is behind the server.
Toward ==
  \/ NonePending /\ (ServerAt(1, "no") \/ ServerAt(2, Reason)) /\ led # Lamp(count["Init"])
  \/ /\ \/ SentPending /\ ServerAt(1, "no")
        \/ NonePending /\ ServerAt(2, "no") /\ got = {Sent}
     /\ led # Lamp(1 - count["Init"]) /\ ~ToSend

SendInv ==
  /\ Places /\ pc \in [Threads -> 1 .. 2] /\ count \in [Threads -> 0 .. 1]
  /\ \A x : IsSet(x) => x = "Init"
  /\ Up("Init") <=> ~IsSet("Init")
  /\ blocked["Init"] = "no" /\ (Up("Server") <=> blocked["Server"] = "no")
  /\ ~First("Init") => pc["Init"] = 1
  /\ Toward
  /\ ~lost /\ ~again

LEMMA SendText ==
  ASSUME program \in SendPrograms
  PROVE  /\ DOMAIN Text[program] = Threads
         /\ Text[program]["Init"].loop = 1 /\ Text[program]["Server"].loop = 1
         /\ Len(Text[program]["Init"].ops) = 2 /\ Len(Text[program]["Server"].ops) = 2
         /\ Text[program]["Init"].ops[1] =
              IF program = "event_server" THEN "send_event" ELSE "send_message"
         /\ Text[program]["Init"].ops[2] = "sleep"
         /\ Text[program]["Server"].ops[1] =
              IF program = "event_server" THEN "receive_event" ELSE "receive_message"
         /\ Text[program]["Server"].ops[2] =
              IF program = "event_server" THEN "led_event" ELSE "led_message"
  BY DEF SendPrograms, Text, EventServer, MsgServer, PosixMessageServer, Loop, Threads

\* What the threads do, by where they are.
LEMMA SendSteps ==
  ASSUME SendInv, program \in SendPrograms, NEW t \in Threads, LedStep(t)
  PROVE  /\ Runs(t) /\ First(t) /\ Up(t)
         /\ NextPc(t) = 3 - pc[t]
         /\ \/ /\ t = "Init" /\ pc[t] = 1
               /\ IF program = "event_server" THEN SendEvent(t) ELSE SendMessage(t)
            \/ t = "Init" /\ pc[t] = 2 /\ Op(t) = "sleep" /\ Sleep(t)
            \/ /\ t = "Server" /\ pc[t] = 1
               /\ IF program = "event_server" THEN ReceiveEvent(t) ELSE ReceiveMessage(t)
            \/ /\ t = "Server" /\ pc[t] = 2
               /\ IF program = "event_server" THEN LedEvent(t) ELSE LedMessage(t)
  <1>1. /\ pc[t] \in 1 .. 2 /\ t \in {"Init", "Server"} /\ ready \in LinesOf("Init", "Server")
    BY DEF SendInv, Threads, Places
  <1>2. /\ t = "Init" /\ pc[t] = 1 =>
             Op(t) = IF program = "event_server" THEN "send_event" ELSE "send_message"
        /\ t = "Init" /\ pc[t] = 2 => Op(t) = "sleep"
        /\ t = "Server" /\ pc[t] = 1 =>
             Op(t) = IF program = "event_server" THEN "receive_event" ELSE "receive_message"
        /\ t = "Server" /\ pc[t] = 2 =>
             Op(t) = IF program = "event_server" THEN "led_event" ELSE "led_message"
    BY SendText DEF Op
  <1>3. NextPc(t) = 3 - pc[t]
    <2>1. Len(Text[program][t].ops) = 2 /\ Text[program][t].loop = 1
      BY <1>1, SendText
    <2>2. QED
      BY <1>1, <2>1 DEF NextPc
  <1>4. Runs(t) /\ First(t) /\ Up(t)
    BY <1>1, OpOf, InLine
  <1>5. CASE t = "Init" /\ pc[t] = 1
    BY <1>2, <1>3, <1>4, <1>5, OpOf
  <1>6. CASE t = "Init" /\ pc[t] = 2
    BY <1>2, <1>3, <1>4, <1>6, OpOf
  <1>7. CASE t = "Server" /\ pc[t] = 1
    BY <1>2, <1>3, <1>4, <1>7, OpOf
  <1>8. CASE t = "Server" /\ pc[t] = 2
    BY <1>2, <1>3, <1>4, <1>8, OpOf
  <1>9. QED
    BY <1>1, <1>5, <1>6, <1>7, <1>8

\* Init sends.
LEMMA SendSends ==
  ASSUME SendInv, program \in SendPrograms, program' = program, Runs("Init"), First("Init"),
         Up("Init"), pc["Init"] = 1, NextPc("Init") = 3 - pc["Init"],
         IF program = "event_server" THEN SendEvent("Init") ELSE SendMessage("Init")
  PROVE  SendInv'
  <1>1. /\ "Init" \in Threads /\ "Server" \in Threads
        /\ Other("Init") = "Server" /\ Other("Server") = "Init"
    BY DEF Threads, Other
  <1>2. /\ pc' = [pc EXCEPT !["Init"] = 2] /\ count' = [count EXCEPT !["Init"] = 1 - @]
        /\ UNCHANGED <<alarm, led, again>>
    BY Advances DEF SendEvent, SendMessage, Flip, lamp
  <1>3. /\ pc' \in [Threads -> 1 .. 2] /\ count' \in [Threads -> 0 .. 1]
        /\ pc'["Init"] = 2 /\ pc'["Server"] = pc["Server"]
        /\ 1 - count'["Init"] = count["Init"]
    BY <1>1, <1>2 DEF SendInv
  <1>4. /\ NonePending /\ (ServerAt(1, "no") \/ ServerAt(2, Reason)) /\ led # Lamp(count["Init"])
    BY DEF SendInv, Toward, ToSend
  <1>5. Sent' = IF program = "event_server" THEN Lamp(count["Init"]) ELSE count["Init"]
    BY <1>3 DEF Sent
  <1>6. /\ Reason' = Reason /\ Reason # "no" /\ (blocked["Server"] = Reason => ServerAt(2, Reason))
        /\ blocked["Server"] # Reason => ServerAt(1, "no")
    BY <1>4 DEF Reason, ServerAt
  <1>7. ~lost
    BY DEF SendInv
  <1>8. \/ /\ blocked["Server"] = Reason /\ Hand("Init", "Server")
           /\ got' = {Sent'} /\ NonePending' /\ ~lost'
        \/ /\ blocked["Server"] # Reason /\ Proceed("Init")
           /\ SentPending' /\ ~lost'
    <2>1. CASE program = "event_server"
      <3>1. SendEvent("Init") /\ Reason = "event" /\ Sent' = Lamp(count["Init"])
        BY <1>5, <2>1 DEF Reason
      <3>2. CASE blocked["Server"] = "event"
        <4>1. lost' = lost
          BY <3>1, <3>2 DEF SendEvent
        <4>2. ~lost'
          BY <1>7, <4>1, Zenon
        <4>3. QED
          BY <1>4, <3>1, <3>2, <4>2 DEF SendEvent, NonePending
      <3>3. CASE blocked["Server"] # "event"
        <4>1. /\ events' = events \cup {Lamp(count["Init"])} /\ lost' = (lost \/ events # {})
              /\ Proceed("Init") /\ queue' = queue
          BY <3>1, <3>3 DEF SendEvent
        <4>2. events' = {Sent'} /\ queue' = <<>>
          BY <1>4, <3>1, <4>1 DEF NonePending
        <4>3. SentPending'
          BY <2>1, <4>2 DEF SentPending
        <4>4. ~lost'
          BY <1>4, <1>7, <4>1, Zenon DEF NonePending
        <4>5. QED
          BY <3>1, <3>3, <4>1, <4>3, <4>4
      <3>4. QED
        BY <3>2, <3>3
    <2>2. CASE program # "event_server"
      <3>1. SendMessage("Init") /\ Reason = "message" /\ Sent' = count["Init"]
        BY <1>5, <2>2 DEF Reason
      <3>2. CASE blocked["Server"] = "message"
        <4>1. lost' = lost
          BY <3>1, <3>2 DEF SendMessage
        <4>2. ~lost'
          BY <1>7, <4>1, Zenon
        <4>3. QED
          BY <1>4, <3>1, <3>2, <4>2 DEF SendMessage, NonePending
      <3>3. CASE blocked["Server"] # "message"
        <4>1. Len(queue) < QueueSize
          BY <1>4 DEF NonePending, QueueSize
        <4>2. /\ queue' = Append(queue, count["Init"]) /\ lost' = lost
              /\ Proceed("Init") /\ events' = events
          BY <3>1, <3>3, <4>1 DEF SendMessage
        <4>3. queue' = <<Sent'>> /\ events' = {}
          BY <1>4, <3>1, <4>2 DEF NonePending
        <4>4. SentPending'
          BY <2>2, <4>3 DEF SentPending
        <4>5. ~lost'
          BY <1>7, <4>2, Zenon
        <4>6. QED
          BY <3>1, <3>3, <4>2, <4>4, <4>5
      <3>4. QED
        BY <3>2, <3>3
    <2>3. QED
      BY <2>1, <2>2
  <1>9. led' # Lamp(1 - count'["Init"]) /\ ~ToSend'
    BY <1>2, <1>3, <1>4 DEF ToSend
  <1>10. ~again'
    BY <1>2, Zenon DEF SendInv
  <1>11. CASE blocked["Server"] = Reason
    <2>1. /\ Hand("Init", "Server") /\ got' = {Sent'} /\ NonePending' /\ ~lost'
      BY <1>8, <1>11, Zenon
    <2>2. program \in LedPrograms
      BY DEF SendPrograms, LedPrograms, Text
    <2>3. /\ Places' /\ blocked'["Server"] = "no" /\ blocked'["Init"] = "no"
          /\ Up("Init")' /\ Up("Server")'
          /\ \A x : IsSet(x)' <=> IsSet(x)
          /\ First("Init")'
      BY <1>1, <1>2, <1>6, <1>11, <2>1, <2>2, PlacesHand DEF SendInv
    <2>4. ServerAt(2, "no")'
      BY <1>3, <1>6, <1>11, <2>3 DEF ServerAt
    <2>5. Toward'
      BY <1>9, <2>1, <2>4 DEF Toward
    <2>6. QED
      BY <1>3, <1>10, <2>1, <2>3, <2>5 DEF SendInv
  <1>12. CASE blocked["Server"] # Reason
    <2>1. Proceed("Init") /\ SentPending' /\ ~lost'
      BY <1>8, <1>12
    <2>2. UNCHANGED <<ready, blocked, awaiting>>
      BY <2>1 DEF Proceed, Goes, period
    <2>3. Places' /\ \A x : IsSet(x)' <=> IsSet(x)
      BY <1>2, <2>2, PlacesSame, SameAlarms DEF SendInv
    <2>4. \A t : (Up(t)' <=> Up(t)) /\ (First(t)' <=> First(t))
      BY <2>2, Stays
    <2>5. ServerAt(1, "no")'
      BY <1>3, <1>6, <1>12, <2>2 DEF ServerAt
    <2>6. Toward'
      BY <1>9, <2>1, <2>5 DEF Toward
    <2>7. QED
      BY <1>3, <1>10, <2>1, <2>2, <2>3, <2>4, <2>6 DEF SendInv
  <1>13. QED
    BY <1>11, <1>12

\* Init sleeps.
LEMMA SendSleeps ==
  ASSUME SendInv, program \in SendPrograms, program' = program, Runs("Init"), First("Init"),
         pc["Init"] = 2, NextPc("Init") = 3 - pc["Init"], Op("Init") = "sleep", Sleep("Init")
  PROVE  SendInv'
  <1>1. /\ "Init" \in Threads /\ Other("Init") = "Server"
    BY DEF Threads, Other
  <1>2. /\ Sleeps("Init", TicksPerSecond) /\ pc' = [pc EXCEPT !["Init"] = 1]
        /\ UNCHANGED <<blocked, count, events, queue, got, led, again, lost>>
    BY Advances DEF Sleep, At, Op, object, lamp, history
  <1>3. /\ Places' /\ ~Up("Init")' /\ ~First("Init")' /\ IsSet("Init")'
        /\ Up("Server")' <=> Up("Server")
        /\ \A x : x # "Init" => (IsSet(x)' <=> IsSet(x))
    BY <1>1, <1>2, PlacesSleeps, PeriodTicksNat DEF SendInv
  <1>4. /\ pc' \in [Threads -> 1 .. 2] /\ pc'["Init"] = 1 /\ pc'["Server"] = pc["Server"]
        /\ count' \in [Threads -> 0 .. 1]
    BY <1>2 DEF SendInv, Threads
  <1>5. Toward'
    BY <1>2, <1>3, <1>4 DEF SendInv, Toward, NonePending, SentPending, ServerAt, Sent, Reason, ToSend
  <1>6. ~lost' /\ ~again'
    BY <1>2, Zenon DEF SendInv
  <1>7. QED
    BY <1>2, <1>3, <1>4, <1>5, <1>6 DEF SendInv

\* The server receives, or waits.
LEMMA SendReceives ==
  ASSUME SendInv, program \in SendPrograms, program' = program, Runs("Server"), First("Server"),
         Up("Server"), pc["Server"] = 1, NextPc("Server") = 3 - pc["Server"],
         IF program = "event_server" THEN ReceiveEvent("Server") ELSE ReceiveMessage("Server")
  PROVE  SendInv'
  <1>1. /\ "Server" \in Threads /\ "Init" \in Threads
        /\ Other("Server") = "Init" /\ Other("Init") = "Server"
    BY DEF Threads, Other
  <1>2. /\ pc' = [pc EXCEPT !["Server"] = 2]
        /\ UNCHANGED <<alarm, count, led, again, lost>>
    BY Advances DEF ReceiveEvent, ReceiveMessage, lamp, history
  <1>3. /\ pc' \in [Threads -> 1 .. 2] /\ pc'["Server"] = 2 /\ pc'["Init"] = pc["Init"]
        /\ count' \in [Threads -> 0 .. 1]
    BY <1>1, <1>2 DEF SendInv
  <1>4. ~lost' /\ ~again'
    BY <1>2, Zenon DEF SendInv
  <1>5. /\ Sent' = Sent /\ Reason' = Reason /\ Reason \in Reasons /\ Reason # "no"
        /\ blocked["Server"] = "no" /\ ~First("Init")
    BY <1>1, <1>2, InLine DEF Sent, Reason, Reasons, SendInv, Places
  <1>6. \/ /\ NonePending /\ led # Lamp(count["Init"]) /\ NonePending'
           /\ WaitFor("Server", Reason)
        \/ /\ SentPending /\ led # Lamp(1 - count["Init"]) /\ NonePending'
           /\ got' = {Sent} /\ Proceed("Server")
    <2>1. CASE program = "event_server"
      <3>1. ReceiveEvent("Server") /\ Reason = "event"
        BY <2>1 DEF Reason
      <3>2. CASE events = {}
        BY <2>1, <3>1, <3>2 DEF SendInv, Toward, ServerAt, ReceiveEvent, NonePending, SentPending
      <3>3. CASE events # {}
        <4>1. SentPending /\ led # Lamp(1 - count["Init"])
          BY <3>3, <1>5 DEF SendInv, Toward, ServerAt, NonePending
        <4>2. events = {Sent} /\ queue = <<>>
          BY <2>1, <4>1 DEF SentPending
        <4>3. got' = events /\ events' = {} /\ Proceed("Server") /\ queue' = queue
          BY <3>1, <3>3 DEF ReceiveEvent
        <4>4. QED
          BY <4>1, <4>2, <4>3 DEF NonePending
      <3>4. QED
        BY <3>2, <3>3
    <2>2. CASE program # "event_server"
      <3>1. ReceiveMessage("Server") /\ Reason = "message"
        BY <2>2 DEF Reason
      <3>2. CASE queue = <<>>
        BY <2>2, <3>1, <3>2 DEF SendInv, Toward, ServerAt, ReceiveMessage, NonePending, SentPending
      <3>3. CASE queue # <<>>
        <4>1. SentPending /\ led # Lamp(1 - count["Init"])
          BY <3>3, <1>5 DEF SendInv, Toward, ServerAt, NonePending
        <4>2. queue = <<Sent>> /\ events = {}
          BY <2>2, <4>1 DEF SentPending
        <4>3. /\ got' = {Head(queue)} /\ queue' = Tail(queue) /\ Proceed("Server") /\ events' = events
          BY <3>1, <3>3 DEF ReceiveMessage
        <4>4. Head(queue) = Sent /\ Tail(queue) = <<>>
          BY <4>2
        <4>5. QED
          BY <4>1, <4>2, <4>3, <4>4 DEF NonePending
      <3>4. QED
        BY <3>2, <3>3
    <2>3. QED
      BY <2>1, <2>2
  <1>7. CASE NonePending' /\ WaitFor("Server", Reason) /\ led # Lamp(count["Init"])
    <2>1. /\ Places' /\ ~Up("Server")' /\ blocked'["Server"] = Reason
          /\ blocked'["Init"] = blocked["Init"]
          /\ Up("Init")' <=> Up("Init")
          /\ First("Init")' <=> Up("Init")
          /\ \A x : IsSet(x)' <=> IsSet(x)
      <3>1. /\ Places /\ Runs("Server") /\ Blocks("Server") /\ alarm' = alarm
            /\ blocked' = [blocked EXCEPT !["Server"] = Reason]
        BY <1>2, <1>7 DEF WaitFor, SendInv
      <3>2. QED
        BY <1>1, <1>5, <3>1, PlacesWaits
    <2>2. Toward'
      BY <1>2, <1>3, <1>5, <1>7, <2>1 DEF Toward, ServerAt
    <2>3. ~First("Init")' => pc'["Init"] = 1
      BY <1>3, <1>5 DEF SendInv
    <2>4. /\ Up("Init")' <=> ~IsSet("Init")'
          /\ blocked'["Init"] = "no" /\ (Up("Server")' <=> blocked'["Server"] = "no")
          /\ \A x : IsSet(x)' => x = "Init"
      BY <1>5, <2>1 DEF SendInv
    <2>5. QED
      BY <1>3, <1>4, <2>1, <2>2, <2>3, <2>4 DEF SendInv
  <1>8. CASE NonePending' /\ got' = {Sent} /\ Proceed("Server") /\ led # Lamp(1 - count["Init"])
    <2>1. UNCHANGED <<ready, blocked, awaiting>>
      BY <1>8 DEF Proceed, Goes, period
    <2>2. Places' /\ \A x : IsSet(x)' <=> IsSet(x)
      BY <1>2, <2>1, PlacesSame, SameAlarms DEF SendInv
    <2>3. \A t : (Up(t)' <=> Up(t)) /\ (First(t)' <=> First(t))
      BY <2>1, Stays
    <2>4. Toward'
      BY <1>2, <1>3, <1>5, <1>8, <2>1, <2>3 DEF Toward, ServerAt, ToSend
    <2>5. QED
      BY <1>3, <1>4, <1>5, <2>1, <2>2, <2>3, <2>4 DEF SendInv
  <1>9. QED
    BY <1>6, <1>7, <1>8

\* The server shows what it received.
LEMMA SendShows ==
  ASSUME SendInv, program \in SendPrograms, program' = program, Runs("Server"), First("Server"),
         Up("Server"), pc["Server"] = 2, NextPc("Server") = 3 - pc["Server"],
         IF program = "event_server" THEN LedEvent("Server") ELSE LedMessage("Server")
  PROVE  SendInv'
  <1>1. /\ "Server" \in Threads /\ "Init" \in Threads
        /\ Other("Server") = "Init" /\ Other("Init") = "Server"
    BY DEF Threads, Other
  <1>2. /\ pc' = [pc EXCEPT !["Server"] = 1]
        /\ UNCHANGED <<alarm, count, events, queue, lost>> /\ Proceed("Server")
    BY Advances DEF LedEvent, LedMessage, object, history
  <1>3. /\ pc' \in [Threads -> 1 .. 2] /\ pc'["Server"] = 1 /\ pc'["Init"] = pc["Init"]
        /\ count' \in [Threads -> 0 .. 1]
    BY <1>1, <1>2 DEF SendInv
  <1>4. blocked["Server"] = "no" /\ ~First("Init")
    BY <1>1, InLine DEF SendInv, Places
  <1>5. NonePending /\ got = {Sent} /\ led # Lamp(1 - count["Init"])
    BY <1>4 DEF SendInv, Toward, ServerAt, Reason
  <1>6. Drive(Lamp(1 - count["Init"]))
    <2>1. CASE program = "event_server"
      <3>1. got = {Lamp(1 - count["Init"])}
        BY <1>5, <2>1 DEF Sent
      <3>2. QED
        BY <2>1, <3>1 DEF LedEvent
    <2>2. CASE program # "event_server"
      <3>1. got = {1 - count["Init"]}
        BY <1>5, <2>2 DEF Sent
      <3>2. QED
        BY <2>2, <3>1 DEF LedMessage
    <2>3. QED
      BY <2>1, <2>2
  <1>7. led' = Lamp(1 - count["Init"]) /\ again' = (again \/ led = Lamp(1 - count["Init"]))
    BY <1>6 DEF Drive
  <1>8. led' # Lamp(count'["Init"])
    BY <1>1, <1>2, <1>7 DEF Lamp, SendInv
  <1>9. ~lost' /\ ~again'
    BY <1>2, <1>5, <1>7, Zenon DEF SendInv
  <1>10. UNCHANGED <<ready, blocked, awaiting>>
    BY <1>2 DEF Proceed, Goes, period
  <1>11. Places' /\ \A x : IsSet(x)' <=> IsSet(x)
    BY <1>2, <1>10, PlacesSame, SameAlarms DEF SendInv
  <1>12. \A t : (Up(t)' <=> Up(t)) /\ (First(t)' <=> First(t))
    BY <1>10, Stays
  <1>13. Toward'
    BY <1>2, <1>3, <1>4, <1>5, <1>8, <1>10 DEF Toward, ServerAt, NonePending
  <1>14. QED
    BY <1>3, <1>4, <1>9, <1>10, <1>11, <1>12, <1>13 DEF SendInv

LEMMA SendKeeps ==
  ASSUME SendInv, program \in SendPrograms, LedNext
  PROVE  SendInv'
  <1>1. /\ "Init" \in Threads /\ "Server" \in Threads
        /\ Other("Server") = "Init" /\ Other("Init") = "Server" /\ program' = program
        /\ program \in LedPrograms \ {"timer", "timer_server"} /\ program # "ratemon_cond_server"
    BY DEF Threads, Other, LedNext, SendPrograms
  <1>2. ASSUME NEW t \in Threads, LedStep(t) PROVE SendInv'
    BY <1>1, <1>2, SendSteps, SendSends, SendSleeps, SendReceives, SendShows
  <1>3. CASE LedTick \/ LedInterrupt
    <2>1. /\ Places'
          /\ UNCHANGED <<pc, blocked, count, events, queue, got, led, again, lost>>
      BY <1>1, <1>3, ClockSteps, ClockKeepsPlaces DEF SendInv
    <2>2. ~lost' /\ ~again'
      BY <2>1, Zenon DEF SendInv
    <2>3. /\ NonePending' <=> NonePending
          /\ SentPending' <=> SentPending
          /\ \A n, why : ServerAt(n, why)' <=> ServerAt(n, why)
          /\ Sent' = Sent /\ Reason' = Reason
      BY <1>1, <2>1 DEF NonePending, SentPending, ServerAt, Sent, Reason
    <2>4. CASE Tick
      <3>1. /\ \A t : (Up(t)' <=> Up(t)) /\ (First(t)' <=> First(t))
            /\ \A x : IsSet(x)' <=> IsSet(x)
        BY <2>1, <2>4, PlacesTicks DEF SendInv
      <3>2. Toward'
        BY <2>1, <2>3, <3>1 DEF SendInv, Toward, ToSend
      <3>3. QED
        BY <2>1, <2>2, <3>1, <3>2 DEF SendInv
    <2>5. ASSUME NEW t \in Threads, IsSet(t), SleepIsOver(t) PROVE SendInv'
      <3>1. t = "Init"
        BY <2>5 DEF SendInv
      <3>2. /\ ~Up("Init") /\ Up("Init")' /\ ~IsSet("Init")'
            /\ Up("Server")' <=> Up("Server")
            /\ First("Init")' <=> ~Up("Server")
            /\ \A x : x # "Init" => (IsSet(x)' <=> IsSet(x))
        BY <1>1, <2>1, <2>5, <3>1, PlacesWakes DEF SendInv
      <3>3. ~First("Init")
        BY <1>1, <3>2, InLine DEF SendInv, Places
      <3>4. pc'["Init"] = 1
        BY <2>1, <3>3 DEF SendInv
      <3>5. Toward'
        BY <2>1, <2>3, <3>2 DEF SendInv, Toward, ToSend, ServerAt, Reason
      <3>6. QED
        BY <2>1, <2>2, <3>2, <3>4, <3>5 DEF SendInv
    <2>6. \A p \in {"Period1", "Period2"} : ~IsSet(p)
      BY DEF SendInv
    <2>7. QED
      BY <1>1, <1>3, <2>4, <2>5, <2>6, ClockSteps
  <1>4. QED
    BY <1>2, <1>3 DEF LedNext

-----------------------------------------------------------------------------
(* The condition variable: posix_cond_server, and ratemon_cond_server,     *)
(* where a signal may find nobody waiting.                                 *)

\* When Init runs to signal, the server waits.
CondInv ==
  /\ Places /\ pc \in [Threads -> 1 .. 2] /\ count \in [Threads -> 0 .. 1]
  /\ ~IsSet("Server")
  /\ Up("Server") <=> blocked["Server"] = "no"
  /\ ~First("Init") => pc["Init"] = 2
  /\ blocked["Server"] # "no" => ServerAt(2, "condition")
  /\ First("Init") /\ pc["Init"] = 2 => blocked["Server"] # "no"
  /\ \A p \in Periods : ~IsSet(p)
  /\ led # Lamp(count["Server"])
  /\ ~lost /\ ~again

RatemonCondInv ==
  /\ Places /\ pc \in [Threads -> 1 .. 2] /\ count \in [Threads -> 0 .. 1]
  /\ led # Lamp(count["Server"])
  /\ ~again

CondPrograms == {"posix_cond_server", "ratemon_cond_server"}

LEMMA CondText ==
  ASSUME program \in CondPrograms
  PROVE  /\ DOMAIN Text[program] = Threads
         /\ Text[program]["Init"].loop = 1 /\ Text[program]["Server"].loop = 1
         /\ Len(Text[program]["Init"].ops) = 2 /\ Len(Text[program]["Server"].ops) = 2
         /\ Text[program]["Init"].ops[1] =
              IF program = "posix_cond_server" THEN "sleep" ELSE "period_1"
         /\ Text[program]["Init"].ops[2] = "signal"
         /\ Text[program]["Server"].ops[1] = "wait"
         /\ Text[program]["Server"].ops[2] = "led_count"
  BY DEF CondPrograms, Text, PosixCondServer, RatemonCondServer, Loop, Threads

LEMMA CondSteps ==
  ASSUME Places, pc \in [Threads -> 1 .. 2], program \in CondPrograms,
         NEW t \in Threads, LedStep(t)
  PROVE  /\ Runs(t) /\ First(t) /\ Up(t) /\ NextPc(t) = 3 - pc[t]
         /\ \/ /\ t = "Init" /\ pc[t] = 1
               /\ IF program = "posix_cond_server" THEN Op(t) = "sleep" /\ Sleep(t)
                                                   ELSE Period(t, "Period1", "period_1")
            \/ t = "Init" /\ pc[t] = 2 /\ Signal(t)
            \/ t = "Server" /\ pc[t] = 1 /\ Wait(t)
            \/ t = "Server" /\ pc[t] = 2 /\ LedCount(t)
  <1>1. pc[t] \in 1 .. 2 /\ t \in {"Init", "Server"} /\ ready \in LinesOf("Init", "Server")
    BY DEF Threads, Places
  <1>2. /\ t = "Init" /\ pc[t] = 1 =>
             Op(t) = IF program = "posix_cond_server" THEN "sleep" ELSE "period_1"
        /\ t = "Init" /\ pc[t] = 2 => Op(t) = "signal"
        /\ t = "Server" /\ pc[t] = 1 => Op(t) = "wait"
        /\ t = "Server" /\ pc[t] = 2 => Op(t) = "led_count"
    BY CondText DEF Op
  <1>3. NextPc(t) = 3 - pc[t]
    <2>1. Len(Text[program][t].ops) = 2 /\ Text[program][t].loop = 1
      BY <1>1, CondText
    <2>2. QED
      BY <1>1, <2>1 DEF NextPc
  <1>4. Runs(t) /\ First(t) /\ Up(t)
    BY <1>1, OpOf, InLine
  <1>5. CASE t = "Init" /\ pc[t] = 1
    BY <1>2, <1>3, <1>4, <1>5, OpOf
  <1>6. CASE t = "Init" /\ pc[t] = 2
    BY <1>2, <1>3, <1>4, <1>6, OpOf
  <1>7. CASE t = "Server" /\ pc[t] = 1
    BY <1>2, <1>3, <1>4, <1>7, OpOf
  <1>8. CASE t = "Server" /\ pc[t] = 2
    BY <1>2, <1>3, <1>4, <1>8, OpOf
  <1>9. QED
    BY <1>1, <1>5, <1>6, <1>7, <1>8

LEMMA LampTurns ==
  \A n \in 0 .. 1 : /\ Lamp(n) # Lamp(1 - n) /\ 1 - n \in 0 .. 1
                    /\ Lamp(n) \in {"off", "on"}
  BY DEF Lamp

\* A step that leaves the line and the alarms alone.
LEMMA Proceeds ==
  ASSUME Places, NEW t, Proceed(t), alarm' = alarm
  PROVE  /\ Places' /\ UNCHANGED <<ready, blocked, period>>
         /\ \A x : IsSet(x)' <=> IsSet(x)
         /\ \A u : (Up(u)' <=> Up(u)) /\ (First(u)' <=> First(u))
  <1>1. UNCHANGED <<ready, blocked, awaiting, period>>
    BY DEF Proceed, Goes, period
  <1>2. QED
    BY <1>1, PlacesSame, SameAlarms, Stays

LEMMA RatemonCondKeeps ==
  ASSUME RatemonCondInv, program = "ratemon_cond_server", LedNext
  PROVE  RatemonCondInv'
  <1>1. /\ "Init" \in Threads /\ "Server" \in Threads /\ Other("Init") = "Server"
        /\ program \in CondPrograms /\ program' = program /\ "Period1" \in Periods
        /\ program \in LedPrograms \ {"timer", "timer_server"}
    BY DEF Threads, Other, LedNext, CondPrograms, Periods
  <1>2. CASE LedTick \/ LedInterrupt
    <2>1. Places' /\ UNCHANGED <<pc, count, led, again>>
      BY <1>1, <1>2, ClockSteps, ClockKeepsPlaces DEF RatemonCondInv
    <2>2. ~again'
      BY <2>1, Zenon DEF RatemonCondInv
    <2>3. QED
      BY <2>1, <2>2 DEF RatemonCondInv
  <1>3. ASSUME NEW t \in Threads, LedStep(t) PROVE RatemonCondInv'
    <2>1. /\ Runs(t) /\ NextPc(t) = 3 - pc[t] /\ Places
          /\ \/ t = "Init" /\ Period(t, "Period1", "period_1")
             \/ t = "Init" /\ Signal(t)
             \/ t = "Server" /\ Wait(t)
             \/ t = "Server" /\ LedCount(t)
      BY <1>1, <1>3, CondSteps DEF RatemonCondInv
    <2>2. pc' \in [Threads -> 1 .. 2]
      <3>1. Advance(t)
        BY <2>1 DEF Period, Signal, Wait, LedCount
      <3>2. QED
        BY <2>1, <3>1, Advances DEF RatemonCondInv
    <2>3. CASE t = "Server" /\ LedCount(t)
      <3>1. Places'
        BY <2>1, <2>3, Proceeds DEF LedCount
      <3>2. /\ count' = [count EXCEPT !["Server"] = 1 - @] /\ led' = Lamp(count["Server"])
            /\ again' = (again \/ led = Lamp(count["Server"]))
        BY <2>3 DEF LedCount, Flip, Drive
      <3>3. count' \in [Threads -> 0 .. 1] /\ led' # Lamp(count'["Server"])
        BY <1>1, <3>2, LampTurns DEF RatemonCondInv
      <3>4. ~again'
        BY <3>2, Zenon DEF RatemonCondInv
      <3>5. QED
        BY <2>2, <3>1, <3>3, <3>4 DEF RatemonCondInv
    <2>4. CASE \/ Period(t, "Period1", "period_1")
               \/ t = "Init" /\ Signal(t)
               \/ Wait(t)
      <3>1. UNCHANGED <<count, led, again>>
        BY <2>4 DEF Period, Signal, Wait, lamp
      <3>2. ~again'
        BY <3>1, Zenon DEF RatemonCondInv
      <3>3. ASSUME Period(t, "Period1", "period_1") PROVE Places'
        <4>1. CallPeriod(t, "Period1", PeriodTicks) /\ blocked' = blocked
          BY <3>3 DEF Period
        <4>2. QED
          BY <1>1, <2>1, <4>1, PlacesPeriod, PeriodTicksNat
      <3>4. ASSUME Wait(t) PROVE Places'
        <4>1. /\ Blocks(t) /\ alarm' = alarm /\ blocked' = [blocked EXCEPT ![t] = "condition"]
              /\ "condition" \in Reasons
          BY <3>4 DEF Wait, WaitFor, Reasons
        <4>2. QED
          BY <2>1, <4>1, PlacesWaits
      <3>5. ASSUME t = "Init", Signal(t) PROVE Places'
        <4>1. CASE blocked["Server"] = "condition"
          <5>1. Hand(t, "Server") /\ alarm' = alarm /\ blocked["Server"] # "no"
            BY <3>5, <4>1 DEF Signal
          <5>2. QED
            BY <1>1, <2>1, <5>1, PlacesHand
        <4>2. CASE blocked["Server"] # "condition"
          <5>1. Proceed(t) /\ alarm' = alarm
            BY <3>5, <4>2 DEF Signal
          <5>2. QED
            BY <2>1, <5>1, Proceeds
        <4>3. QED
          BY <4>1, <4>2
      <3>6. Places'
        BY <2>1, <2>4, <3>3, <3>4, <3>5
      <3>7. QED
        BY <2>2, <3>1, <3>2, <3>6 DEF RatemonCondInv
    <2>5. QED
      BY <2>1, <2>3, <2>4
  <1>4. QED
    BY <1>2, <1>3 DEF LedNext

LEMMA CondKeepsSteps ==
  ASSUME CondInv, program = "posix_cond_server", program' = program, NEW t \in Threads,
         LedStep(t)
  PROVE  CondInv'
  <1>1. /\ "Init" \in Threads /\ "Server" \in Threads /\ program \in LedPrograms
        /\ Other("Init") = "Server" /\ Other("Server") = "Init" /\ program \in CondPrograms
    BY DEF Threads, Other, CondPrograms, LedPrograms, Text
  <1>2. Places /\ ready \in LinesOf("Init", "Server")
    BY DEF CondInv, Places
  <1>3. /\ Runs(t) /\ First(t) /\ Up(t) /\ NextPc(t) = 3 - pc[t]
        /\ \/ t = "Init" /\ pc[t] = 1 /\ Op(t) = "sleep" /\ Sleep(t)
           \/ t = "Init" /\ pc[t] = 2 /\ Signal(t)
           \/ t = "Server" /\ pc[t] = 1 /\ Wait(t)
           \/ t = "Server" /\ pc[t] = 2 /\ LedCount(t)
    BY <1>1, <1>2, CondSteps DEF CondInv
  <1>4. CASE t = "Init" /\ pc[t] = 1 /\ Op(t) = "sleep" /\ Sleep(t)
    <2>1. /\ Sleeps("Init", TicksPerSecond) /\ pc' = [pc EXCEPT !["Init"] = 2]
          /\ UNCHANGED <<blocked, count, led, again, lost>>
      BY <1>3, <1>4, Advances DEF Sleep, At, Op, lamp, history
    <2>2. /\ Places' /\ ~Up("Init")' /\ ~First("Init")'
          /\ Up("Server")' <=> Up("Server")
          /\ \A x : x # "Init" => (IsSet(x)' <=> IsSet(x))
      BY <1>1, <1>2, <1>3, <1>4, <2>1, PlacesSleeps, PeriodTicksNat
    <2>3. /\ pc' \in [Threads -> 1 .. 2] /\ pc'["Init"] = 2 /\ pc'["Server"] = pc["Server"]
      BY <1>1, <2>1 DEF CondInv
    <2>4. ~lost' /\ ~again'
      BY <2>1, Zenon DEF CondInv
    <2>5. \A p \in Periods : ~IsSet(p)'
      BY <2>2 DEF CondInv, Periods
    <2>6. QED
      BY <2>1, <2>2, <2>3, <2>4, <2>5 DEF CondInv, ServerAt
  <1>5. CASE t = "Init" /\ pc[t] = 2 /\ Signal(t)
    <2>1. /\ pc' = [pc EXCEPT !["Init"] = 1] /\ UNCHANGED <<alarm, count, led, again>>
      BY <1>3, <1>5, Advances DEF Signal, lamp
    <2>2. /\ pc' \in [Threads -> 1 .. 2] /\ pc'["Init"] = 1 /\ pc'["Server"] = pc["Server"]
      BY <1>1, <2>1 DEF CondInv
    <2>3. blocked["Server"] = "condition" /\ pc["Server"] = 2
      BY <1>3, <1>5 DEF CondInv, ServerAt
    <2>4. Hand("Init", "Server") /\ lost' = lost /\ blocked["Server"] # "no"
      BY <1>5, <2>3 DEF Signal
    <2>5. /\ Places' /\ blocked'["Server"] = "no" /\ Up("Server")' /\ First("Init")'
          /\ \A x : IsSet(x)' <=> IsSet(x)
      BY <1>1, <1>2, <1>3, <1>5, <2>1, <2>4, PlacesHand
    <2>6. ~lost' /\ ~again'
      BY <2>1, <2>4, Zenon DEF CondInv
    <2>7. QED
      BY <2>1, <2>2, <2>5, <2>6 DEF CondInv
  <1>6. CASE t = "Server" /\ pc[t] = 1 /\ Wait(t)
    <2>1. /\ pc' = [pc EXCEPT !["Server"] = 2] /\ UNCHANGED <<alarm, count, led, again, lost>>
          /\ Blocks("Server") /\ blocked' = [blocked EXCEPT !["Server"] = "condition"]
      BY <1>3, <1>6, Advances DEF Wait, WaitFor, lamp, history
    <2>2. /\ pc' \in [Threads -> 1 .. 2] /\ pc'["Server"] = 2 /\ pc'["Init"] = pc["Init"]
      BY <1>1, <2>1 DEF CondInv
    <2>3. "condition" \in Reasons
      BY DEF Reasons
    <2>4. /\ Places' /\ ~Up("Server")' /\ blocked'["Server"] = "condition"
          /\ First("Init")' <=> Up("Init")
          /\ \A x : IsSet(x)' <=> IsSet(x)
      <3>1. /\ Runs("Server") /\ Blocks("Server") /\ alarm' = alarm
            /\ blocked' = [blocked EXCEPT !["Server"] = "condition"]
        BY <1>3, <1>6, <2>1
      <3>2. QED
        BY <1>1, <1>2, <2>3, <3>1, PlacesWaits
    <2>5. ~lost' /\ ~again'
      BY <2>1, Zenon DEF CondInv
    <2>6. pc["Init"] = 2
      BY <1>1, <1>2, <1>3, <1>6, InLine DEF CondInv
    <2>7. QED
      BY <2>1, <2>2, <2>4, <2>5, <2>6 DEF CondInv, ServerAt
  <1>7. CASE t = "Server" /\ pc[t] = 2 /\ LedCount(t)
    <2>1. /\ pc' = [pc EXCEPT !["Server"] = 1] /\ UNCHANGED <<alarm, lost>> /\ Proceed("Server")
          /\ count' = [count EXCEPT !["Server"] = 1 - @] /\ led' = Lamp(count["Server"])
          /\ again' = (again \/ led = Lamp(count["Server"]))
      BY <1>3, <1>7, Advances DEF LedCount, Flip, Drive, history
    <2>2. /\ pc' \in [Threads -> 1 .. 2] /\ pc'["Init"] = pc["Init"]
          /\ count' \in [Threads -> 0 .. 1] /\ led' # Lamp(count'["Server"])
      BY <1>1, <2>1, LampTurns DEF CondInv
    <2>3. ~lost' /\ ~again'
      BY <2>1, Zenon DEF CondInv
    <2>4. /\ Places' /\ blocked' = blocked
          /\ \A x : IsSet(x)' <=> IsSet(x)
          /\ \A u : (Up(u)' <=> Up(u)) /\ (First(u)' <=> First(u))
      BY <1>2, <2>1, Proceeds
    <2>5. ~First("Init") /\ blocked["Server"] = "no"
      BY <1>1, <1>2, <1>3, <1>7, InLine DEF CondInv
    <2>6. QED
      BY <2>2, <2>3, <2>4, <2>5 DEF CondInv
  <1>8. QED
    BY <1>3, <1>4, <1>5, <1>6, <1>7

LEMMA CondKeeps ==
  ASSUME CondInv, program = "posix_cond_server", LedNext
  PROVE  CondInv'
  <1>1. /\ "Init" \in Threads /\ "Server" \in Threads /\ Other("Init") = "Server"
        /\ Other("Server") = "Init" /\ program' = program
        /\ program \in LedPrograms \ {"timer", "timer_server"}
    BY DEF Threads, Other, LedNext
  <1>2. CASE LedTick \/ LedInterrupt
    <2>1. /\ Places' /\ UNCHANGED <<pc, blocked, count, led, again, lost>>
      BY <1>1, <1>2, ClockSteps, ClockKeepsPlaces DEF CondInv
    <2>2. ~lost' /\ ~again'
      BY <2>1, Zenon DEF CondInv
    <2>3. CASE Tick
      <3>1. /\ \A t : (Up(t)' <=> Up(t)) /\ (First(t)' <=> First(t))
            /\ \A x : IsSet(x)' <=> IsSet(x)
        BY <2>1, <2>3, PlacesTicks DEF CondInv
      <3>2. QED
        BY <2>1, <2>2, <3>1 DEF CondInv, ServerAt
    <2>4. ASSUME NEW t \in Threads, IsSet(t), SleepIsOver(t) PROVE CondInv'
      <3>1. t = "Init"
        BY <2>4 DEF CondInv, Threads
      <3>2. Up("Server")' <=> Up("Server")
        BY <1>1, <2>1, <2>4, <3>1, PlacesWakes DEF CondInv
      <3>3. /\ First("Init")' <=> ~Up("Server")
            /\ ~Up("Init")
            /\ \A x : x # "Init" => (IsSet(x)' <=> IsSet(x))
        BY <1>1, <2>1, <2>4, <3>1, PlacesWakes DEF CondInv
      <3>4. pc["Init"] = 2
        BY <1>1, <3>3, InLine DEF CondInv, Places
      <3>5. \A p \in Periods : ~IsSet(p)'
        BY <3>3 DEF CondInv, Periods
      <3>6. QED
        BY <2>1, <2>2, <3>2, <3>3, <3>4, <3>5 DEF CondInv, ServerAt
    <2>5. \A p \in {"Period1", "Period2"} : ~IsSet(p)
      BY DEF CondInv, Periods
    <2>6. QED
      BY <1>1, <1>2, <2>3, <2>4, <2>5, ClockSteps
  <1>3. QED
    BY <1>1, <1>2, CondKeepsSteps DEF LedNext

-----------------------------------------------------------------------------
(* Taking turns: sem_server and posix_mutex_server.                        *)

TurnPrograms == {"sem_server", "posix_mutex_server"}

\* Where a thread is in its turn: at 1 it obtains, at 2 it drives the LED, at 3 it
\* sleeps, at 4 it releases.  The Init of sem_server starts at 2.
PhaseOf(t, n) ==
  IF program = "sem_server" /\ t = "Init" THEN IF n = 4 THEN 1 ELSE n + 1 ELSE n
Phase(t) == PhaseOf(t, pc[t])
Mine(t) == IF t = "Init" THEN "off" ELSE "on"

\* It is the turn of thread t.  The other one waits for the semaphore, or is still
\* to obtain it; then t does not run to release it before.
Turn(t) ==
  LET u == Other(t)
  IN  /\ sem = 0 /\ Phase(t) \in 2 .. 4 /\ blocked[t] = "no"
      /\ IsSet(t) => Phase(t) = 4
      /\ ~IsSet(u) /\ (Up(t) <=> ~IsSet(t)) /\ (Up(u) <=> blocked[u] = "no")
      /\ \/ Phase(u) = 2 /\ blocked[u] = "semaphore"
         \/ Phase(u) = 1 /\ blocked[u] = "no" /\ (First(t) => Phase(t) \in 2 .. 3)
      /\ IF Phase(t) = 2 THEN led # Mine(t) ELSE led = Mine(t)

NobodysTurn ==
  /\ sem = 1 /\ Phase("Init") = 1 /\ Phase("Server") = 1 /\ First("Init") /\ Up("Server")
  /\ \A t \in Threads : ~IsSet(t) /\ blocked[t] = "no"
  /\ led = "unknown"

TurnInv ==
  /\ Places /\ pc \in [Threads -> 1 .. 4]
  /\ \A x : IsSet(x) => x \in Threads
  /\ (\E t \in Threads : Turn(t)) \/ NobodysTurn
  /\ ~lost /\ ~again

LEMMA TurnText ==
  ASSUME program \in TurnPrograms
  PROVE  /\ DOMAIN Text[program] = Threads
         /\ Text[program]["Init"].loop = 1 /\ Text[program]["Server"].loop = 1
         /\ Text[program]["Init"].ops =
              IF program = "sem_server" THEN <<"led_off", "sleep", "release", "obtain">>
                                        ELSE <<"obtain", "led_off", "sleep", "release">>
         /\ Text[program]["Server"].ops = <<"obtain", "led_on", "sleep", "release">>
  BY DEF TurnPrograms, Text, SemServer, PosixMutexServer, Loop, Threads

LEMMA TurnPhases ==
  ASSUME program \in TurnPrograms, NEW t \in Threads, pc \in [Threads -> 1 .. 4]
  PROVE  /\ Phase(t) \in 1 .. 4 /\ NextPc(t) \in 1 .. 4
         /\ PhaseOf(t, NextPc(t)) = IF Phase(t) = 4 THEN 1 ELSE Phase(t) + 1
         /\ Phase(t) = 1 => Op(t) = "obtain"
         /\ Phase(t) = 2 => Op(t) = IF t = "Init" THEN "led_off" ELSE "led_on"
         /\ Phase(t) = 3 => Op(t) = "sleep"
         /\ Phase(t) = 4 => Op(t) = "release"
  <1>1. pc[t] \in {1, 2, 3, 4} /\ t \in {"Init", "Server"}
    BY DEF Threads
  <1>2. Text[program][t].loop = 1
    BY <1>1, TurnText
  <1>3. Text[program][t].ops =
          IF program = "sem_server" /\ t = "Init"
            THEN <<"led_off", "sleep", "release", "obtain">>
            ELSE IF t = "Init" THEN <<"obtain", "led_off", "sleep", "release">>
                               ELSE <<"obtain", "led_on", "sleep", "release">>
    BY <1>1, TurnText
  <1>4. Len(Text[program][t].ops) = 4
    BY <1>1, <1>3
  <1>5. NextPc(t) = IF pc[t] = 4 THEN 1 ELSE pc[t] + 1
    BY <1>2, <1>4 DEF NextPc
  <1>6. CASE program = "sem_server" /\ t = "Init"
    <2>1. Op(t) = <<"led_off", "sleep", "release", "obtain">>[pc[t]]
      BY <1>3, <1>6 DEF Op
    <2>2. QED
      BY <1>1, <1>5, <1>6, <2>1 DEF Phase, PhaseOf
  <1>7. CASE ~(program = "sem_server" /\ t = "Init")
    <2>1. Op(t) = IF t = "Init" THEN <<"obtain", "led_off", "sleep", "release">>[pc[t]]
                                ELSE <<"obtain", "led_on", "sleep", "release">>[pc[t]]
      BY <1>3, <1>7 DEF Op
    <2>2. Phase(t) = pc[t] /\ PhaseOf(t, NextPc(t)) = NextPc(t)
      BY <1>7 DEF Phase, PhaseOf
    <2>3. QED
      BY <1>1, <1>5, <2>1, <2>2
  <1>8. QED
    BY <1>6, <1>7

LEMMA TurnSteps ==
  ASSUME Places, program \in TurnPrograms, program' = program, pc \in [Threads -> 1 .. 4],
         NEW t \in Threads, LedStep(t)
  PROVE  /\ Runs(t) /\ First(t) /\ Up(t) /\ Phase(t) \in 1 .. 4
         /\ pc' \in [Threads -> 1 .. 4] /\ Phase(Other(t))' = Phase(Other(t))
         /\ Phase(t)' = IF Phase(t) = 4 THEN 1 ELSE Phase(t) + 1
         /\ \/ Phase(t) = 1 /\ Obtain(t)
            \/ Phase(t) = 2 /\ LedSet(t) /\ Drive(Mine(t))
            \/ Phase(t) = 3 /\ Op(t) = "sleep" /\ Sleep(t)
            \/ Phase(t) = 4 /\ Release(t)
  <1>1. Runs(t) /\ First(t) /\ Up(t)
    BY OpOf, InLine DEF Places
  <1>2. /\ Phase(t) \in 1 .. 4 /\ NextPc(t) \in 1 .. 4
        /\ PhaseOf(t, NextPc(t)) = IF Phase(t) = 4 THEN 1 ELSE Phase(t) + 1
        /\ Phase(t) = 1 => Op(t) = "obtain"
        /\ Phase(t) = 2 => Op(t) = IF t = "Init" THEN "led_off" ELSE "led_on"
        /\ Phase(t) = 3 => Op(t) = "sleep"
        /\ Phase(t) = 4 => Op(t) = "release"
    BY TurnPhases
  <1>3. \/ Phase(t) = 1 /\ Obtain(t)
        \/ Phase(t) = 2 /\ LedSet(t) /\ Op(t) = IF t = "Init" THEN "led_off" ELSE "led_on"
        \/ Phase(t) = 3 /\ Op(t) = "sleep" /\ Sleep(t)
        \/ Phase(t) = 4 /\ Release(t)
    <2>1. CASE Phase(t) = 1
      BY <1>2, <2>1, OpOf
    <2>2. CASE Phase(t) = 2
      BY <1>2, <2>2, OpOf
    <2>3. CASE Phase(t) = 3
      BY <1>2, <2>3, OpOf
    <2>4. CASE Phase(t) = 4
      BY <1>2, <2>4, OpOf
    <2>5. QED
      BY <1>2, <2>1, <2>2, <2>3, <2>4
  <1>4. ASSUME LedSet(t), Op(t) = IF t = "Init" THEN "led_off" ELSE "led_on"
        PROVE  Drive(Mine(t))
    BY <1>4 DEF LedSet, At, Op, Mine, Threads
  <1>5. Advance(t)
    BY <1>3 DEF Obtain, LedSet, Sleep, Release
  <1>6. pc' = [pc EXCEPT ![t] = NextPc(t)] /\ Other(t) \in Threads /\ Other(t) # t
    BY <1>5, Advances, Others
  <1>7. pc' \in [Threads -> 1 .. 4] /\ pc'[t] = NextPc(t) /\ pc'[Other(t)] = pc[Other(t)]
    BY <1>2, <1>6
  <1>8. /\ Phase(Other(t))' = Phase(Other(t))
        /\ Phase(t)' = PhaseOf(t, NextPc(t))
    <2>1. \A u, n : PhaseOf(u, n)' = PhaseOf(u, n)
      BY DEF PhaseOf
    <2>2. QED
      BY <1>7 DEF Phase, PhaseOf, Other
  <1>9. QED
    BY <1>1, <1>2, <1>3, <1>4, <1>7, <1>8

\* A step of the thread whose turn it is.
LEMMA TurnMine ==
  ASSUME TurnInv, program \in TurnPrograms, program' = program, NEW t \in Threads, Turn(t),
         LedStep(t)
  PROVE  TurnInv'
  <1> DEFINE u == Other(t)
  <1>1. /\ u \in Threads /\ u # t /\ Other(u) = t /\ Mine(u) # Mine(t)
        /\ program \in LedPrograms /\ program # "ratemon_cond_server"
    BY Others DEF Mine, Threads, Other, TurnPrograms, LedPrograms, Text
  <1> HIDE DEF u
  <1>2. Places /\ pc \in [Threads -> 1 .. 4] /\ ~lost /\ ~again
    BY DEF TurnInv
  <1>3. /\ Runs(t) /\ First(t) /\ Up(t) /\ Phase(t) \in 1 .. 4
        /\ pc' \in [Threads -> 1 .. 4] /\ Phase(u)' = Phase(u)
        /\ Phase(t)' = IF Phase(t) = 4 THEN 1 ELSE Phase(t) + 1
        /\ \/ Phase(t) = 1 /\ Obtain(t)
           \/ Phase(t) = 2 /\ LedSet(t) /\ Drive(Mine(t))
           \/ Phase(t) = 3 /\ Op(t) = "sleep" /\ Sleep(t)
           \/ Phase(t) = 4 /\ Release(t)
    BY <1>2, TurnSteps DEF u
  <1>4. /\ sem = 0 /\ Phase(t) \in 2 .. 4 /\ blocked[t] = "no" /\ ~IsSet(t)
        /\ ~IsSet(u) /\ (Up(u) <=> blocked[u] = "no")
        /\ \/ Phase(u) = 2 /\ blocked[u] = "semaphore"
           \/ Phase(u) = 1 /\ blocked[u] = "no" /\ Phase(t) \in 2 .. 3
        /\ IF Phase(t) = 2 THEN led # Mine(t) ELSE led = Mine(t)
    BY <1>3 DEF Turn, u
  <1>5. CASE Phase(t) = 2
    <2>1. LedSet(t) /\ Drive(Mine(t)) /\ Phase(t)' = 3
      BY <1>3, <1>5
    <2>2. /\ Proceed(t) /\ alarm' = alarm /\ sem' = sem /\ lost' = lost
      BY <2>1 DEF LedSet, object, history
    <2>3. led' = Mine(t) /\ again' = (again \/ led = Mine(t)) /\ led # Mine(t)
      BY <1>4, <1>5, <2>1 DEF Drive
    <2>4. ~lost' /\ ~again'
      BY <1>2, <2>2, <2>3, Zenon
    <2>5. /\ Places' /\ UNCHANGED <<ready, blocked>>
          /\ \A x : IsSet(x)' <=> IsSet(x)
          /\ \A v : (Up(v)' <=> Up(v)) /\ (First(v)' <=> First(v))
      BY <1>2, <2>2, Proceeds
    <2>6. Turn(t)'
      BY <1>3, <1>4, <1>5, <2>1, <2>2, <2>3, <2>5 DEF Turn, u
    <2>7. QED
      BY <1>3, <2>4, <2>5, <2>6 DEF TurnInv
  <1>6. CASE Phase(t) = 3
    <2>1. Op(t) = "sleep" /\ Sleep(t) /\ Phase(t)' = 4
      BY <1>3, <1>6
    <2>2. /\ Sleeps(t, TicksPerSecond) /\ UNCHANGED <<blocked, sem, led, again, lost>>
      BY <2>1 DEF Sleep, At, Op, object, lamp, history
    <2>3. ~lost' /\ ~again'
      BY <1>2, <2>2, Zenon
    <2>4. /\ Places' /\ ~Up(t)' /\ ~First(t)' /\ IsSet(t)'
          /\ Up(u)' <=> Up(u)
          /\ \A x : x # t => (IsSet(x)' <=> IsSet(x))
      BY <1>2, <1>3, <2>2, PlacesSleeps, PeriodTicksNat DEF u
    <2>5. Turn(t)'
      BY <1>1, <1>3, <1>4, <1>6, <2>1, <2>2, <2>4 DEF Turn, u
    <2>6. \A x : IsSet(x)' => x \in Threads
      BY <2>4 DEF TurnInv
    <2>7. QED
      BY <1>3, <2>3, <2>4, <2>5, <2>6 DEF TurnInv
  <1>7. CASE Phase(t) = 4
    <2>1. Release(t) /\ Phase(t)' = 1 /\ Phase(u) = 2 /\ blocked[u] = "semaphore" /\ led = Mine(t)
      BY <1>3, <1>4, <1>7
    <2>2. /\ Hand(t, u) /\ UNCHANGED <<alarm, sem, led, again, lost>> /\ blocked[u] # "no"
      BY <2>1 DEF Release, u, lamp, history
    <2>3. ~lost' /\ ~again'
      BY <1>2, <2>2, Zenon
    <2>4. /\ Places' /\ blocked'[u] = "no" /\ blocked'[t] = "no" /\ Up(t)' /\ Up(u)' /\ First(t)'
          /\ \A x : IsSet(x)' <=> IsSet(x)
      BY <1>1, <1>2, <1>3, <2>2, PlacesHand
    <2>5. Turn(u)'
      BY <1>1, <1>3, <1>4, <2>1, <2>2, <2>4 DEF Turn
    <2>6. QED
      BY <1>1, <1>3, <2>3, <2>4, <2>5 DEF TurnInv
  <1>8. QED
    BY <1>4, <1>5, <1>6, <1>7

\* A step of the other thread: it finds the semaphore taken.
LEMMA TurnOther ==
  ASSUME TurnInv, program \in TurnPrograms, program' = program, NEW t \in Threads, Turn(t),
         LedStep(Other(t))
  PROVE  TurnInv'
  <1> DEFINE u == Other(t)
  <1>1. u \in Threads /\ u # t /\ Other(u) = t
    BY Others
  <1> HIDE DEF u
  <1>2. Places /\ pc \in [Threads -> 1 .. 4] /\ ~lost /\ ~again /\ LedStep(u)
    BY DEF TurnInv, u
  <1>3. /\ Runs(u) /\ First(u) /\ Up(u) /\ Phase(u) \in 1 .. 4
        /\ pc' \in [Threads -> 1 .. 4] /\ Phase(t)' = Phase(t)
        /\ Phase(u)' = IF Phase(u) = 4 THEN 1 ELSE Phase(u) + 1
        /\ \/ Phase(u) = 1 /\ Obtain(u)
           \/ Phase(u) = 2 /\ LedSet(u) /\ Drive(Mine(u))
           \/ Phase(u) = 3 /\ Op(u) = "sleep" /\ Sleep(u)
           \/ Phase(u) = 4 /\ Release(u)
    BY <1>1, <1>2, TurnSteps
  <1>4. /\ sem = 0 /\ Phase(u) = 1 /\ Phase(t) \in 2 .. 4 /\ blocked[t] = "no"
        /\ IsSet(t) => Phase(t) = 4
        /\ ~IsSet(u) /\ (Up(t) <=> ~IsSet(t))
        /\ IF Phase(t) = 2 THEN led # Mine(t) ELSE led = Mine(t)
    BY <1>3 DEF Turn, u
  <1>5. Obtain(u) /\ Phase(u)' = 2
    BY <1>3, <1>4
  <1>6. /\ Blocks(u) /\ blocked' = [blocked EXCEPT ![u] = "semaphore"]
        /\ UNCHANGED <<alarm, sem, led, again, lost>>
    BY <1>4, <1>5 DEF Obtain, WaitFor, lamp, history
  <1>7. ~lost' /\ ~again' /\ "semaphore" \in Reasons
    BY <1>2, <1>6, Zenon DEF Reasons
  <1>8. /\ Places' /\ ~Up(u)' /\ blocked'[u] = "semaphore" /\ blocked'[t] = blocked[t]
        /\ Up(t)' <=> Up(t)
        /\ \A x : IsSet(x)' <=> IsSet(x)
    BY <1>1, <1>2, <1>3, <1>6, <1>7, PlacesWaits
  <1>9. Turn(t)'
    BY <1>1, <1>3, <1>4, <1>5, <1>6, <1>8 DEF Turn, u
  <1>10. QED
    BY <1>3, <1>7, <1>8, <1>9 DEF TurnInv

\* The first to obtain the mutex.
LEMMA TurnFirst ==
  ASSUME TurnInv, program \in TurnPrograms, program' = program, NEW t \in Threads, NobodysTurn,
         LedStep(t)
  PROVE  TurnInv'
  <1>1. /\ "Init" \in Threads /\ "Server" \in Threads /\ Other("Init") = "Server"
    BY DEF Threads, Other
  <1>2. Places /\ pc \in [Threads -> 1 .. 4] /\ ~lost /\ ~again
    BY DEF TurnInv
  <1>3. /\ First(t) /\ pc' \in [Threads -> 1 .. 4] /\ Phase(Other(t))' = Phase(Other(t))
        /\ Phase(t)' = IF Phase(t) = 4 THEN 1 ELSE Phase(t) + 1
        /\ \/ Phase(t) = 1 /\ Obtain(t)
           \/ Phase(t) = 2 /\ LedSet(t) /\ Drive(Mine(t))
           \/ Phase(t) = 3 /\ Op(t) = "sleep" /\ Sleep(t)
           \/ Phase(t) = 4 /\ Release(t)
    BY <1>2, TurnSteps
  <1>4. t = "Init"
    BY <1>1, <1>2, <1>3, InLine, Others DEF NobodysTurn, Places
  <1>5. /\ Obtain("Init") /\ sem = 1 /\ Phase("Init")' = 2 /\ Phase("Server")' = 1
        /\ First("Init") /\ Up("Server") /\ led = "unknown"
        /\ \A v \in Threads : ~IsSet(v) /\ blocked[v] = "no"
    BY <1>1, <1>3, <1>4 DEF NobodysTurn
  <1>6. Up("Init")
    BY <1>1, <1>2, <1>5, InLine DEF Places
  <1>7. Proceed("Init") /\ sem' = 0 /\ UNCHANGED <<alarm, led, again, lost>>
    BY <1>5 DEF Obtain, lamp, history
  <1>8. ~lost' /\ ~again'
    BY <1>2, <1>7, Zenon
  <1>9. /\ Places' /\ UNCHANGED <<ready, blocked>>
        /\ \A x : IsSet(x)' <=> IsSet(x)
        /\ \A v : (Up(v)' <=> Up(v)) /\ (First(v)' <=> First(v))
    BY <1>2, <1>7, Proceeds
  <1>10. Turn("Init")'
    BY <1>1, <1>5, <1>6, <1>7, <1>9 DEF Turn, Mine
  <1>11. QED
    BY <1>1, <1>3, <1>8, <1>9, <1>10 DEF TurnInv

LEMMA TurnKeeps ==
  ASSUME TurnInv, program \in TurnPrograms, LedNext
  PROVE  TurnInv'
  <1>1. /\ program' = program /\ program \in LedPrograms \ {"timer", "timer_server"}
        /\ program # "ratemon_cond_server"
    BY DEF LedNext, TurnPrograms
  <1>2. ASSUME NEW t \in Threads, LedStep(t) PROVE TurnInv'
    <2>1. CASE NobodysTurn
      BY <1>1, <1>2, <2>1, TurnFirst
    <2>2. ASSUME NEW v \in Threads, Turn(v) PROVE TurnInv'
      <3>1. t = v \/ t = Other(v)
        BY Others
      <3>2. QED
        BY <1>1, <1>2, <2>2, <3>1, TurnMine, TurnOther
    <2>3. QED
      BY <2>1, <2>2 DEF TurnInv
  <1>3. CASE LedTick \/ LedInterrupt
    <2>1. Places' /\ UNCHANGED <<pc, blocked, sem, led, again, lost>>
      BY <1>1, <1>3, ClockSteps, ClockKeepsPlaces DEF TurnInv
    <2>2. ~lost' /\ ~again'
      BY <2>1, Zenon DEF TurnInv
    <2>3. \A t : Phase(t)' = Phase(t)
      BY <1>1, <2>1 DEF Phase, PhaseOf
    <2>4. pc' \in [Threads -> 1 .. 4]
      BY <2>1 DEF TurnInv
    <2>5. CASE Tick
      <3>1. /\ \A t : (Up(t)' <=> Up(t)) /\ (First(t)' <=> First(t))
            /\ \A x : IsSet(x)' <=> IsSet(x)
        BY <2>1, <2>5, PlacesTicks DEF TurnInv
      <3>2. \A t \in Threads : Turn(t) => Turn(t)'
        BY <2>1, <2>3, <3>1 DEF Turn
      <3>3. NobodysTurn => NobodysTurn'
        BY <2>1, <2>3, <3>1 DEF NobodysTurn
      <3>4. QED
        BY <2>1, <2>2, <2>4, <3>1, <3>2, <3>3 DEF TurnInv
    <2>6. ASSUME NEW s \in Threads, IsSet(s), SleepIsOver(s) PROVE TurnInv'
      <3>1. ~NobodysTurn
        BY <2>6 DEF NobodysTurn
      <3>2. PICK t \in Threads : Turn(t)
        BY <3>1 DEF TurnInv
      <3>3. s = t
        BY <2>6, <3>2, Others DEF Turn
      <3>4. /\ Up(t)' /\ ~IsSet(t)'
            /\ Up(Other(t))' <=> Up(Other(t))
            /\ First(t)' <=> ~Up(Other(t))
            /\ \A x : x # t => (IsSet(x)' <=> IsSet(x))
        BY <1>1, <2>1, <2>6, <3>3, PlacesWakes DEF TurnInv
      <3>5. Other(t) # t
        BY Others
      <3>6. Turn(t)'
        BY <2>1, <2>3, <3>2, <3>4, <3>5 DEF Turn
      <3>7. \A x : IsSet(x)' => x \in Threads
        BY <3>4 DEF TurnInv
      <3>8. QED
        BY <2>1, <2>2, <2>4, <3>6, <3>7 DEF TurnInv
    <2>7. \A p \in {"Period1", "Period2"} : ~IsSet(p)
      BY DEF TurnInv, Threads
    <2>8. QED
      BY <1>1, <1>3, <2>5, <2>6, <2>7, ClockSteps
  <1>4. QED
    BY <1>2, <1>3 DEF LedNext

-----------------------------------------------------------------------------
(* One thread that sleeps, or waits for its periods.                       *)

CountPrograms == {"timeout_event", "ratemon1"}
DelayPrograms == {"delay", "posix_delay_sleep", "posix_delay_nanosleep"}
OnePrograms == CountPrograms \cup DelayPrograms \cup {"ratemon2"}

\* What the LED shows, by the count of the thread or by where it is.
Showing ==
  IF program \in CountPrograms THEN led # Lamp(count["Init"])
  ELSE IF program = "ratemon2"
    THEN IF pc["Init"] \in {3, 4, 5, 8, 9} THEN led = "off" ELSE led # "off"
    ELSE IF pc["Init"] \in {3, 4} THEN led = "off" ELSE led # "off"

OneInv ==
  /\ Places /\ pc \in [Threads -> 1 .. 9] /\ count \in [Threads -> 0 .. 1]
  /\ pc["Init"] <= IF program \in CountPrograms THEN 2 ELSE IF program = "ratemon2" THEN 9 ELSE 4
  /\ Showing
  /\ ~lost /\ ~again

LEMMA OneText ==
  ASSUME program \in OnePrograms
  PROVE  LET text == Text[program]["Init"]
         IN  /\ DOMAIN Text[program] = {"Init"} /\ program \in LedPrograms
             /\ program \in CountPrograms =>
                  /\ text.loop = 1 /\ Len(text.ops) = 2
                  /\ text.ops[1] \in {"sleep", "period_1"} /\ text.ops[2] = "led_count"
             /\ program \in DelayPrograms =>
                  /\ text.loop = 1 /\ Len(text.ops) = 4
                  /\ text.ops[1] = "sleep" /\ text.ops[2] = "led_off"
                  /\ text.ops[3] = "sleep" /\ text.ops[4] = "led_on"
  <1>1. CASE program = "timeout_event"
    BY <1>1 DEF CountPrograms, DelayPrograms, LedPrograms, Text, TimeoutEvent, Loop
  <1>2. CASE program = "ratemon1"
    BY <1>2 DEF CountPrograms, DelayPrograms, LedPrograms, Text, RateMon1, Loop
  <1>3. CASE program = "ratemon2"
    BY <1>3 DEF CountPrograms, DelayPrograms, LedPrograms, Text, RateMon2, Prologue
  <1>4. CASE program \in DelayPrograms
    BY <1>4 DEF CountPrograms, DelayPrograms, LedPrograms, Text, Delay, PosixDelaySleep,
      PosixDelayNanosleep, Loop
  <1>5. QED
    BY <1>1, <1>2, <1>3, <1>4 DEF OnePrograms, CountPrograms

LEMMA RateMon2Text ==
  ASSUME program = "ratemon2"
  PROVE  LET text == Text[program]["Init"]
         IN  /\ text.loop = 6 /\ Len(text.ops) = 9
             /\ text.ops[1] = "period_1" /\ text.ops[2] = "led_off" /\ text.ops[3] = "sleep"
             /\ text.ops[4] = "period_2" /\ text.ops[5] = "led_on" /\ text.ops[6] = "period_1"
             /\ text.ops[7] = "led_off" /\ text.ops[8] = "period_2" /\ text.ops[9] = "led_on"
  <1> DEFINE first == <<"period_1", "led_off", "sleep", "period_2", "led_on">>
             rest == <<"period_1", "led_off", "period_2", "led_on">>
             text == Text[program]["Init"]
  <1>1. Text[program] = RateMon2
    BY DEF Text
  <1>2. text = Prologue(first, rest)
    BY <1>1 DEF RateMon2
  <1>3. text.ops = first \o rest /\ text.loop = Len(first) + 1
    BY <1>2 DEF Prologue
  <1>4. Len(first) = 5 /\ Len(rest) = 4
    OBVIOUS
  <1>5. /\ Len(first \o rest) = 9
        /\ (first \o rest)[1] = "period_1" /\ (first \o rest)[2] = "led_off"
        /\ (first \o rest)[3] = "sleep" /\ (first \o rest)[4] = "period_2"
        /\ (first \o rest)[5] = "led_on" /\ (first \o rest)[6] = "period_1"
        /\ (first \o rest)[7] = "led_off" /\ (first \o rest)[8] = "period_2"
        /\ (first \o rest)[9] = "led_on"
    OBVIOUS
  <1>6. QED
    BY <1>3, <1>4, <1>5

OneOps == {"sleep", "period_1", "period_2", "led_count", "led_off", "led_on"}

LEMMA OneSteps ==
  ASSUME Places, program \in OnePrograms, Op("Init") \in OneOps, NEW t, LedStep(t)
  PROVE  /\ Places' /\ pc' = [pc EXCEPT !["Init"] = NextPc("Init")] /\ lost' = lost
         /\ \/ /\ Op("Init") \in {"sleep", "period_1", "period_2"}
               /\ UNCHANGED <<count, led, again>>
            \/ /\ Op("Init") = "led_count" /\ Drive(Lamp(count["Init"]))
               /\ count' = [count EXCEPT !["Init"] = 1 - @]
            \/ Op("Init") = "led_off" /\ Drive("off") /\ count' = count
            \/ Op("Init") = "led_on" /\ Drive("on") /\ count' = count
  <1>1. t = "Init" /\ Runs(t) /\ "Init" \in Threads /\ {"Period1", "Period2"} \subseteq Periods
    BY OpOf, OneText DEF Threads, Periods
  <1>2. \/ Op("Init") = "sleep" /\ Sleep("Init")
        \/ Op("Init") = "period_1" /\ Period("Init", "Period1", "period_1")
        \/ Op("Init") = "period_2" /\ Period("Init", "Period2", "period_2")
        \/ Op("Init") = "led_count" /\ LedCount("Init")
        \/ Op("Init") \in {"led_off", "led_on"} /\ LedSet("Init")
    BY <1>1, OpOf DEF OneOps
  <1>3. CASE Op("Init") = "sleep" /\ Sleep("Init")
    <2>1. /\ Sleeps("Init", TicksPerSecond) /\ blocked' = blocked /\ Advance("Init")
          /\ UNCHANGED <<count, led, again, lost>>
      BY <1>3 DEF Sleep, At, Op, lamp, history
    <2>2. Places'
      BY <1>1, <2>1, PlacesSleeps, PeriodTicksNat
    <2>3. QED
      BY <1>3, <2>1, <2>2, Advances
  <1>4. ASSUME NEW p \in Periods, NEW op, op \in {"period_1", "period_2"}, Op("Init") = op,
               Period("Init", p, op)
        PROVE  /\ Places' /\ pc' = [pc EXCEPT !["Init"] = NextPc("Init")] /\ lost' = lost
               /\ UNCHANGED <<count, led, again>>
    <2>1. CallPeriod("Init", p, PeriodTicks) /\ blocked' = blocked /\ Runs("Init")
      BY <1>1, <1>4 DEF Period
    <2>2. Places'
      BY <1>1, <2>1, PlacesPeriod, PeriodTicksNat
    <2>3. QED
      BY <1>4, <2>2, Advances DEF Period, lamp, history
  <1>5. CASE Op("Init") = "led_count" /\ LedCount("Init")
    <2>1. Places'
      BY <1>5, Proceeds DEF LedCount
    <2>2. QED
      BY <1>5, <2>1, Advances DEF LedCount, Flip, history
  <1>6. CASE Op("Init") \in {"led_off", "led_on"} /\ LedSet("Init")
    <2>1. Places'
      BY <1>6, Proceeds DEF LedSet
    <2>2. /\ Op("Init") = "led_off" => Drive("off")
          /\ Op("Init") = "led_on" => Drive("on")
      BY <1>6 DEF LedSet, At, Op
    <2>3. QED
      BY <1>6, <2>1, <2>2, Advances DEF LedSet, history
  <1>7. QED
    <2>1. CASE Op("Init") = "period_1" /\ Period("Init", "Period1", "period_1")
      BY <1>1, <1>4, <2>1
    <2>2. CASE Op("Init") = "period_2" /\ Period("Init", "Period2", "period_2")
      BY <1>1, <1>4, <2>2
    <2>3. QED
      BY <1>2, <1>3, <1>5, <1>6, <2>1, <2>2

LEMMA OneKeepsStep ==
  ASSUME OneInv, program \in OnePrograms, program' = program, NEW t, LedStep(t)
  PROVE  OneInv'
  <1>1. /\ "Init" \in Threads /\ pc["Init"] \in 1 .. 9 /\ count["Init"] \in 0 .. 1
        /\ Places /\ ~lost /\ ~again
        /\ pc["Init"] <= IF program \in CountPrograms THEN 2
                         ELSE IF program = "ratemon2" THEN 9 ELSE 4
    BY DEF Threads, OneInv
  <1>2. /\ program \in CountPrograms => program # "ratemon2" /\ program \notin DelayPrograms
        /\ program \in DelayPrograms => program # "ratemon2"
        /\ program \in CountPrograms \/ program \in DelayPrograms \/ program = "ratemon2"
    BY DEF CountPrograms, DelayPrograms, OnePrograms
  <1>3. CASE program \in CountPrograms
    <2>1. /\ pc["Init"] = 1 => Op("Init") \in {"sleep", "period_1"} /\ NextPc("Init") = 2
          /\ pc["Init"] = 2 => Op("Init") = "led_count" /\ NextPc("Init") = 1
          /\ pc["Init"] \in {1, 2}
      <3>1. pc["Init"] = 1 \/ pc["Init"] = 2
        BY <1>1, <1>3
      <3>2. LET text == Text[program]["Init"]
            IN  /\ text.loop = 1 /\ Len(text.ops) = 2
                /\ text.ops[1] \in {"sleep", "period_1"} /\ text.ops[2] = "led_count"
        BY <1>3, OneText
      <3>3. QED
        BY <3>1, <3>2 DEF Op, NextPc
    <2>2. Op("Init") \in OneOps
      BY <2>1 DEF OneOps
    <2>3. /\ Places' /\ pc' = [pc EXCEPT !["Init"] = NextPc("Init")] /\ lost' = lost
          /\ \/ pc["Init"] = 1 /\ UNCHANGED <<count, led, again>>
             \/ /\ pc["Init"] = 2 /\ Drive(Lamp(count["Init"]))
                /\ count' = [count EXCEPT !["Init"] = 1 - @]
      BY <1>1, <2>1, <2>2, OneSteps
    <2>4. pc' \in [Threads -> 1 .. 9] /\ pc'["Init"] \in {1, 2}
      BY <1>1, <2>1, <2>3 DEF OneInv
    <2>5. led # Lamp(count["Init"])
      BY <1>3 DEF OneInv, Showing
    <2>6. /\ lost' = lost
          /\ again' = again \/ again' = (again \/ led = Lamp(count["Init"]))
      BY <2>3 DEF Drive
    <2>7. ~lost' /\ ~again'
      <3>1. ~lost'
        BY <1>1, <2>6, Zenon
      <3>2. ASSUME again' = again PROVE ~again'
        BY <1>1, <3>2, Zenon
      <3>3. ASSUME NEW v, again' = (again \/ led = v), led # v PROVE ~again'
        BY <1>1, <3>3, Zenon
      <3>4. QED
        BY <2>5, <2>6, <3>1, <3>2, <3>3, Zenon
    <2>8. count' \in [Threads -> 0 .. 1] /\ led' # Lamp(count'["Init"])
      BY <1>1, <2>3, <2>5, LampTurns DEF OneInv, Drive
    <2>9. QED
      BY <1>3, <2>3, <2>4, <2>7, <2>8 DEF OneInv, Showing
  <1>4. CASE program \in DelayPrograms
    <2>1. /\ pc["Init"] \in {1, 3} => Op("Init") = "sleep"
          /\ pc["Init"] = 2 => Op("Init") = "led_off"
          /\ pc["Init"] = 4 => Op("Init") = "led_on"
          /\ NextPc("Init") = IF pc["Init"] = 4 THEN 1 ELSE pc["Init"] + 1
          /\ pc["Init"] \in {1, 2, 3, 4}
      <3>1. pc["Init"] \in {1, 2, 3, 4}
        BY <1>1, <1>2, <1>4
      <3>2. LET text == Text[program]["Init"]
            IN  /\ text.loop = 1 /\ Len(text.ops) = 4
                /\ text.ops[1] = "sleep" /\ text.ops[2] = "led_off"
                /\ text.ops[3] = "sleep" /\ text.ops[4] = "led_on"
        BY <1>4, OneText
      <3>3. QED
        BY <3>1, <3>2 DEF Op, NextPc
    <2>2. Op("Init") \in OneOps
      BY <2>1 DEF OneOps
    <2>3. /\ Places' /\ pc' = [pc EXCEPT !["Init"] = NextPc("Init")] /\ lost' = lost
          /\ count' = count
          /\ \/ pc["Init"] \in {1, 3} /\ UNCHANGED <<led, again>>
             \/ pc["Init"] = 2 /\ Drive("off")
             \/ pc["Init"] = 4 /\ Drive("on")
      BY <1>1, <2>1, <2>2, OneSteps
    <2>4. /\ pc' \in [Threads -> 1 .. 9] /\ pc'["Init"] <= 4
          /\ pc'["Init"] = IF pc["Init"] = 4 THEN 1 ELSE pc["Init"] + 1
      BY <1>1, <2>1, <2>3 DEF OneInv
    <2>5. IF pc["Init"] \in {3, 4} THEN led = "off" ELSE led # "off"
      BY <1>2, <1>4 DEF OneInv, Showing
    <2>6. /\ lost' = lost
          /\ \/ again' = again
             \/ again' = (again \/ led = "off") /\ led # "off"
             \/ again' = (again \/ led = "on") /\ led # "on"
      BY <2>3, <2>5 DEF Drive
    <2>7. ~lost' /\ ~again'
      <3>1. ~lost'
        BY <1>1, <2>6, Zenon
      <3>2. ASSUME again' = again PROVE ~again'
        BY <1>1, <3>2, Zenon
      <3>3. ASSUME NEW v, again' = (again \/ led = v), led # v PROVE ~again'
        BY <1>1, <3>3, Zenon
      <3>4. QED
        BY <2>6, <3>1, <3>2, <3>3, Zenon
    <2>8. IF pc'["Init"] \in {3, 4} THEN led' = "off" ELSE led' # "off"
      BY <2>1, <2>3, <2>4, <2>5 DEF Drive
    <2>9. count' \in [Threads -> 0 .. 1]
      BY <2>3 DEF OneInv
    <2>10. QED
      BY <1>2, <1>4, <2>3, <2>4, <2>7, <2>8, <2>9 DEF OneInv, Showing
  <1>5. CASE program = "ratemon2"
    <2> DEFINE n == pc["Init"]
    <2>1. /\ n \in {1, 6} => Op("Init") = "period_1"
          /\ n \in {2, 7} => Op("Init") = "led_off"
          /\ n = 3 => Op("Init") = "sleep"
          /\ n \in {4, 8} => Op("Init") = "period_2"
          /\ n \in {5, 9} => Op("Init") = "led_on"
          /\ NextPc("Init") = IF n = 9 THEN 6 ELSE n + 1
          /\ n \in {1, 2, 3, 4, 5, 6, 7, 8, 9}
      <3>1. n \in {1, 2, 3, 4, 5, 6, 7, 8, 9}
        BY <1>1, <1>2, <1>5
      <3>2. LET text == Text[program]["Init"]
            IN  /\ text.loop = 6 /\ Len(text.ops) = 9
                /\ text.ops[1] = "period_1" /\ text.ops[2] = "led_off" /\ text.ops[3] = "sleep"
                /\ text.ops[4] = "period_2" /\ text.ops[5] = "led_on" /\ text.ops[6] = "period_1"
                /\ text.ops[7] = "led_off" /\ text.ops[8] = "period_2" /\ text.ops[9] = "led_on"
        BY <1>5, RateMon2Text
      <3>3. QED
        BY <3>1, <3>2 DEF Op, NextPc
    <2>2. Op("Init") \in OneOps
      BY <2>1 DEF OneOps
    <2>3. /\ Places' /\ pc' = [pc EXCEPT !["Init"] = NextPc("Init")] /\ lost' = lost
          /\ count' = count
          /\ \/ n \in {1, 3, 4, 6, 8} /\ UNCHANGED <<led, again>>
             \/ n \in {2, 7} /\ Drive("off")
             \/ n \in {5, 9} /\ Drive("on")
      BY <1>1, <2>1, <2>2, OneSteps
    <2>4. /\ pc' \in [Threads -> 1 .. 9] /\ pc'["Init"] \in 1 .. 9
          /\ pc'["Init"] = IF n = 9 THEN 6 ELSE n + 1
      BY <1>1, <2>1, <2>3 DEF OneInv
    <2>5. IF n \in {3, 4, 5, 8, 9} THEN led = "off" ELSE led # "off"
      BY <1>2, <1>5 DEF OneInv, Showing
    <2>6. /\ lost' = lost
          /\ \/ again' = again
             \/ again' = (again \/ led = "off") /\ led # "off"
             \/ again' = (again \/ led = "on") /\ led # "on"
      BY <2>3, <2>5 DEF Drive
    <2>7. ~lost' /\ ~again'
      <3>1. ~lost'
        BY <1>1, <2>6, Zenon
      <3>2. ASSUME again' = again PROVE ~again'
        BY <1>1, <3>2, Zenon
      <3>3. ASSUME NEW v, again' = (again \/ led = v), led # v PROVE ~again'
        BY <1>1, <3>3, Zenon
      <3>4. QED
        BY <2>6, <3>1, <3>2, <3>3, Zenon
    <2>8. IF pc'["Init"] \in {3, 4, 5, 8, 9} THEN led' = "off" ELSE led' # "off"
      BY <2>1, <2>3, <2>4, <2>5 DEF Drive
    <2>9. count' \in [Threads -> 0 .. 1]
      BY <2>3 DEF OneInv
    <2>10. QED
      BY <1>2, <1>5, <2>3, <2>4, <2>7, <2>8, <2>9 DEF OneInv, Showing
  <1>6. QED
    BY <1>2, <1>3, <1>4, <1>5

LEMMA OneKeeps ==
  ASSUME OneInv, program \in OnePrograms, LedNext
  PROVE  OneInv'
  <1>1. program' = program /\ program \in LedPrograms \ {"timer", "timer_server"}
    BY DEF LedNext, OnePrograms, CountPrograms, DelayPrograms
  <1>2. CASE LedTick \/ LedInterrupt
    <2>1. Places' /\ UNCHANGED <<pc, count, led, again, lost>>
      BY <1>1, <1>2, ClockSteps, ClockKeepsPlaces DEF OneInv
    <2>2. ~lost' /\ ~again'
      BY <2>1, Zenon DEF OneInv
    <2>3. QED
      BY <1>1, <2>1, <2>2 DEF OneInv, Showing
  <1>3. QED
    BY <1>1, <1>2, OneKeepsStep DEF LedNext

-----------------------------------------------------------------------------
(* The two timers, of timer and timer_server.                              *)

Timers == {"Timer1", "Timer2"}
OtherTimer(x) == IF x = "Timer1" THEN "Timer2" ELSE "Timer1"

\* No timer has longer to go than it was set for.
TimesOK == \A x \in Timers : \A l : In(alarm, x, l) => l <= TimerTicks

\* Both timers are set, x after the other one; so the other one is due first.
LastSet(x) ==
  /\ Before(alarm, OtherTimer(x), x)
  /\ \A l, m : In(alarm, OtherTimer(x), l) /\ In(alarm, x, m) => l <= m

LEMMA OtherTimers ==
  \A x \in Timers : /\ OtherTimer(x) \in Timers /\ OtherTimer(x) # x /\ OtherTimer(OtherTimer(x)) = x
                    /\ x \in LedAlarms /\ x \notin Threads
                    /\ \A y \in Timers : y = x \/ y = OtherTimer(x)
  BY DEF Timers, OtherTimer, LedAlarms, Threads

\* A step that is not about the timers.
LEMMA TimersSame ==
  ASSUME \A y \in Timers : \A l : In(alarm', y, l) <=> In(alarm, y, l),
         \A y, z \in Timers : Before(alarm, y, z) => Before(alarm', y, z),
         program' = program
  PROVE  (TimesOK => TimesOK') /\ \A x \in Timers : LastSet(x) => LastSet(x)'
  BY OtherTimers DEF TimesOK, LastSet, TimerTicks, OtherTimer

LEMMA TimersTick ==
  ASSUME AlarmsOK(LedAlarms), Tick
  PROVE  (TimesOK => TimesOK') /\ \A x \in Timers : LastSet(x) => LastSet(x)'
  <1>1. /\ AlarmsOK(LedAlarms)'
        /\ \A y : \A l \in Nat : In(alarm', y, l) <=> In(alarm, y, l + 1)
        /\ \A y, z : Before(alarm, y, z) => Before(alarm', y, z)
    BY Ticks
  <1>2. \A y, l : In(alarm', y, l) => l \in Nat
    BY <1>1, SetIsInNext
  <1>3. TimerTicks' = TimerTicks /\ TimerTicks \in Nat
    BY PeriodTicksNat DEF TimerTicks
  <1>4. ASSUME TimesOK, NEW x \in Timers, NEW l, In(alarm', x, l) PROVE l <= TimerTicks
    <2>1. l \in Nat /\ In(alarm, x, l + 1)
      BY <1>1, <1>2, <1>4
    <2>2. l + 1 <= TimerTicks
      BY <1>4, <2>1 DEF TimesOK
    <2>3. QED
      BY <1>3, <2>1, <2>2
  <1>5. ASSUME NEW x \in Timers, LastSet(x) PROVE LastSet(x)'
    <2>1. ASSUME NEW l, NEW m, In(alarm', OtherTimer(x), l), In(alarm', x, m) PROVE l <= m
      <3>1. /\ l \in Nat /\ In(alarm, OtherTimer(x), l + 1)
            /\ m \in Nat /\ In(alarm, x, m + 1)
        BY <1>1, <1>2, <2>1
      <3>2. l + 1 <= m + 1
        BY <1>5, <3>1 DEF LastSet
      <3>3. QED
        BY <3>1, <3>2
    <2>2. QED
      BY <1>1, <1>5, <2>1 DEF LastSet, OtherTimer
  <1>6. QED
    BY <1>3, <1>4, <1>5 DEF TimesOK

\* A timer that is due was set first; it is set again, and is the last.
LEMMA TimerFires ==
  ASSUME AlarmsOK(LedAlarms), NEW x \in Timers, LastSet(x), NEW y \in Timers, Due(y)
  PROVE  y = OtherTimer(x)
  <1>1. SUFFICES ASSUME y = x PROVE FALSE
    BY OtherTimers
  <1>2. /\ In(alarm, x, 0)
        /\ ~In(alarm, OtherTimer(x), 0)
    BY <1>1, UnservedIs DEF LastSet
  <1>3. PICK l \in Nat : In(alarm, OtherTimer(x), l)
    <2>1. IsSet(OtherTimer(x))
      BY DEF LastSet, Before, IsSet, AlarmsOK
    <2>2. QED
      BY <2>1, SetIsIn
  <1>4. l <= 0
    BY <1>2, <1>3 DEF LastSet
  <1>5. l = 0
    BY <1>3, <1>4
  <1>6. QED
    BY <1>2, <1>3, <1>5

LEMMA TimerRenewed ==
  ASSUME AlarmsOK(LedAlarms), TimesOK, NEW y \in Timers, Due(y), Set(y, TimerTicks),
         program' = program
  PROVE  TimesOK' /\ (IsSet(OtherTimer(y)) => LastSet(y)')
  <1>1. /\ TimerTicks \in Nat /\ TimerTicks' = TimerTicks /\ y \in LedAlarms
        /\ OtherTimer(y) # y
    BY PeriodTicksNat, OtherTimers DEF TimerTicks
  <1>2. /\ \A z, l : In(alarm', z, l) <=> (In(alarm, z, l) /\ z # y) \/ (z = y /\ l = TimerTicks)
        /\ \A z : IsSet(z) /\ z # y => Before(alarm', z, y)
    BY <1>1, Renewed
  <1>3. TimesOK'
    BY <1>1, <1>2 DEF TimesOK
  <1>4. ASSUME IsSet(OtherTimer(y)) PROVE LastSet(y)'
    <2>1. \A l, m : In(alarm', OtherTimer(y), l) /\ In(alarm', y, m) => l <= m
      BY <1>1, <1>2, OtherTimers DEF TimesOK
    <2>2. Before(alarm', OtherTimer(y), y)
      BY <1>1, <1>2, <1>4
    <2>3. QED
      BY <2>1, <2>2 DEF LastSet, OtherTimer
  <1>5. QED
    BY <1>3, <1>4

\* A timer that is not set is set.
LEMMA TimerAdded ==
  ASSUME AlarmsOK(LedAlarms), TimesOK, NEW y \in Timers, Quiet, ~IsSet(y), Set(y, TimerTicks),
         program' = program
  PROVE  TimesOK' /\ (IsSet(OtherTimer(y)) => LastSet(y)')
  <1>1. /\ TimerTicks \in Nat /\ TimerTicks' = TimerTicks /\ y \in LedAlarms
        /\ OtherTimer(y) # y
    BY PeriodTicksNat, OtherTimers DEF TimerTicks
  <1>2. /\ \A z, l : In(alarm', z, l) <=> In(alarm, z, l) \/ (z = y /\ l = TimerTicks)
        /\ \A z : IsSet(z) => Before(alarm', z, y)
    BY <1>1, Sets
  <1>3. \A l : ~In(alarm, y, l)
    BY SetIsIn
  <1>4. TimesOK'
    BY <1>1, <1>2 DEF TimesOK
  <1>5. ASSUME IsSet(OtherTimer(y)) PROVE LastSet(y)'
    <2>1. \A l, m : In(alarm', OtherTimer(y), l) /\ In(alarm', y, m) => l <= m
      BY <1>1, <1>2, <1>3, OtherTimers DEF TimesOK
    <2>2. Before(alarm', OtherTimer(y), y)
      BY <1>2, <1>5
    <2>3. QED
      BY <2>1, <2>2 DEF LastSet, OtherTimer
  <1>6. QED
    BY <1>4, <1>5

-----------------------------------------------------------------------------
(* The program timer: an interrupt notes the change, Init shows it.        *)

Shows(x) == IF x = "Timer1" THEN "off" ELSE "on"

\* The change that timer x asked for is still to be shown, or is shown.
Fresh(x) == doPrint = 1 /\ value = TimerNumber(x) /\ led # Shows(x)
Shown(x) == doPrint = 0 /\ led = Shows(x)

\* Until Init sets the second timer.
Starting ==
  LET n == pc["Init"]
  IN  /\ n \in 1 .. 8
      /\ n \in 1 .. 6 => led = "unknown"
      /\ n \in 7 .. 8 => led = "off"
      /\ n = 1 => doPrint = 0
      /\ n \in 2 .. 3 => doPrint = 1 /\ value = 1
      /\ n \in 3 .. 6 => readPrint = 1
      /\ n \in 4 .. 6 => readValue = 1

\* After that, with x the timer that was set last: where Init is in LED_Change_Routine,
\* what it has read and what it has cleared.
Going(x) ==
  LET n == pc["Init"]
  IN  /\ n \in 9 .. 19
      /\ n \in {9, 14, 15} => Fresh(x) \/ Shown(x)
      /\ n \in {10, 16} => \/ readPrint = 1 /\ Fresh(x)
                           \/ readPrint = 0 /\ Shown(x)
      /\ n \in {11, 17} => \/ readPrint = 1 /\ readValue = TimerNumber(x) /\ Fresh(x)
                           \/ readPrint = 0 /\ Shown(x)
      /\ n \in {12, 18} => \/ /\ readPrint = 1 /\ readValue = TimerNumber(x)
                              /\ doPrint = 0 /\ led # Shows(x)
                           \/ readPrint = 0 /\ Shown(x)
      /\ n \in {13, 19} =>
           \/ /\ readPrint = 1 /\ readValue = TimerNumber(x)
              /\ doPrint = 0 /\ led # Shows(x)
           \/ /\ readPrint = 1 /\ readValue = TimerNumber(OtherTimer(x))
              /\ doPrint = 1 /\ value = TimerNumber(x) /\ led # Shows(OtherTimer(x))
           \/ readPrint = 0 /\ (Fresh(x) \/ Shown(x))

Unraced == ~again /\ (Starting \/ \E x \in Timers : LastSet(x) /\ Going(x))

TimerInv ==
  /\ Places /\ pc \in [Threads -> 1 .. 19] /\ TimesOK
  /\ \A x : IsSet(x) => x = "Init" \/ x \in Timers
  /\ IsSet("Timer1") <=> pc["Init"] >= 2
  /\ IsSet("Timer2") <=> pc["Init"] >= 9
  /\ raced \/ Unraced
  /\ ~lost

LEMMA TimerText ==
  ASSUME program = "timer"
  PROVE  LET text == Text[program]["Init"]
         IN  /\ DOMAIN Text[program] = {"Init"} /\ text.loop = 14 /\ Len(text.ops) = 19
             /\ text.ops[1] = "routine_1" /\ text.ops[2] = "read_print"
             /\ text.ops[3] = "read_value" /\ text.ops[4] = "clear_print"
             /\ text.ops[5] = "clear_value" /\ text.ops[6] = "show_change"
             /\ text.ops[7] = "sleep" /\ text.ops[8] = "routine_2"
             /\ text.ops[9] = "read_print" /\ text.ops[10] = "read_value"
             /\ text.ops[11] = "clear_print" /\ text.ops[12] = "clear_value"
             /\ text.ops[13] = "show_change" /\ text.ops[14] = "poll"
             /\ text.ops[15] = "read_print" /\ text.ops[16] = "read_value"
             /\ text.ops[17] = "clear_print" /\ text.ops[18] = "clear_value"
             /\ text.ops[19] = "show_change"
  <1>1. Text[program] = Timer
    BY DEF Text
  <1>2. QED
    BY <1>1 DEF Timer, Prologue, ChangeRoutine

LEMMA TimerOps ==
  ASSUME program = "timer", pc["Init"] \in 1 .. 19
  PROVE  LET n == pc["Init"]
         IN  /\ n = 1 => Op("Init") = "routine_1"
             /\ n \in {2, 9, 15} => Op("Init") = "read_print"
             /\ n \in {3, 10, 16} => Op("Init") = "read_value"
             /\ n \in {4, 11, 17} => Op("Init") = "clear_print"
             /\ n \in {5, 12, 18} => Op("Init") = "clear_value"
             /\ n \in {6, 13, 19} => Op("Init") = "show_change"
             /\ n = 7 => Op("Init") = "sleep"
             /\ n = 8 => Op("Init") = "routine_2"
             /\ n = 14 => Op("Init") = "poll"
             /\ NextPc("Init") = IF n = 19 THEN 14 ELSE n + 1
             /\ InCriticalSection <=> n \in {3, 4, 5, 10, 11, 12, 16, 17, 18}
             /\ n \in {1, 7, 8, 14} \/ n \in {2, 9, 15} \/ n \in {3, 10, 16} \/ n \in {4, 11, 17}
                  \/ n \in {5, 12, 18} \/ n \in {6, 13, 19}
  <1> DEFINE n == pc["Init"]
  <1>1. n \in 1 .. 19
    OBVIOUS
  <1>2. /\ n = 1 => Op("Init") = "routine_1"
        /\ n \in {2, 9, 15} => Op("Init") = "read_print"
        /\ n \in {3, 10, 16} => Op("Init") = "read_value"
        /\ n \in {4, 11, 17} => Op("Init") = "clear_print"
        /\ n \in {5, 12, 18} => Op("Init") = "clear_value"
        /\ n \in {6, 13, 19} => Op("Init") = "show_change"
        /\ n = 7 => Op("Init") = "sleep"
        /\ n = 8 => Op("Init") = "routine_2"
        /\ n = 14 => Op("Init") = "poll"
    BY TimerText DEF Op
  <1>3. NextPc("Init") = IF n = 19 THEN 14 ELSE n + 1
    BY <1>1, TimerText DEF NextPc
  <1> HIDE DEF n
  <1>4. /\ n \in {1, 7, 8, 14} \/ n \in {2, 9, 15} \/ n \in {3, 10, 16} \/ n \in {4, 11, 17}
             \/ n \in {5, 12, 18} \/ n \in {6, 13, 19}
    BY <1>1
  <1>5. InCriticalSection <=> Op("Init") \in {"read_value", "clear_print", "clear_value"}
    BY DEF InCriticalSection, Op
  <1>6. InCriticalSection <=> n \in {3, 4, 5, 10, 11, 12, 16, 17, 18}
    BY <1>2, <1>4, <1>5
  <1>7. QED
    BY <1>2, <1>3, <1>4, <1>6 DEF n

\* A step of LED_Change_Routine, by where Init is.
ChangeStep ==
  LET n == pc["Init"]
      same == led' = led /\ again' = again
  IN  \/ /\ n \in {2, 9, 15} /\ same
         /\ readPrint' = doPrint /\ UNCHANGED <<doPrint, value, readValue>>
      \/ /\ n \in {3, 10, 16} /\ same
         /\ readValue' = value /\ UNCHANGED <<doPrint, value, readPrint>>
      \/ /\ n \in {4, 11, 17} /\ same
         /\ doPrint' = 0 /\ UNCHANGED <<value, readPrint, readValue>>
      \/ n \in {5, 12, 18} /\ same /\ UNCHANGED <<doPrint, readPrint, readValue>>
      \/ /\ n \in {6, 13, 19}
         /\ UNCHANGED <<doPrint, value, readPrint, readValue>>
         /\ IF readPrint = 0 THEN same ELSE Drive(IF readValue = 1 THEN "off" ELSE "on")

\* What Init does to the data, by where it is.
LEMMA TimerSteps ==
  ASSUME Places, program = "timer", pc["Init"] \in 1 .. 19, NEW t \in Threads, LedStep(t)
  PROVE  LET n == pc["Init"]
             same == led' = led /\ again' = again
         IN  /\ t = "Init" /\ Runs("Init") /\ pc' = [pc EXCEPT !["Init"] = NextPc("Init")]
             /\ lost' = lost
             /\ \/ /\ n \in {7, 14} /\ same /\ raced' = raced /\ blocked' = blocked
                   /\ \E k \in Nat : Sleeps("Init", k)
                   /\ UNCHANGED <<doPrint, value, readPrint, readValue>>
                \/ /\ n \in {1, 8} /\ same /\ Proceed("Init")
                   /\ doPrint' = 1 /\ value' = (IF n = 1 THEN 1 ELSE 2)
                   /\ Set(IF n = 1 THEN "Timer1" ELSE "Timer2", TimerTicks)
                   /\ raced' = (raced \/ doPrint = 1)
                   /\ UNCHANGED <<readPrint, readValue>>
                \/ /\ Proceed("Init") /\ alarm' = alarm /\ raced' = raced /\ ChangeStep
  <1> DEFINE n == pc["Init"]
  <1>1. t = "Init" /\ Runs("Init")
    BY OpOf, TimerText DEF Threads
  <1>2. /\ n = 1 => Op("Init") = "routine_1"
        /\ n \in {2, 9, 15} => Op("Init") = "read_print"
        /\ n \in {3, 10, 16} => Op("Init") = "read_value"
        /\ n \in {4, 11, 17} => Op("Init") = "clear_print"
        /\ n \in {5, 12, 18} => Op("Init") = "clear_value"
        /\ n \in {6, 13, 19} => Op("Init") = "show_change"
        /\ n = 7 => Op("Init") = "sleep"
        /\ n = 8 => Op("Init") = "routine_2"
        /\ n = 14 => Op("Init") = "poll"
        /\ n \in {1, 7, 8, 14} \/ n \in {2, 9, 15} \/ n \in {3, 10, 16} \/ n \in {4, 11, 17}
             \/ n \in {5, 12, 18} \/ n \in {6, 13, 19}
    BY TimerOps
  <1>3. LedStep("Init")
    BY <1>1
  <1> HIDE DEF n
  <1>4. ASSUME n \in {7, 14}
        PROVE  /\ Advance("Init") /\ UNCHANGED <<led, again, raced, lost, blocked>>
               /\ \E k \in Nat : Sleeps("Init", k)
               /\ UNCHANGED <<doPrint, value, readPrint, readValue>>
    <2>1. Sleep("Init")
      <3>1. Op("Init") \in {"sleep", "poll"}
        BY <1>2, <1>4
      <3>2. QED
        BY <1>3, <3>1, OpOf
    <2>2. QED
      BY <2>1, PeriodTicksNat DEF Sleep, timer, lamp, history
  <1>5. ASSUME n \in {1, 8}
        PROVE  /\ Advance("Init") /\ UNCHANGED <<led, again, lost>> /\ Proceed("Init")
               /\ doPrint' = 1 /\ value' = (IF n = 1 THEN 1 ELSE 2)
               /\ Set(IF n = 1 THEN "Timer1" ELSE "Timer2", TimerTicks)
               /\ raced' = (raced \/ doPrint = 1)
               /\ UNCHANGED <<readPrint, readValue>>
    <2>1. \/ n = 1 /\ Routine("Init", "Timer1", "routine_1")
          \/ n = 8 /\ Routine("Init", "Timer2", "routine_2")
      <3>1. \/ n = 1 /\ Op("Init") = "routine_1"
            \/ n = 8 /\ Op("Init") = "routine_2"
        BY <1>2, <1>5
      <3>2. QED
        BY <1>3, <3>1, OpOf
    <2>2. QED
      BY <2>1 DEF Routine, NoteChange, TimerNumber, lamp
  <1>6. ASSUME n \in {2, 9, 15} \/ n \in {3, 10, 16} \/ n \in {4, 11, 17}
                 \/ n \in {5, 12, 18} \/ n \in {6, 13, 19}
        PROVE  /\ Change("Init") /\ Advance("Init") /\ Proceed("Init")
               /\ UNCHANGED <<alarm, raced, lost>>
    <2>1. Op("Init") \in {"read_print", "read_value", "clear_print", "clear_value", "show_change"}
      BY <1>2, <1>6
    <2>2. Change("Init")
      BY <1>3, <2>1, OpOf
    <2>3. QED
      BY <2>2 DEF Change, history
  <1>7. /\ n \in {2, 9, 15} => /\ UNCHANGED <<led, again, doPrint, value, readValue>>
                               /\ readPrint' = doPrint
        /\ n \in {3, 10, 16} => /\ UNCHANGED <<led, again, doPrint, value, readPrint>>
                                /\ readValue' = value
        /\ n \in {4, 11, 17} => /\ UNCHANGED <<led, again, value, readPrint, readValue>>
                                /\ doPrint' = 0
    BY <1>2, <1>6 DEF Change, At, Op, lamp
  <1>8. /\ n \in {5, 12, 18} => UNCHANGED <<led, again, doPrint, readPrint, readValue>>
        /\ n \in {6, 13, 19} => /\ UNCHANGED <<doPrint, value, readPrint, readValue>>
                                /\ IF readPrint = 0 THEN UNCHANGED <<led, again>>
                                     ELSE Drive(IF readValue = 1 THEN "off" ELSE "on")
    BY <1>2, <1>6 DEF Change, At, Op, lamp, timer
  <1>9. Advance("Init") /\ lost' = lost
    BY <1>2, <1>4, <1>5, <1>6
  <1>10. n \notin {1, 7, 8, 14} => ChangeStep
    BY <1>2, <1>7, <1>8 DEF ChangeStep, n
  <1>11. QED
    BY <1>1, <1>2, <1>4, <1>5, <1>6, <1>9, <1>10, Advances DEF n

LEMMA TimerShows ==
  \A x \in Timers : /\ TimerNumber(x) \in {1, 2} /\ TimerNumber(OtherTimer(x)) = 3 - TimerNumber(x)
                    /\ (IF TimerNumber(x) = 1 THEN "off" ELSE "on") = Shows(x)
                    /\ Shows(x) # Shows(OtherTimer(x)) /\ Shows(x) \in {"off", "on"}
  BY DEF Timers, TimerNumber, Shows, OtherTimer

LEMMA StartingMoves ==
  ASSUME Starting, ChangeStep, pc'["Init"] = pc["Init"] + 1
  PROVE  /\ Starting' /\ pc'["Init"] < 9
         /\ \/ again' = again
            \/ \E v : again' = (again \/ led = v) /\ led # v
  <1>1. pc["Init"] \in {2, 3, 4, 5, 6}
    BY DEF Starting, ChangeStep
  <1>2. CASE pc["Init"] \in {2, 3, 4, 5}
    BY <1>1, <1>2 DEF Starting, ChangeStep
  <1>3. CASE pc["Init"] = 6
    <2>1. /\ readPrint = 1 /\ readValue = 1 /\ led = "unknown"
      BY <1>3 DEF Starting
    <2>2. Drive("off")
      BY <1>3, <2>1 DEF ChangeStep
    <2>3. again' = (again \/ led = "off") /\ led # "off" /\ led' = "off"
      BY <2>1, <2>2 DEF Drive
    <2>4. QED
      BY <1>3, <2>3 DEF Starting
  <1>4. QED
    BY <1>1, <1>2, <1>3

LEMMA GoingMoves ==
  ASSUME NEW x \in Timers, Going(x), ChangeStep,
         pc'["Init"] = IF pc["Init"] = 19 THEN 14 ELSE pc["Init"] + 1
  PROVE  /\ Going(x)' /\ pc'["Init"] >= 9
         /\ \/ again' = again
            \/ \E v : again' = (again \/ led = v) /\ led # v
  <1>1. pc["Init"] \in {9, 15} \/ pc["Init"] \in {10, 16} \/ pc["Init"] \in {11, 17}
          \/ pc["Init"] \in {12, 18} \/ pc["Init"] \in {13, 19}
    BY DEF Going, ChangeStep
  <1>2. CASE pc["Init"] \in {9, 15}
    BY <1>2 DEF Going, ChangeStep, Fresh, Shown
  <1>3. CASE pc["Init"] \in {10, 16}
    BY <1>3 DEF Going, ChangeStep, Fresh, Shown
  <1>4. CASE pc["Init"] \in {11, 17}
    BY <1>4 DEF Going, ChangeStep, Fresh, Shown
  <1>5. CASE pc["Init"] \in {12, 18}
    BY <1>5 DEF Going, ChangeStep, Fresh, Shown
  <1>6. CASE pc["Init"] \in {13, 19}
    <2>1. pc'["Init"] = 14
      BY <1>6
    <2>2. ASSUME NEW y \in Timers, readPrint = 1, readValue = TimerNumber(y), led # Shows(y)
          PROVE  /\ led' = Shows(y) /\ again' = (again \/ led = Shows(y))
                 /\ UNCHANGED <<doPrint, value>>
      <3>1. Drive(Shows(y))
        BY <1>6, <2>2, TimerShows DEF ChangeStep
      <3>2. QED
        BY <1>6, <3>1 DEF ChangeStep, Drive
    <2>3. CASE /\ readPrint = 1 /\ readValue = TimerNumber(x)
               /\ doPrint = 0 /\ led # Shows(x)
      <3>1. Shown(x)' /\ again' = (again \/ led = Shows(x))
        BY <2>2, <2>3 DEF Shown, Shows
      <3>2. QED
        BY <2>1, <2>3, <3>1 DEF Going
    <2>4. CASE /\ readPrint = 1 /\ readValue = TimerNumber(OtherTimer(x))
               /\ doPrint = 1 /\ value = TimerNumber(x) /\ led # Shows(OtherTimer(x))
      <3>1. OtherTimer(x) \in Timers /\ Shows(OtherTimer(x)) # Shows(x)
        BY OtherTimers, TimerShows
      <3>2. /\ led' = Shows(OtherTimer(x)) /\ again' = (again \/ led = Shows(OtherTimer(x)))
            /\ UNCHANGED <<doPrint, value>>
        BY <2>2, <2>4, <3>1
      <3>3. Fresh(x)'
        BY <2>4, <3>1, <3>2 DEF Fresh, Shows, TimerNumber
      <3>4. QED
        BY <2>1, <2>4, <3>2, <3>3 DEF Going
    <2>5. CASE readPrint = 0 /\ (Fresh(x) \/ Shown(x))
      <3>1. UNCHANGED <<doPrint, value, led, again>>
        BY <1>6, <2>5 DEF ChangeStep
      <3>2. QED
        BY <2>1, <2>5, <3>1 DEF Going, Fresh, Shown
    <2>6. QED
      BY <1>6, <2>3, <2>4, <2>5 DEF Going
  <1>7. QED
    BY <1>1, <1>2, <1>3, <1>4, <1>5, <1>6

\* An interrupt that came upon a change once stays known.
LEMMA StaysRaced ==
  ASSUME NEW b, raced' = raced \/ raced' = (raced \/ b), raced
  PROVE  raced'
  BY Zenon

LEMMA StaysUnraced ==
  ASSUME ~again, again' = again \/ \E v : again' = (again \/ led = v) /\ led # v
  PROVE  ~again'
  <1>1. ASSUME again' = again PROVE ~again'
    BY <1>1, Zenon
  <1>2. ASSUME NEW v, again' = (again \/ led = v), led # v PROVE ~again'
    BY <1>2, Zenon
  <1>3. QED
    BY <1>1, <1>2, Zenon

LEMMA TimerKeepsStep ==
  ASSUME TimerInv, program = "timer", program' = program, NEW t \in Threads, LedStep(t)
  PROVE  TimerInv'
  <1> DEFINE n == pc["Init"]
             same == led' = led /\ again' = again
  <1>1. /\ Places /\ pc \in [Threads -> 1 .. 19] /\ n \in 1 .. 19 /\ "Init" \in Threads
        /\ program \in LedPrograms /\ AlarmsOK(LedAlarms) /\ TimesOK
    BY DEF TimerInv, Places, Threads, LedPrograms, Text
  <1>2. /\ Runs("Init") /\ pc' = [pc EXCEPT !["Init"] = NextPc("Init")] /\ lost' = lost
        /\ \/ /\ n \in {7, 14} /\ same /\ raced' = raced /\ blocked' = blocked
              /\ \E k \in Nat : Sleeps("Init", k)
              /\ UNCHANGED <<doPrint, value, readPrint, readValue>>
           \/ /\ n \in {1, 8} /\ same /\ Proceed("Init")
              /\ doPrint' = 1 /\ value' = (IF n = 1 THEN 1 ELSE 2)
              /\ Set(IF n = 1 THEN "Timer1" ELSE "Timer2", TimerTicks)
              /\ raced' = (raced \/ doPrint = 1)
              /\ UNCHANGED <<readPrint, readValue>>
           \/ Proceed("Init") /\ alarm' = alarm /\ raced' = raced /\ ChangeStep
    BY <1>1, TimerSteps
  <1>3. NextPc("Init") = IF n = 19 THEN 14 ELSE n + 1
    BY <1>1, TimerOps
  <1>4. /\ pc' \in [Threads -> 1 .. 19]
        /\ pc'["Init"] = IF n = 19 THEN 14 ELSE n + 1
    BY <1>1, <1>2, <1>3
  <1>5. ~lost'
    <2>1. ~lost
      BY DEF TimerInv
    <2>2. lost' = lost
      BY <1>2
    <2>3. QED
      BY <2>1, <2>2, Zenon
  <1>6. /\ IsSet("Timer1") <=> n >= 2
        /\ IsSet("Timer2") <=> n >= 9
        /\ \A x : IsSet(x) => x = "Init" \/ x \in Timers
    BY DEF TimerInv
  <1>7. CASE /\ n \in {7, 14} /\ same /\ raced' = raced /\ blocked' = blocked
             /\ \E k \in Nat : Sleeps("Init", k)
             /\ UNCHANGED <<doPrint, value, readPrint, readValue>>
    <2>1. PICK k \in Nat : Sleeps("Init", k)
      BY <1>7
    <2>2. /\ Places'
          /\ \A x : x # "Init" => (IsSet(x)' <=> IsSet(x))
          /\ \A x, l : In(alarm', x, l) <=> In(alarm, x, l) \/ (x = "Init" /\ l = k)
          /\ \A x, y : Before(alarm, x, y) => Before(alarm', x, y)
      BY <1>1, <1>2, <1>7, <2>1, PlacesSleeps
    <2>3. \A y \in Timers : \A l : In(alarm', y, l) <=> In(alarm, y, l)
      BY <2>2 DEF Timers
    <2>4. TimesOK' /\ \A x \in Timers : LastSet(x) => LastSet(x)'
      BY <1>1, <2>2, <2>3, TimersSame
    <2>5. /\ IsSet("Timer1")' <=> pc'["Init"] >= 2
          /\ IsSet("Timer2")' <=> pc'["Init"] >= 9
          /\ \A x : IsSet(x)' => x = "Init" \/ x \in Timers
      BY <1>4, <1>6, <1>7, <2>2
    <2>6. raced => raced'
      BY <1>7, Zenon
    <2>7. ASSUME Unraced PROVE Unraced'
      <3>1. ~again'
        BY <1>7, <2>7, Zenon DEF Unraced
      <3>2. Starting => Starting'
        BY <1>4, <1>7 DEF Starting
      <3>3. \A x \in Timers : Going(x) => Going(x)'
        BY <1>4, <1>7 DEF Going, Fresh, Shown
      <3>4. QED
        BY <2>4, <2>7, <3>1, <3>2, <3>3 DEF Unraced
    <2>8. raced' \/ Unraced'
      BY <2>6, <2>7, Zenon DEF TimerInv
    <2>9. QED
      BY <1>4, <1>5, <2>2, <2>4, <2>5, <2>8 DEF TimerInv
  <1>8. CASE /\ n \in {1, 8} /\ same /\ Proceed("Init")
             /\ doPrint' = 1 /\ value' = (IF n = 1 THEN 1 ELSE 2)
             /\ Set(IF n = 1 THEN "Timer1" ELSE "Timer2", TimerTicks)
             /\ raced' = (raced \/ doPrint = 1)
             /\ UNCHANGED <<readPrint, readValue>>
    <2>0. PICK x \in Timers : x = IF n = 1 THEN "Timer1" ELSE "Timer2"
      BY DEF Timers
    <2>1. /\ x \in Timers /\ ~IsSet(x) /\ Quiet /\ Set(x, TimerTicks)
          /\ UNCHANGED <<ready, blocked, awaiting>>
      BY <1>2, <1>6, <1>8, <2>0 DEF Proceed, Goes, period, Runs
    <2>2. x \in {"Timer1", "Timer2"}
      BY <2>0
    <2>3. /\ Places' /\ IsSet(x)'
          /\ \A y : y # x => (IsSet(y)' <=> IsSet(y))
      BY <1>1, <2>1, <2>2, PlacesSets, PeriodTicksNat
    <2>4. TimesOK' /\ (IsSet(OtherTimer(x)) => LastSet(x)')
      BY <1>1, <2>1, TimerAdded
    <2>5. /\ IsSet("Timer1")' <=> pc'["Init"] >= 2
          /\ IsSet("Timer2")' <=> pc'["Init"] >= 9
          /\ \A y : IsSet(y)' => y = "Init" \/ y \in Timers
      BY <1>4, <1>6, <1>8, <2>0, <2>3 DEF Timers
    <2>6. (raced \/ doPrint = 1) => raced'
      BY <1>8, Zenon
    <2>7. ASSUME Unraced, doPrint # 1 PROVE Unraced'
      <3>1. ~again'
        BY <1>8, <2>7, Zenon DEF Unraced
      <3>2. Starting
        BY <1>8, <2>7 DEF Unraced, Going
      <3>3. CASE n = 1
        <4>1. Starting'
          BY <1>4, <1>8, <3>2, <3>3 DEF Starting
        <4>2. QED
          BY <3>1, <4>1 DEF Unraced
      <3>4. CASE n = 8
        <4>1. x = "Timer2" /\ OtherTimer(x) = "Timer1" /\ IsSet("Timer1")
          BY <1>6, <2>0, <3>4 DEF OtherTimer
        <4>2. pc'["Init"] = 9 /\ led' = "off" /\ doPrint' = 1 /\ value' = 2
          BY <1>4, <1>8, <3>2, <3>4 DEF Starting
        <4>3. Fresh("Timer2")'
          BY <4>2 DEF Fresh, TimerNumber, Shows
        <4>4. Going("Timer2")'
          BY <4>2, <4>3 DEF Going
        <4>5. QED
          BY <2>1, <2>4, <3>1, <4>1, <4>4 DEF Unraced
      <3>5. QED
        BY <1>8, <3>3, <3>4
    <2>8. raced' \/ Unraced'
      BY <2>6, <2>7, Zenon DEF TimerInv
    <2>9. QED
      BY <1>4, <1>5, <2>3, <2>4, <2>5, <2>8 DEF TimerInv
  <1>9. CASE Proceed("Init") /\ alarm' = alarm /\ raced' = raced /\ ChangeStep
    <2>1. Places' /\ \A x : IsSet(x)' <=> IsSet(x)
      BY <1>1, <1>9, Proceeds
    <2>2. TimesOK' /\ \A x \in Timers : LastSet(x) => LastSet(x)'
      BY <1>1, <1>9, TimersSame
    <2>3. n \notin {1, 8}
      BY <1>1, <1>9 DEF ChangeStep
    <2>4. /\ IsSet("Timer1")' <=> pc'["Init"] >= 2
          /\ IsSet("Timer2")' <=> pc'["Init"] >= 9
          /\ \A x : IsSet(x)' => x = "Init" \/ x \in Timers
      BY <1>1, <1>4, <1>6, <2>1, <2>3
    <2>5. raced => raced'
      BY <1>9, Zenon
    <2>6. ASSUME Unraced PROVE Unraced'
      <3>1. ~again
        BY <2>6 DEF Unraced
      <3>2. CASE Starting
        <4>1. pc'["Init"] = n + 1
          BY <1>4, <3>2 DEF Starting
        <4>2. /\ Starting'
              /\ again' = again \/ \E v : again' = (again \/ led = v) /\ led # v
          BY <1>9, <3>2, <4>1, StartingMoves
        <4>3. ~again'
          BY <3>1, <4>2, StaysUnraced
        <4>4. QED
          BY <4>2, <4>3 DEF Unraced
      <3>3. ASSUME NEW x \in Timers, LastSet(x), Going(x) PROVE Unraced'
        <4>1. /\ Going(x)'
              /\ again' = again \/ \E v : again' = (again \/ led = v) /\ led # v
          BY <1>4, <1>9, <3>3, GoingMoves
        <4>2. ~again'
          BY <3>1, <4>1, StaysUnraced
        <4>3. QED
          BY <2>2, <3>3, <4>1, <4>2 DEF Unraced
      <3>4. QED
        BY <2>6, <3>2, <3>3 DEF Unraced
    <2>7. raced' \/ Unraced'
      BY <2>5, <2>6, Zenon DEF TimerInv
    <2>8. QED
      BY <1>4, <1>5, <2>1, <2>2, <2>4, <2>7 DEF TimerInv
  <1>10. QED
    BY <1>2, <1>7, <1>8, <1>9

\* An interrupt that comes upon no change asks for the other one.
LEMMA GoingRenewed ==
  ASSUME NEW x \in Timers, Going(x), doPrint # 1, ~InCriticalSection, program = "timer",
         NEW y, y = OtherTimer(x), doPrint' = 1, value' = TimerNumber(y),
         UNCHANGED <<pc, readPrint, readValue, led>>
  PROVE  Going(y)'
  <1>1. pc["Init"] \in 9 .. 19
    BY DEF Going
  <1>2. pc["Init"] \in {9, 14, 15} \/ pc["Init"] \in {13, 19}
    BY <1>1, TimerOps
  <1>3. /\ y \in Timers /\ OtherTimer(y) = x /\ Shows(y) # Shows(x)
    BY OtherTimers, TimerShows
  <1>4. CASE pc["Init"] \in {9, 14, 15}
    <2>1. Shown(x)
      BY <1>4 DEF Going, Fresh
    <2>2. Fresh(y)'
      BY <1>3, <2>1 DEF Fresh, Shown, Shows, TimerNumber
    <2>3. QED
      BY <1>4, <2>2 DEF Going
  <1>5. CASE pc["Init"] \in {13, 19}
    <2>1. CASE readPrint = 1 /\ readValue = TimerNumber(x) /\ led # Shows(x)
      <3>1. /\ readPrint' = 1 /\ readValue' = TimerNumber(OtherTimer(y))
            /\ doPrint' = 1 /\ value' = TimerNumber(y) /\ led' # Shows(OtherTimer(y))
        BY <1>3, <2>1
      <3>2. QED
        BY <1>5, <3>1 DEF Going, TimerNumber, OtherTimer, Shows
    <2>2. CASE readPrint = 0 /\ Shown(x)
      <3>1. Fresh(y)'
        BY <1>3, <2>2 DEF Fresh, Shown, Shows, TimerNumber
      <3>2. QED
        BY <1>5, <2>2, <3>1 DEF Going
    <2>3. QED
      BY <1>5, <2>1, <2>2 DEF Going, Fresh
  <1>6. QED
    BY <1>2, <1>4, <1>5

LEMMA TimerKeepsInterrupt ==
  ASSUME TimerInv, program = "timer", program' = program, NEW x \in Timers, TimerInterrupt(x)
  PROVE  TimerInv'
  <1> DEFINE n == pc["Init"]
  <1>1. /\ Places /\ pc \in [Threads -> 1 .. 19] /\ n \in 1 .. 19
        /\ AlarmsOK(LedAlarms) /\ TimesOK /\ ~lost /\ x \in {"Timer1", "Timer2"}
    BY DEF TimerInv, Places, Threads, Timers
  <1>2. /\ Due(x) /\ Set(x, TimerTicks) /\ value' = TimerNumber(x) /\ doPrint' = 1
        /\ raced' = (raced \/ doPrint = 1 \/ InCriticalSection)
        /\ UNCHANGED <<ready, pc, blocked, count, awaiting, readPrint, readValue, led, again, lost>>
    BY DEF TimerInterrupt, Serves, NoteChange, thread, period, lamp
  <1>3. Places' /\ \A y : IsSet(y)' <=> IsSet(y)
    BY <1>1, <1>2, PlacesRenews, PeriodTicksNat
  <1>4. IsSet(x)
    BY <1>2 DEF Due, IsSet
  <1>5. TimesOK' /\ (IsSet(OtherTimer(x)) => LastSet(x)')
    BY <1>1, <1>2, TimerRenewed
  <1>6. (raced \/ doPrint = 1 \/ InCriticalSection) => raced'
    BY <1>2, Zenon
  <1>7. ASSUME Unraced, doPrint # 1, ~InCriticalSection PROVE Unraced'
    <2>1. ~again'
      BY <1>2, <1>7, Zenon DEF Unraced
    <2>2. CASE Starting
      <3>1. n >= 2 /\ n <= 8
        BY <1>4, <2>2 DEF Starting, TimerInv, Timers
      <3>2. n \in {6, 7, 8}
        BY <1>1, <1>7, <2>2, <3>1, TimerOps DEF Starting
      <3>3. Starting'
        BY <1>2, <2>2, <3>2 DEF Starting
      <3>4. QED
        BY <2>1, <3>3 DEF Unraced
    <2>3. ASSUME NEW z \in Timers, LastSet(z), Going(z) PROVE Unraced'
      <3>1. x = OtherTimer(z) /\ OtherTimer(x) = z
        BY <1>1, <1>2, <2>3, TimerFires, OtherTimers
      <3>2. IsSet(z)
        <4>1. n >= 9
          BY <2>3 DEF Going
        <4>2. QED
          BY <1>1, <4>1 DEF TimerInv, Timers
      <3>3. LastSet(x)'
        BY <1>5, <3>1, <3>2
      <3>4. Going(x)'
        BY <1>2, <1>7, <2>3, <3>1, GoingRenewed
      <3>5. QED
        BY <2>1, <3>3, <3>4 DEF Unraced
    <2>4. QED
      BY <1>7, <2>2, <2>3 DEF Unraced
  <1>8. raced' \/ Unraced'
    BY <1>6, <1>7, Zenon DEF TimerInv
  <1>9. ~lost'
    BY <1>1, <1>2, Zenon
  <1>10. QED
    BY <1>2, <1>3, <1>5, <1>8, <1>9 DEF TimerInv

LEMMA TimerKeeps ==
  ASSUME TimerInv, program = "timer", LedNext
  PROVE  TimerInv'
  <1>1. /\ Places /\ program' = program /\ program \in LedPrograms
        /\ AlarmsOK(LedAlarms) /\ ~lost
    BY DEF TimerInv, Places, LedNext
  <1>2. ASSUME Places', TimesOK', \A x \in Timers : LastSet(x) => LastSet(x)',
               \A x : x # "Init" => (IsSet(x)' <=> IsSet(x)),
               UNCHANGED <<pc, doPrint, value, readPrint, readValue, led, again, lost, raced>>
        PROVE  TimerInv'
    <2>1. raced => raced'
      BY <1>2, Zenon
    <2>2. ASSUME Unraced PROVE Unraced'
      <3>1. ~again'
        BY <1>2, <2>2, Zenon DEF Unraced
      <3>2. (Starting => Starting') /\ \A x \in Timers : Going(x) => Going(x)'
        BY <1>2 DEF Starting, Going, Fresh, Shown
      <3>3. QED
        BY <1>2, <2>2, <3>1, <3>2 DEF Unraced
    <2>3. raced' \/ Unraced'
      BY <2>1, <2>2, Zenon DEF TimerInv
    <2>4. ~lost'
      BY <1>1, <1>2, Zenon
    <2>5. QED
      BY <1>2, <2>3, <2>4 DEF TimerInv
  <1>3. \A x : Due(x) => IsSet(x)
    BY DEF Due, IsSet
  <1>4. CASE LedTick
    <2>1. /\ Tick
          /\ UNCHANGED <<pc, blocked, doPrint, value, readPrint, readValue, led, again, lost, raced>>
      BY <1>4 DEF LedTick, thread, timer, lamp, history
    <2>2. Places' /\ \A x : IsSet(x)' <=> IsSet(x)
      BY <1>1, <2>1, PlacesTicks
    <2>3. TimesOK' /\ \A x \in Timers : LastSet(x) => LastSet(x)'
      BY <1>1, <2>1, TimersTick DEF TimerInv
    <2>4. QED
      BY <1>2, <2>1, <2>2, <2>3
  <1>5. ASSUME NEW t \in Threads, SleepEnds(t) PROVE TimerInv'
    <2>1. /\ SleepIsOver(t) /\ Due(t)
          /\ UNCHANGED <<pc, blocked, doPrint, value, readPrint, readValue, led, again, lost, raced>>
      BY <1>5 DEF SleepEnds, SleepIsOver, Serves, thread, timer, lamp, history
    <2>2. t = "Init"
      BY <1>3, <2>1 DEF TimerInv, Timers, Threads
    <2>3. /\ Places' /\ \A x : x # "Init" => (IsSet(x)' <=> IsSet(x))
          /\ \A y, l : In(alarm', y, l) <=> In(alarm, y, l) /\ y # "Init"
          /\ \A y, z : Before(alarm, y, z) /\ y # "Init" /\ z # "Init" => Before(alarm', y, z)
      BY <1>1, <2>1, <2>2, PlacesWakes
    <2>4. \A y \in Timers : y # "Init"
      BY DEF Timers
    <2>5. TimesOK' /\ \A x \in Timers : LastSet(x) => LastSet(x)'
      BY <1>1, <2>3, <2>4, TimersSame DEF TimerInv
    <2>6. QED
      BY <1>2, <2>1, <2>3, <2>5
  <1>6. \A p \in {"Period1", "Period2"} : ~PeriodExpires(p)
    BY <1>3 DEF PeriodExpires, PeriodEnds, TimerInv, Timers
  <1>7. \A x \in {"Timer1", "Timer2"} : ~TimerExpires(x)
    BY DEF TimerExpires
  <1>8. LedInterrupt => (\E t \in Threads : SleepEnds(t)) \/ \E x \in Timers : TimerInterrupt(x)
    BY <1>6, <1>7 DEF LedInterrupt, Timers
  <1>9. QED
    BY <1>1, <1>4, <1>5, <1>8, TimerKeepsStep, TimerKeepsInterrupt DEF LedNext

-----------------------------------------------------------------------------
(* The program timer_server: the interrupt leaves the server the timers.   *)

\* No step takes a second.
Prompt == Slow["timer_server"] \in Nat /\ Slow["timer_server"] < TicksPerSecond

\* Init is still to set the first timer; it has set it; it sleeps; it is still to set
\* the second timer.
Setting ==
  /\ pc["Init"] = 1 /\ First("Init") /\ blocked["Server"] = "no" /\ due = <<>>
  /\ \A x : ~IsSet(x)
  /\ spent["Server"] = 0 /\ led = "unknown"
SetOne ==
  /\ pc["Init"] = 2 /\ First("Init") /\ blocked["Server"] = "no" /\ due = <<>>
  /\ In(alarm, "Timer1", TimerTicks - spent["Init"]) /\ spent["Init"] <= Slow["timer_server"]
  /\ ~IsSet("Timer2")
  /\ spent["Server"] = 0 /\ led = "off"
Asleep ==
  /\ pc["Init"] = 3 /\ due = <<>>
  /\ \E a, l \in Nat :
       /\ In(alarm, "Init", a) /\ In(alarm, "Timer1", l) /\ l > a
       /\ blocked["Server"] = "no" =>
            /\ First("Server") /\ spent["Server"] + a = TicksPerSecond
            /\ spent["Server"] <= Slow["timer_server"]
  /\ ~IsSet("Timer2") /\ led = "off"
Paused ==
  /\ pc["Init"] = 3 /\ First("Init")
  /\ \/ due = <<>> /\ blocked["Server"] = "timer" /\ IsSet("Timer1")
     \/ due = <<"Timer1">> /\ ~IsSet("Timer1") /\ blocked["Server"] = "no"
  /\ ~IsSet("Timer2") /\ led = "off"

\* With x the timer that was served last: the other one is to be served first.
Serving(x) ==
  LET y == OtherTimer(x)
  IN  /\ led = Shows(x)
      /\ \/ due = <<>> /\ LastSet(x)
         \/ due = <<y>> /\ IsSet(x) /\ ~IsSet(y)
         \/ due = <<y, x>> /\ ~IsSet(x) /\ ~IsSet(y)
Alternating ==
  /\ pc["Init"] = 4 /\ ~IsSet("Init")
  /\ blocked["Server"] = "timer" => due = <<>>
  /\ \E x \in Timers : Serving(x)

ServerInv ==
  /\ Places /\ pc \in [Threads -> 1 .. 4] /\ pc["Server"] = 1 /\ spent \in [Threads -> Nat]
  /\ TimesOK
  /\ \A x : IsSet(x) => x = "Init" \/ x \in Timers
  /\ Up("Server") <=> blocked["Server"] = "no"
  /\ blocked["Server"] \in {"no", "timer"} /\ blocked["Init"] = "no"
  /\ Setting \/ SetOne \/ Asleep \/ Paused \/ Alternating
  /\ ~lost /\ ~again

LEMMA ServerText ==
  ASSUME program = "timer_server"
  PROVE  LET text == Text[program]["Init"]
             server == Text[program]["Server"]
         IN  /\ DOMAIN Text[program] = Threads /\ text.loop = 4 /\ Len(text.ops) = 4
             /\ text.ops[1] = "routine_1" /\ text.ops[2] = "sleep" /\ text.ops[3] = "routine_2"
             /\ text.ops[4] = "delete_self"
             /\ server.loop = 1 /\ Len(server.ops) = 1 /\ server.ops[1] = "serve_timers"
  <1>1. Text[program] = TimerServer
    BY DEF Text
  <1>2. QED
    BY <1>1 DEF TimerServer, Prologue, Loop, Threads

LEMMA DueLists ==
  ASSUME NEW x, NEW y, x # y
  PROVE  /\ Head(<<x>>) = x /\ Tail(<<x>>) = <<>> /\ <<x>> # <<>> /\ <<x, y>> # <<>>
         /\ Head(<<x, y>>) = x /\ Tail(<<x, y>>) = <<y>>
         /\ Append(<<>>, x) = <<x>> /\ Append(<<x>>, y) = <<x, y>>
  <1>1. Append(<<x>>, y) = <<x, y>>
    BY ShortLines
  <1>2. QED
    BY <1>1, ShortLines

\* What Init's two calls of Timer_Routine do.
LEMMA ServerRoutine ==
  ASSUME program = "timer_server", NEW t, NEW x \in Timers, NEW op, Routine(t, x, op)
  PROVE  /\ Drive(Shows(x)) /\ Set(x, TimerTicks) /\ Proceed(t) /\ Advance(t)
         /\ due' = due /\ lost' = lost
  <1>1. MakeChange(x) /\ Proceed(t) /\ Advance(t) /\ UNCHANGED <<object, lost>>
    BY DEF Routine
  <1>2. Drive(Shows(x)) /\ Set(x, TimerTicks)
    BY <1>1 DEF MakeChange, Shows
  <1>3. QED
    BY <1>1, <1>2 DEF object

LEMMA ServerSteps ==
  ASSUME Places, program = "timer_server", pc \in [Threads -> 1 .. 4], pc["Server"] = 1,
         NEW t \in Threads, LedStep(t)
  PROVE  LET n == pc["Init"]
         IN  /\ Runs(t) /\ First(t) /\ Up(t) /\ lost' = lost
             /\ spent' = [spent EXCEPT ![t] = 0]
             /\ pc' = [pc EXCEPT !["Init"] = IF t = "Init" /\ n < 4 THEN n + 1 ELSE n]
             /\ \/ /\ t = "Init" /\ n = 1 /\ Proceed(t) /\ Drive("off")
                   /\ Set("Timer1", TimerTicks) /\ due' = due
                \/ /\ t = "Init" /\ n = 2 /\ Sleeps(t, TicksPerSecond)
                   /\ UNCHANGED <<blocked, due, led, again>>
                \/ /\ t = "Init" /\ n = 3 /\ Proceed(t) /\ Drive("on")
                   /\ Set("Timer2", TimerTicks) /\ due' = due
                \/ /\ t = "Init" /\ n = 4 /\ Blocks(t)
                   /\ UNCHANGED <<alarm, blocked, due, led, again>>
                \/ /\ t = "Server" /\ due = <<>> /\ WaitFor(t, "timer")
                   /\ UNCHANGED <<alarm, due, led, again>>
                \/ /\ t = "Server" /\ due # <<>> /\ Proceed(t) /\ Drive(Shows(Head(due)))
                   /\ Set(Head(due), TimerTicks) /\ due' = Tail(due)
  <1> DEFINE n == pc["Init"]
  <1>1. /\ Runs(t) /\ First(t) /\ Up(t) /\ n \in 1 .. 4 /\ t \in {"Init", "Server"}
        /\ "Server" \in Threads
    BY OpOf, InLine DEF Places, Threads
  <1>2. CASE t = "Init" /\ n = 1
    <2>1. Routine(t, "Timer1", "routine_1") /\ NextPc(t) = 2
      BY <1>2, ServerText, OpOf DEF Op, NextPc
    <2>2. /\ Drive("off") /\ Set("Timer1", TimerTicks) /\ Proceed(t) /\ Advance(t)
          /\ due' = due /\ lost' = lost
      BY <2>1, ServerRoutine DEF Shows, Timers
    <2>3. pc' = [pc EXCEPT !["Init"] = 2] /\ spent' = [spent EXCEPT ![t] = 0]
      BY <1>2, <2>1, <2>2, Advances DEF Proceed, Goes, Stepped
    <2>4. QED
      BY <1>1, <1>2, <2>2, <2>3
  <1>3. CASE t = "Init" /\ n = 2
    <2>1. Sleep(t) /\ Op(t) = "sleep" /\ NextPc(t) = 3
      BY <1>3, ServerText, OpOf DEF Op, NextPc
    <2>2. QED
      BY <1>1, <1>3, <2>1, Advances DEF Sleep, Sleeps, Blocks, Stepped, At, Op, object, lamp, history
  <1>4. CASE t = "Init" /\ n = 3
    <2>1. Routine(t, "Timer2", "routine_2") /\ NextPc(t) = 4
      BY <1>4, ServerText, OpOf DEF Op, NextPc
    <2>2. /\ Drive("on") /\ Set("Timer2", TimerTicks) /\ Proceed(t) /\ Advance(t)
          /\ due' = due /\ lost' = lost
      BY <2>1, ServerRoutine DEF Shows, Timers
    <2>3. pc' = [pc EXCEPT !["Init"] = 4] /\ spent' = [spent EXCEPT ![t] = 0]
      BY <1>4, <2>1, <2>2, Advances DEF Proceed, Goes, Stepped
    <2>4. QED
      BY <1>1, <1>4, <2>2, <2>3
  <1>5. CASE t = "Init" /\ n = 4
    <2>1. DeleteSelf(t)
      BY <1>5, ServerText, OpOf DEF Op
    <2>2. pc' = pc /\ spent' = [spent EXCEPT ![t] = 0]
      BY <2>1 DEF DeleteSelf, Blocks, Stepped, thread
    <2>3. QED
      BY <1>1, <1>5, <2>1, <2>2 DEF DeleteSelf, thread, object, lamp, history
  <1>6. CASE t = "Server"
    <2>1. ServeTimers(t) /\ NextPc(t) = 1
      BY <1>6, ServerText, OpOf DEF Op, NextPc
    <2>2. pc' = pc
      <3>1. pc' = [pc EXCEPT !["Server"] = 1]
        BY <1>6, <2>1, Advances DEF ServeTimers
      <3>2. QED
        BY <1>1, <3>1
    <2>3. CASE due = <<>>
      BY <1>1, <1>6, <2>1, <2>2, <2>3 DEF ServeTimers, WaitFor, Blocks, Stepped, lamp, history
    <2>4. CASE due # <<>>
      BY <1>1, <1>6, <2>1, <2>2, <2>4 DEF ServeTimers, MakeChange, Shows, Proceed, Goes, Stepped, history
    <2>5. QED
      BY <2>3, <2>4
  <1>7. QED
    BY <1>1, <1>2, <1>3, <1>4, <1>5, <1>6

\* A step of Init.
LEMMA ServerInit ==
  ASSUME Prompt, ServerInv, program = "timer_server", program' = program, LedStep("Init")
  PROVE  ServerInv'
  <1> DEFINE n == pc["Init"]
  <1>1. /\ Places /\ pc \in [Threads -> 1 .. 4] /\ pc["Server"] = 1 /\ spent \in [Threads -> Nat]
        /\ AlarmsOK(LedAlarms) /\ TimesOK /\ ~lost /\ ~again /\ program \in LedPrograms
        /\ "Init" \in Threads /\ "Server" \in Threads /\ n \in 1 .. 4
        /\ blocked \in [Threads -> Reasons]
    BY DEF ServerInv, Places, Threads, LedPrograms, Text
  <1>2. /\ Runs("Init") /\ First("Init") /\ Up("Init") /\ lost' = lost
        /\ spent' = [spent EXCEPT !["Init"] = 0]
        /\ pc' = [pc EXCEPT !["Init"] = IF n < 4 THEN n + 1 ELSE n]
        /\ \/ /\ n = 1 /\ Proceed("Init") /\ Drive("off")
              /\ Set("Timer1", TimerTicks) /\ due' = due
           \/ /\ n = 2 /\ Sleeps("Init", TicksPerSecond)
              /\ UNCHANGED <<blocked, due, led, again>>
           \/ /\ n = 3 /\ Proceed("Init") /\ Drive("on")
              /\ Set("Timer2", TimerTicks) /\ due' = due
           \/ /\ n = 4 /\ Blocks("Init")
              /\ UNCHANGED <<alarm, blocked, due, led, again>>
    BY <1>1, ServerSteps
  <1>3. /\ pc' \in [Threads -> 1 .. 4] /\ pc'["Server"] = 1 /\ spent' \in [Threads -> Nat]
        /\ spent'["Init"] = 0 /\ spent'["Server"] = spent["Server"]
        /\ pc'["Init"] = IF n < 4 THEN n + 1 ELSE n
    BY <1>1, <1>2
  <1>4. ~lost'
    BY <1>1, <1>2, Zenon
  <1>5. ~IsSet("Init") /\ Other("Init") = "Server" /\ Quiet
    BY <1>1, <1>2 DEF Places, Other, Runs
  <1>6. ~Asleep
    <2>1. Asleep => IsSet("Init")
      BY <1>1, SetIsIn DEF Asleep
    <2>2. QED
      BY <1>5, <2>1
  <1>7. ASSUME n \in {1, 3}, NEW x \in Timers, ~IsSet(x), Proceed("Init"), Set(x, TimerTicks)
        PROVE  /\ Places' /\ TimesOK' /\ UNCHANGED <<ready, blocked>>
               /\ \A t : (Up(t)' <=> Up(t)) /\ (First(t)' <=> First(t))
               /\ IsSet(x)' /\ \A y : y # x => (IsSet(y)' <=> IsSet(y))
               /\ \A y, l : In(alarm', y, l) <=> In(alarm, y, l) \/ (y = x /\ l = TimerTicks)
               /\ IsSet(OtherTimer(x)) => LastSet(x)'
               /\ \A y : IsSet(y)' => y = "Init" \/ y \in Timers
    <2>1. UNCHANGED <<ready, blocked, awaiting>> /\ x \in {"Timer1", "Timer2"}
      BY <1>7 DEF Proceed, Goes, period, Timers
    <2>2. /\ Places' /\ IsSet(x)' /\ \A y : y # x => (IsSet(y)' <=> IsSet(y))
          /\ \A y, l : In(alarm', y, l) <=> In(alarm, y, l) \/ (y = x /\ l = TimerTicks)
      BY <1>1, <1>5, <1>7, <2>1, PlacesSets, PeriodTicksNat
    <2>3. TimesOK' /\ (IsSet(OtherTimer(x)) => LastSet(x)')
      BY <1>1, <1>5, <1>7, TimerAdded
    <2>4. \A y : IsSet(y)' => y = "Init" \/ y \in Timers
      BY <1>7, <2>2 DEF ServerInv
    <2>5. QED
      BY <2>1, <2>2, <2>3, <2>4, Stays
  <1>8. CASE n = 1
    <2>1. Setting
      BY <1>6, <1>8 DEF ServerInv, SetOne, Paused, Alternating
    <2>2. Proceed("Init") /\ Drive("off") /\ Set("Timer1", TimerTicks) /\ due' = due
      BY <1>2, <1>8
    <2>3. /\ Places' /\ TimesOK' /\ UNCHANGED <<ready, blocked>>
          /\ \A t : (Up(t)' <=> Up(t)) /\ (First(t)' <=> First(t))
          /\ \A y : y # "Timer1" => (IsSet(y)' <=> IsSet(y))
          /\ In(alarm', "Timer1", TimerTicks)
          /\ \A y : IsSet(y)' => y = "Init" \/ y \in Timers
      BY <1>7, <1>8, <2>1, <2>2 DEF Setting, Timers
    <2>4. led' = "off" /\ ~again'
      <3>1. led # "off"
        BY <2>1 DEF Setting
      <3>2. again' = (again \/ led = "off") /\ led' = "off"
        BY <2>2 DEF Drive
      <3>3. QED
        BY <1>1, <3>1, <3>2, Zenon
    <2>5. In(alarm', "Timer1", TimerTicks - spent'["Init"]) /\ spent'["Init"] <= Slow["timer_server"]
      BY <1>3, <2>3, PeriodTicksNat DEF Prompt
    <2>6. SetOne'
      BY <1>2, <1>3, <1>8, <2>1, <2>2, <2>3, <2>4, <2>5 DEF SetOne, Setting
    <2>7. QED
      BY <1>3, <1>4, <2>3, <2>4, <2>6 DEF ServerInv
  <1>9. CASE n = 2
    <2>1. SetOne
      BY <1>6, <1>9 DEF ServerInv, Setting, Paused, Alternating
    <2>2. Sleeps("Init", TicksPerSecond) /\ UNCHANGED <<blocked, due, led, again>>
      BY <1>2, <1>9
    <2>3. /\ Places' /\ (Up("Server")' <=> Up("Server")) /\ (First("Server")' <=> Up("Server"))
          /\ \A x : x # "Init" => (IsSet(x)' <=> IsSet(x))
          /\ \A x, l : In(alarm', x, l) <=> In(alarm, x, l) \/ (x = "Init" /\ l = TicksPerSecond)
          /\ \A x, y : Before(alarm, x, y) => Before(alarm', x, y)
      BY <1>1, <1>2, <1>5, <2>2, PlacesSleeps, PeriodTicksNat
    <2>4. \A x \in Timers : x # "Init"
      BY DEF Timers
    <2>5. TimesOK'
      <3>1. \A y \in Timers : \A l : In(alarm', y, l) <=> In(alarm, y, l)
        BY <2>3, <2>4
      <3>2. QED
        BY <1>1, <2>3, <3>1, TimersSame
    <2>6. PICK a, l \in Nat : a = TicksPerSecond /\ l = TimerTicks - spent["Init"] /\ l > a
      <3>1. /\ TicksPerSecond \in Nat /\ TimerTicks = 2 * TicksPerSecond
            /\ spent["Init"] \in Nat /\ spent["Init"] < TicksPerSecond
        BY <1>1, <2>1, PeriodTicksNat DEF SetOne, Prompt, TimerTicks
      <3>2. QED
        BY <3>1
    <2>7. In(alarm', "Init", a) /\ In(alarm', "Timer1", l)
      BY <2>1, <2>3, <2>6 DEF SetOne
    <2>8. First("Server")' /\ spent'["Server"] + a = TicksPerSecond
          /\ spent'["Server"] <= Slow["timer_server"]
      BY <1>3, <2>1, <2>3, <2>6 DEF SetOne, Prompt, ServerInv
    <2>9. Asleep'
      BY <1>3, <1>9, <2>1, <2>2, <2>3, <2>6, <2>7, <2>8 DEF Asleep, SetOne
    <2>10. ~again'
      BY <1>1, <2>2, Zenon
    <2>11. QED
      BY <1>3, <1>4, <2>2, <2>3, <2>5, <2>9, <2>10 DEF ServerInv
  <1>10. CASE n = 3
    <2>1. Paused
      BY <1>6, <1>10 DEF ServerInv, Setting, SetOne, Alternating
    <2>2. Proceed("Init") /\ Drive("on") /\ Set("Timer2", TimerTicks) /\ due' = due
      BY <1>2, <1>10
    <2>3. /\ Places' /\ TimesOK' /\ UNCHANGED <<ready, blocked>>
          /\ \A t : (Up(t)' <=> Up(t)) /\ (First(t)' <=> First(t))
          /\ IsSet("Timer2")' /\ \A y : y # "Timer2" => (IsSet(y)' <=> IsSet(y))
          /\ IsSet(OtherTimer("Timer2")) => LastSet("Timer2")'
          /\ \A y : IsSet(y)' => y = "Init" \/ y \in Timers
      BY <1>7, <1>10, <2>1, <2>2 DEF Paused, Timers
    <2>4. led' = "on" /\ ~again'
      <3>1. led # "on"
        BY <2>1 DEF Paused
      <3>2. again' = (again \/ led = "on") /\ led' = "on"
        BY <2>2 DEF Drive
      <3>3. QED
        BY <1>1, <3>1, <3>2, Zenon
    <2>5. Serving("Timer2")'
      BY <2>1, <2>2, <2>3, <2>4 DEF Serving, Paused, OtherTimer, Shows
    <2>6. Alternating'
      BY <1>3, <1>5, <1>10, <2>1, <2>2, <2>3, <2>5 DEF Alternating, Paused, Timers
    <2>7. QED
      BY <1>3, <1>4, <2>3, <2>4, <2>6 DEF ServerInv
  <1>11. CASE n = 4
    <2>1. Alternating
      BY <1>6, <1>11 DEF ServerInv, Setting, SetOne, Paused
    <2>2. Blocks("Init") /\ UNCHANGED <<alarm, blocked, due, led, again>>
      BY <1>2, <1>11
    <2>3. blocked' = [blocked EXCEPT !["Init"] = "no"] /\ "no" \in Reasons
      BY <1>1, <2>2 DEF ServerInv, Reasons
    <2>4. /\ Places' /\ (Up("Server")' <=> Up("Server")) /\ \A x : IsSet(x)' <=> IsSet(x)
      <3>1. Places /\ "Init" \in Threads /\ Runs("Init") /\ Blocks("Init") /\ alarm' = alarm
        BY <1>1, <1>2, <2>2
      <3>2. /\ Places' /\ (Up(Other("Init"))' <=> Up(Other("Init")))
            /\ \A x : IsSet(x)' <=> IsSet(x)
        BY <2>3, <3>1, PlacesWaits
      <3>3. QED
        BY <3>2 DEF Other
    <2>5. TimesOK' /\ \A x \in Timers : LastSet(x) => LastSet(x)'
      BY <1>1, <2>2, TimersSame
    <2>6. \A x \in Timers : Serving(x) => Serving(x)'
      BY <2>2, <2>4, <2>5 DEF Serving
    <2>7. Alternating'
      BY <1>3, <1>11, <2>1, <2>2, <2>4, <2>6 DEF Alternating
    <2>8. ~again'
      BY <1>1, <2>2, Zenon
    <2>9. QED
      BY <1>3, <1>4, <2>2, <2>4, <2>5, <2>7, <2>8 DEF ServerInv
  <1>12. QED
    BY <1>1, <1>8, <1>9, <1>10, <1>11

\* A step of the timer server.
LEMMA ServerServes ==
  ASSUME ServerInv, program = "timer_server", program' = program, LedStep("Server")
  PROVE  ServerInv'
  <1>1. /\ Places /\ pc \in [Threads -> 1 .. 4] /\ pc["Server"] = 1 /\ spent \in [Threads -> Nat]
        /\ AlarmsOK(LedAlarms) /\ TimesOK /\ ~lost /\ ~again /\ program \in LedPrograms
        /\ "Init" \in Threads /\ "Server" \in Threads /\ pc["Init"] \in 1 .. 4
        /\ blocked \in [Threads -> Reasons]
    BY DEF ServerInv, Places, Threads, LedPrograms, Text
  <1>2. /\ Runs("Server") /\ First("Server") /\ Up("Server") /\ lost' = lost
        /\ spent' = [spent EXCEPT !["Server"] = 0] /\ pc' = pc
        /\ \/ /\ due = <<>> /\ WaitFor("Server", "timer")
              /\ UNCHANGED <<alarm, due, led, again>>
           \/ /\ due # <<>> /\ Proceed("Server") /\ Drive(Shows(Head(due)))
              /\ Set(Head(due), TimerTicks) /\ due' = Tail(due)
    BY <1>1, ServerSteps
  <1>3. spent' \in [Threads -> Nat] /\ Quiet /\ ~First("Init")
    BY <1>1, <1>2, InLine DEF Runs, Places, Other
  <1>4. ~lost'
    BY <1>1, <1>2, Zenon
  <1>5. Asleep \/ Alternating
    BY <1>3 DEF ServerInv, Setting, SetOne, Paused
  <1>6. CASE due = <<>>
    <2>1. WaitFor("Server", "timer") /\ UNCHANGED <<alarm, due, led, again>>
      BY <1>2, <1>6
    <2>2. /\ "Server" \in Threads /\ Blocks("Server") /\ alarm' = alarm /\ "timer" \in Reasons
          /\ blocked' = [blocked EXCEPT !["Server"] = "timer"]
      BY <1>1, <2>1 DEF WaitFor, Reasons
    <2>3. /\ Places' /\ ~Up("Server")' /\ \A x : IsSet(x)' <=> IsSet(x)
          /\ blocked'["Server"] = "timer" /\ blocked'["Init"] = blocked["Init"]
      <3>1. /\ Places' /\ ~Up("Server")' /\ \A x : IsSet(x)' <=> IsSet(x)
            /\ blocked'["Server"] = "timer"
        BY <1>1, <1>2, <2>2, PlacesWaits
      <3>2. QED
        BY <1>1, <2>2, <3>1
    <2>4. TimesOK' /\ \A x \in Timers : LastSet(x) => LastSet(x)'
      BY <1>1, <2>2, TimersSame
    <2>5. Asleep => Asleep'
      BY <1>2, <2>1, <2>2, <2>3 DEF Asleep
    <2>6. \A x \in Timers : Serving(x) => Serving(x)'
      BY <2>1, <2>3, <2>4 DEF Serving
    <2>7. Alternating => Alternating'
      BY <1>2, <1>6, <2>1, <2>3, <2>6 DEF Alternating
    <2>8. ~again'
      BY <1>1, <2>1, Zenon
    <2>9. QED
      BY <1>2, <1>1, <1>3, <1>4, <1>5, <2>1, <2>3, <2>4, <2>5, <2>7, <2>8 DEF ServerInv
  <1>7. CASE due # <<>>
    <2>1. /\ Proceed("Server") /\ Drive(Shows(Head(due)))
          /\ Set(Head(due), TimerTicks) /\ due' = Tail(due)
      BY <1>2, <1>7
    <2>2. PICK x \in Timers : Serving(x)
      BY <1>5, <1>7 DEF Asleep, Alternating
    <2>3. PICK y \in Timers : y = OtherTimer(x) /\ y # x /\ x = OtherTimer(y)
      BY OtherTimers
    <2>4. led = Shows(x) /\ Shows(x) # Shows(y)
      BY <2>2, <2>3, TimerShows DEF Serving
    <2>5. \/ due = <<y>> /\ IsSet(x) /\ ~IsSet(y)
          \/ due = <<y, x>> /\ ~IsSet(x) /\ ~IsSet(y)
      BY <1>7, <2>2, <2>3 DEF Serving
    <2>6. /\ Head(<<y>>) = y /\ Tail(<<y>>) = <<>>
          /\ Head(<<y, x>>) = y /\ Tail(<<y, x>>) = <<x>>
      BY <2>3, DueLists
    <2>7. Head(due) = y /\ ~IsSet(y)
      BY <2>5, <2>6
    <2>8. Drive(Shows(y)) /\ Set(y, TimerTicks) /\ Quiet
      BY <1>3, <2>1, <2>7
    <2>9. UNCHANGED <<ready, blocked, awaiting>> /\ y \in {"Timer1", "Timer2"}
      BY <2>1 DEF Proceed, Goes, period, Timers
    <2>10. Places' /\ IsSet(y)' /\ \A z : z # y => (IsSet(z)' <=> IsSet(z))
      BY <1>1, <2>7, <2>8, <2>9, PlacesSets, PeriodTicksNat
    <2>11. TimesOK' /\ (IsSet(OtherTimer(y)) => LastSet(y)')
      BY <1>1, <2>7, <2>8, TimerAdded
    <2>12. led' = Shows(y) /\ ~again'
      <3>1. led # Shows(y)
        BY <2>4
      <3>2. again' = (again \/ led = Shows(y)) /\ led' = Shows(y)
        BY <2>8 DEF Drive
      <3>3. QED
        BY <1>1, <3>1, <3>2, Zenon
    <2>13. Serving(y)'
      <3>1. CASE due = <<y>> /\ IsSet(x)
        <4>1. due' = <<>> /\ LastSet(y)'
          BY <2>1, <2>3, <2>6, <2>11, <3>1
        <4>2. QED
          BY <2>12, <4>1 DEF Serving
      <3>2. CASE due = <<y, x>> /\ ~IsSet(x)
        <4>1. due' = <<x>> /\ IsSet(y)' /\ ~IsSet(x)'
          BY <2>1, <2>3, <2>6, <2>10, <3>2
        <4>2. QED
          BY <2>3, <2>12, <4>1 DEF Serving
      <3>3. QED
        BY <2>5, <3>1, <3>2
    <2>14. Alternating'
      <3>1. pc'["Init"] = 4 /\ ~IsSet("Init")'
        BY <1>2, <1>5, <1>7, <2>9, <2>10 DEF Asleep, Alternating
      <3>2. blocked["Server"] # "timer" /\ blocked' = blocked
        BY <1>5, <1>7, <2>9 DEF Asleep, Alternating
      <3>3. QED
        BY <2>13, <3>1, <3>2 DEF Alternating
    <2>15. \A z : IsSet(z)' => z = "Init" \/ z \in Timers
      BY <2>10 DEF ServerInv
    <2>16. Up("Server")' <=> Up("Server")
      BY <2>9, Stays
    <2>17. QED
      BY <1>1, <1>2, <1>3, <1>4, <2>9, <2>10, <2>11, <2>12, <2>14, <2>15, <2>16 DEF ServerInv
  <1>8. QED
    BY <1>6, <1>7

\* The clock ticks.  No step is so slow that Timer1 comes before Init has slept its second.
LEMMA ServerTicks ==
  ASSUME Prompt, ServerInv, program = "timer_server", program' = program, LedTick
  PROVE  ServerInv'
  <1>1. /\ Places /\ spent \in [Threads -> Nat] /\ AlarmsOK(LedAlarms) /\ TimesOK /\ ~lost /\ ~again
        /\ "Init" \in Threads /\ "Server" \in Threads /\ ready \in LinesOf("Init", "Server")
    BY DEF ServerInv, Places, Threads
  <1>2. /\ Tick /\ Quiet /\ UNCHANGED <<pc, blocked, due, led, again, lost>>
    BY DEF LedTick, Tick, thread, object, lamp, history
  <1>3. /\ Places' /\ \A t : (Up(t)' <=> Up(t)) /\ (First(t)' <=> First(t))
        /\ \A x : IsSet(x)' <=> IsSet(x)
        /\ \A y : \A l \in Nat : In(alarm', y, l) <=> In(alarm, y, l + 1)
    BY <1>1, <1>2, PlacesTicks
  <1>4. TimesOK' /\ \A x \in Timers : LastSet(x) => LastSet(x)'
    BY <1>1, <1>2, TimersTick
  <1>5. \A t : First(t) =>
          /\ spent[t] < Slow["timer_server"] /\ spent' = [spent EXCEPT ![t] = @ + 1]
    BY <1>2 DEF Tick, First
  <1>6. ready = <<>> => spent' = spent
    BY <1>2 DEF Tick
  <1>7. spent' \in [Threads -> Nat]
    <2>1. ready = <<>> \/ First("Init") \/ First("Server")
      BY <1>1, InLine, LineForms DEF Up, Other
    <2>2. QED
      BY <1>1, <1>5, <1>6, <2>1
  <1>8. First("Init") => /\ spent'["Server"] = spent["Server"]
                         /\ spent'["Init"] = spent["Init"] + 1 /\ spent["Init"] < Slow["timer_server"]
    BY <1>1, <1>5
  <1>9. Setting => Setting'
    BY <1>2, <1>3, <1>8 DEF Setting
  <1>10. SetOne => SetOne'
    <2> SUFFICES ASSUME SetOne PROVE SetOne'
      OBVIOUS
    <2>1. PICK m \in Nat : m = TimerTicks - spent'["Init"] /\ m + 1 = TimerTicks - spent["Init"]
      <3>1. /\ TicksPerSecond \in Nat /\ TimerTicks = 2 * TicksPerSecond
            /\ spent["Init"] \in Nat /\ spent["Init"] < TicksPerSecond
            /\ spent'["Init"] = spent["Init"] + 1
        BY <1>1, <1>8, PeriodTicksNat DEF SetOne, Prompt, TimerTicks
      <3>2. TimerTicks - spent'["Init"] \in Nat
        BY <3>1
      <3>3. QED
        BY <3>1, <3>2
    <2>2. In(alarm', "Timer1", m)
      BY <1>3, <2>1 DEF SetOne
    <2>3. spent'["Init"] <= Slow["timer_server"]
      BY <1>1, <1>8 DEF SetOne, Prompt
    <2>4. QED
      BY <1>2, <1>3, <1>8, <2>1, <2>2, <2>3 DEF SetOne
  <1>11. Asleep => Asleep'
    <2> SUFFICES ASSUME Asleep PROVE Asleep'
      OBVIOUS
    <2>1. PICK a, l \in Nat :
            /\ In(alarm, "Init", a) /\ In(alarm, "Timer1", l) /\ l > a
            /\ blocked["Server"] = "no" =>
                 /\ First("Server") /\ spent["Server"] + a = TicksPerSecond
                 /\ spent["Server"] <= Slow["timer_server"]
      BY DEF Asleep
    <2>2. a > 0
      BY <1>1, <1>2, <2>1, SetIsIn
    <2>3. PICK b, m \in Nat : a = b + 1 /\ l = m + 1
      <3>1. a - 1 \in Nat /\ l - 1 \in Nat
        BY <2>1, <2>2
      <3>2. QED
        BY <3>1
    <2>4. In(alarm', "Init", b) /\ In(alarm', "Timer1", m) /\ m > b
      BY <1>3, <2>1, <2>3
    <2>5. blocked'["Server"] = "no" =>
            /\ First("Server")' /\ spent'["Server"] + b = TicksPerSecond
            /\ spent'["Server"] <= Slow["timer_server"]
      <3> SUFFICES ASSUME blocked["Server"] = "no"
                   PROVE  /\ First("Server")' /\ spent'["Server"] + b = TicksPerSecond
                          /\ spent'["Server"] <= Slow["timer_server"]
        BY <1>2
      <3>1. First("Server") /\ spent["Server"] + a = TicksPerSecond
        BY <2>1
      <3>2. spent["Server"] < Slow["timer_server"] /\ spent'["Server"] = spent["Server"] + 1
        BY <1>1, <1>5, <3>1
      <3>3. First("Server")'
        BY <1>3, <3>1
      <3>4. QED
        BY <1>1, <2>3, <3>1, <3>2, <3>3 DEF Prompt
    <2>6. QED
      BY <1>2, <1>3, <2>4, <2>5 DEF Asleep
  <1>12. Paused => Paused'
    BY <1>2, <1>3 DEF Paused
  <1>13. Alternating => Alternating'
    <2>1. \A x \in Timers : Serving(x) => Serving(x)'
      BY <1>2, <1>3, <1>4 DEF Serving
    <2>2. QED
      BY <1>2, <1>3, <2>1 DEF Alternating
  <1>14. ~lost' /\ ~again'
    BY <1>1, <1>2, Zenon
  <1>15. QED
    BY <1>2, <1>3, <1>4, <1>7, <1>9, <1>10, <1>11, <1>12, <1>13, <1>14 DEF ServerInv

\* Init has slept.  By then the server waits.
LEMMA ServerWakes ==
  ASSUME Prompt, ServerInv, program = "timer_server", program' = program, NEW t \in Threads,
         SleepEnds(t)
  PROVE  ServerInv'
  <1>1. /\ Places /\ spent \in [Threads -> Nat] /\ AlarmsOK(LedAlarms) /\ TimesOK /\ ~lost /\ ~again
        /\ "Init" \in Threads /\ "Server" \in Threads /\ program \in LedPrograms
        /\ ready \in LinesOf("Init", "Server")
    BY DEF ServerInv, Places, Threads, LedPrograms, Text
  <1>2. /\ SleepIsOver(t) /\ Due(t) /\ blocked' = blocked
        /\ UNCHANGED <<pc, due, led, again, lost, spent>>
    BY DEF SleepEnds, SleepIsOver, Serves, thread, object, lamp, history
  <1>3. t = "Init"
    <2>1. IsSet(t)
      BY <1>2 DEF Due, IsSet
    <2>2. QED
      BY <2>1 DEF ServerInv, Timers, Threads
  <1>4. /\ Places' /\ ~Up("Init") /\ IsSet("Init") /\ ~IsSet("Init")'
        /\ Up("Server")' <=> Up("Server")
        /\ First("Init")' <=> ~Up("Server")
        /\ \A x : x # "Init" => (IsSet(x)' <=> IsSet(x))
        /\ In(alarm, "Init", 0)
        /\ \A y, l : In(alarm', y, l) <=> In(alarm, y, l) /\ y # "Init"
        /\ \A y, z : Before(alarm, y, z) /\ y # "Init" /\ z # "Init" => Before(alarm', y, z)
    BY <1>1, <1>2, <1>3, PlacesWakes DEF Other
  <1>5. \A x \in Timers : x # "Init"
    BY DEF Timers
  <1>6. TimesOK'
    <2>1. \A y \in Timers : \A l : In(alarm', y, l) <=> In(alarm, y, l)
      BY <1>4, <1>5
    <2>2. \A y, z \in Timers : Before(alarm, y, z) => Before(alarm', y, z)
      BY <1>4, <1>5
    <2>3. QED
      BY <1>1, <2>1, <2>2, TimersSame
  <1>7. ~First("Init")
    BY <1>1, <1>4, InLine
  <1>8. Asleep
    BY <1>4, <1>7 DEF ServerInv, Setting, SetOne, Paused, Alternating
  <1>9. PICK a, l \in Nat :
          /\ In(alarm, "Init", a) /\ In(alarm, "Timer1", l)
          /\ blocked["Server"] = "no" =>
               /\ First("Server") /\ spent["Server"] + a = TicksPerSecond
               /\ spent["Server"] <= Slow["timer_server"]
    BY <1>8 DEF Asleep
  <1>10. a = 0
    BY <1>1, <1>4, <1>9, OneLeft DEF AlarmsOK
  <1>11. blocked["Server"] = "timer" /\ ~Up("Server")
    <2>1. blocked["Server"] # "no"
      BY <1>1, <1>9, <1>10, PeriodTicksNat DEF Prompt
    <2>2. QED
      BY <2>1 DEF ServerInv
  <1>12. IsSet("Timer1")' /\ ~IsSet("Timer2")'
    <2>1. IsSet("Timer1") /\ ~IsSet("Timer2")
      BY <1>1, <1>8, <1>9, SetIsIn DEF Asleep
    <2>2. QED
      BY <1>4, <2>1
  <1>13. Paused'
    BY <1>2, <1>4, <1>8, <1>11, <1>12 DEF Paused, Asleep
  <1>14. ~lost' /\ ~again'
    BY <1>1, <1>2, Zenon
  <1>15. \A x : IsSet(x)' => x = "Init" \/ x \in Timers
    BY <1>4 DEF ServerInv
  <1>16. QED
    BY <1>2, <1>4, <1>6, <1>13, <1>14, <1>15 DEF ServerInv

\* The interrupt leaves the server a timer.
LEMMA ServerIsLeft ==
  ASSUME Prompt, ServerInv, program = "timer_server", program' = program, NEW x \in Timers,
         TimerExpires(x)
  PROVE  ServerInv'
  <1>1. /\ Places /\ spent \in [Threads -> Nat] /\ AlarmsOK(LedAlarms) /\ TimesOK /\ ~lost /\ ~again
        /\ "Init" \in Threads /\ "Server" \in Threads /\ program \in LedPrograms
        /\ x \in {"Timer1", "Timer2"} /\ x # "Init" /\ Distinct(alarm)
    BY DEF ServerInv, Places, Threads, LedPrograms, Text, Timers, AlarmsOK
  <1>2. /\ Due(x) /\ alarm' = Unserved /\ awaiting' = awaiting /\ due' = Append(due, x)
        /\ IF blocked["Server"] = "timer"
             THEN blocked' = [blocked EXCEPT !["Server"] = "no"] /\ Wakes("Server")
             ELSE UNCHANGED <<blocked, ready>>
        /\ UNCHANGED <<pc, led, again, lost, spent>>
    BY DEF TimerExpires, Serves, period, lamp, history
  <1>3. /\ Places' /\ IsSet(x) /\ ~IsSet(x)'
        /\ \A y : y # x => (IsSet(y)' <=> IsSet(y))
        /\ In(alarm, x, 0)
        /\ \A y, l : In(alarm', y, l) <=> In(alarm, y, l) /\ y # x
        /\ First("Init") => First("Init")'
        /\ IF blocked["Server"] = "timer" THEN Up("Server")' /\ blocked'["Server"] = "no"
                                          ELSE UNCHANGED <<blocked, ready>>
        /\ blocked'["Init"] = blocked["Init"]
    BY <1>1, <1>2, PlacesDue
  <1>4. TimesOK'
    BY <1>1, <1>2, <1>3 DEF TimesOK, TimerTicks
  <1>5. ~lost' /\ ~again'
    BY <1>1, <1>2, Zenon
  <1>6. \A y : IsSet(y)' => y = "Init" \/ y \in Timers
    BY <1>3 DEF ServerInv
  <1>7. /\ Up("Server")' <=> blocked'["Server"] = "no"
        /\ blocked'["Server"] = "no" /\ blocked'["Init"] = "no"
    <2>1. CASE blocked["Server"] = "timer"
      BY <1>3, <2>1 DEF ServerInv
    <2>2. CASE blocked["Server"] # "timer"
      BY <1>3, <2>2, Stays DEF ServerInv
    <2>3. QED
      BY <2>1, <2>2
  <1>8. ~Setting
    BY <1>3 DEF Setting
  <1>9. ~SetOne
    <2> SUFFICES ASSUME SetOne PROVE FALSE
      OBVIOUS
    <2>1. x = "Timer1"
      BY <1>1, <1>3 DEF SetOne
    <2>2. TimerTicks - spent["Init"] = 0
      BY <1>1, <1>3, <2>1, OneLeft DEF SetOne
    <2>3. QED
      BY <1>1, <2>2, PeriodTicksNat, LedAssumption DEF SetOne, Prompt, TimerTicks
  <1>10. ~Asleep
    <2> SUFFICES ASSUME Asleep PROVE FALSE
      OBVIOUS
    <2>1. x = "Timer1"
      BY <1>1, <1>3 DEF Asleep
    <2>2. PICK a, l \in Nat : In(alarm, "Timer1", l) /\ l > a
      BY DEF Asleep
    <2>3. l = 0
      BY <1>1, <1>3, <2>1, <2>2, OneLeft
    <2>4. QED
      BY <2>2, <2>3
  <1>11. Paused => Paused'
    <2> SUFFICES ASSUME Paused PROVE Paused'
      OBVIOUS
    <2>1. x = "Timer1"
      BY <1>1, <1>3 DEF Paused
    <2>2. due = <<>>
      BY <1>3, <2>1 DEF Paused
    <2>3. due' = <<"Timer1">>
      BY <1>2, <2>1, <2>2, DueLists
    <2>4. QED
      BY <1>2, <1>3, <1>7, <2>1, <2>3 DEF Paused
  <1>12. Alternating => Alternating'
    <2> SUFFICES ASSUME Alternating PROVE Alternating'
      OBVIOUS
    <2>1. PICK z \in Timers : Serving(z)
      BY DEF Alternating
    <2>2. PICK y \in Timers : y = OtherTimer(z) /\ y # z /\ z = OtherTimer(y)
      BY OtherTimers
    <2>3. x = z \/ x = y
      BY <2>2, OtherTimers
    <2>4. led' = Shows(z)
      BY <1>2, <2>1 DEF Serving
    <2>5. Serving(z)'
      <3>1. CASE due = <<>>
        <4>1. LastSet(z)
          BY <2>1, <2>2, <3>1 DEF Serving
        <4>2. x = y
          BY <1>1, <1>2, <2>2, <4>1, TimerFires
        <4>3. IsSet(z)
          BY <1>1, <4>1 DEF LastSet, Before, IsSet, AlarmsOK
        <4>4. due' = <<y>> /\ IsSet(z)' /\ ~IsSet(y)'
          BY <1>2, <1>3, <2>2, <3>1, <4>2, <4>3, DueLists
        <4>5. QED
          BY <2>2, <2>4, <4>4 DEF Serving
      <3>2. CASE due = <<y>> /\ IsSet(z) /\ ~IsSet(y)
        <4>1. x = z
          BY <1>3, <2>3, <3>2
        <4>2. due' = <<y, z>>
          BY <1>2, <2>2, <3>2, <4>1, DueLists
        <4>3. ~IsSet(z)' /\ ~IsSet(y)'
          BY <1>3, <2>2, <3>2, <4>1
        <4>4. QED
          BY <2>2, <2>4, <4>2, <4>3 DEF Serving
      <3>3. ~(~IsSet(z) /\ ~IsSet(y))
        BY <1>3, <2>3
      <3>4. QED
        BY <2>1, <2>2, <3>1, <3>2, <3>3 DEF Serving
    <2>6. ~IsSet("Init")' /\ pc'["Init"] = 4
      BY <1>1, <1>2, <1>3 DEF Alternating
    <2>7. QED
      BY <1>7, <2>5, <2>6 DEF Alternating
  <1>13. QED
    BY <1>2, <1>3, <1>4, <1>5, <1>6, <1>7, <1>8, <1>9, <1>10, <1>11, <1>12 DEF ServerInv

LEMMA ServerKeeps ==
  ASSUME Prompt, ServerInv, program = "timer_server", LedNext
  PROVE  ServerInv'
  <1>1. program' = program
    BY DEF LedNext
  <1>2. \A x : Due(x) => x = "Init" \/ x \in Timers
    BY DEF Due, IsSet, ServerInv
  <1>3. \A p \in {"Period1", "Period2"} : ~PeriodExpires(p)
    BY <1>2 DEF PeriodExpires, PeriodEnds, Timers
  <1>4. \A x \in {"Timer1", "Timer2"} : ~TimerInterrupt(x)
    BY DEF TimerInterrupt
  <1>5. LedInterrupt => (\E t \in Threads : SleepEnds(t)) \/ \E x \in Timers : TimerExpires(x)
    BY <1>3, <1>4 DEF LedInterrupt, Timers
  <1>6. \A t \in Threads : t = "Init" \/ t = "Server"
    BY DEF Threads
  <1>7. QED
    BY <1>1, <1>5, <1>6, ServerInit, ServerServes, ServerTicks, ServerWakes, ServerIsLeft DEF LedNext

\* However slow a step is: a timer is set, or is left to the server, but once.
Left(x) == due \in {<<x>>, <<x, OtherTimer(x)>>, <<OtherTimer(x), x>>}
OnceInv ==
  /\ Places /\ pc \in [Threads -> 1 .. 4] /\ pc["Server"] = 1
  /\ due \in LinesOf("Timer1", "Timer2")
  /\ \A x \in Timers : IsSet(x) => ~Left(x)
  /\ pc["Init"] = 1 => ~IsSet("Timer1") /\ ~Left("Timer1")
  /\ pc["Init"] <= 3 => ~IsSet("Timer2") /\ ~Left("Timer2")
  /\ \A x : IsSet(x) => x = "Init" \/ x \in Timers
  /\ ~lost

LEMMA LeftTaken ==
  ASSUME due \in LinesOf("Timer1", "Timer2"), due # <<>>, due' = Tail(due)
  PROVE  \E x \in Timers : /\ Head(due) = x /\ Left(x)
                           /\ due' \in LinesOf("Timer1", "Timer2") /\ ~Left(x)'
                           /\ Left(OtherTimer(x))' <=> Left(OtherTimer(x))
  <1>1. PICK x \in Timers : due = <<x>> \/ due = <<x, OtherTimer(x)>>
    BY DEF LinesOf, Timers, OtherTimer
  <1>2. PICK y \in Timers : y = OtherTimer(x) /\ x = OtherTimer(y) /\ x # y
    BY OtherTimers
  <1>3. /\ Head(<<x>>) = x /\ Tail(<<x>>) = <<>> /\ Head(<<x, y>>) = x /\ Tail(<<x, y>>) = <<y>>
    BY <1>2, DueLists
  <1>4. CASE due = <<x>>
    <2>1. Head(due) = x /\ due' = <<>>
      BY <1>3, <1>4
    <2>2. Left(x) /\ ~Left(y) /\ ~Left(x)' /\ ~Left(y)'
      BY <1>2, <1>4, <2>1 DEF Left
    <2>3. due' \in LinesOf("Timer1", "Timer2")
      BY <2>1 DEF LinesOf
    <2>4. QED
      BY <1>2, <2>1, <2>2, <2>3
  <1>5. CASE due = <<x, y>>
    <2>1. Head(due) = x /\ due' = <<y>>
      BY <1>3, <1>5
    <2>2. Left(x) /\ Left(y) /\ ~Left(x)' /\ Left(y)'
      BY <1>2, <1>5, <2>1 DEF Left
    <2>3. due' \in LinesOf("Timer1", "Timer2")
      BY <2>1 DEF LinesOf, Timers
    <2>4. QED
      BY <1>2, <2>1, <2>2, <2>3
  <1>6. QED
    BY <1>1, <1>2, <1>4, <1>5

LEMMA LeftMore ==
  ASSUME due \in LinesOf("Timer1", "Timer2"), NEW x \in Timers, ~Left(x), due' = Append(due, x)
  PROVE  /\ due' \in LinesOf("Timer1", "Timer2") /\ Left(x)'
         /\ Left(OtherTimer(x))' <=> Left(OtherTimer(x))
  <1>1. PICK y \in Timers : y = OtherTimer(x) /\ x = OtherTimer(y) /\ x # y
    BY OtherTimers
  <1>2. due = <<>> \/ due = <<y>>
    BY <1>1 DEF LinesOf, Timers, OtherTimer, Left
  <1>3. Append(<<>>, x) = <<x>> /\ Append(<<y>>, x) = <<y, x>>
    BY <1>1, DueLists
  <1>4. CASE due = <<>>
    <2>1. due' = <<x>>
      BY <1>3, <1>4
    <2>2. ~Left(y) /\ Left(x)' /\ ~Left(y)'
      BY <1>1, <1>4, <2>1 DEF Left
    <2>3. due' \in LinesOf("Timer1", "Timer2")
      BY <2>1 DEF LinesOf, Timers
    <2>4. QED
      BY <1>1, <2>2, <2>3
  <1>5. CASE due = <<y>>
    <2>1. due' = <<y, x>>
      BY <1>3, <1>5
    <2>2. Left(y) /\ Left(x)' /\ Left(y)'
      BY <1>1, <1>5, <2>1 DEF Left
    <2>3. due' \in LinesOf("Timer1", "Timer2")
      BY <1>1, <2>1 DEF LinesOf, Timers
    <2>4. QED
      BY <1>1, <2>2, <2>3
  <1>6. QED
    BY <1>2, <1>4, <1>5

LEMMA OnceKeepsStep ==
  ASSUME OnceInv, program = "timer_server", program' = program, NEW t \in Threads, LedStep(t)
  PROVE  OnceInv'
  <1> DEFINE n == pc["Init"]
  <1>1. /\ Places /\ pc \in [Threads -> 1 .. 4] /\ pc["Server"] = 1 /\ ~lost
        /\ "Init" \in Threads /\ "Server" \in Threads /\ n \in 1 .. 4
        /\ due \in LinesOf("Timer1", "Timer2") /\ blocked \in [Threads -> Reasons]
    BY DEF OnceInv, Places, Threads
  <1>2. /\ Runs(t) /\ First(t) /\ Up(t) /\ lost' = lost
        /\ pc' = [pc EXCEPT !["Init"] = IF t = "Init" /\ n < 4 THEN n + 1 ELSE n]
        /\ \/ /\ t = "Init" /\ n = 1 /\ Proceed(t)
              /\ Set("Timer1", TimerTicks) /\ due' = due
           \/ /\ t = "Init" /\ n = 2 /\ Sleeps(t, TicksPerSecond)
              /\ UNCHANGED <<blocked, due>>
           \/ /\ t = "Init" /\ n = 3 /\ Proceed(t)
              /\ Set("Timer2", TimerTicks) /\ due' = due
           \/ /\ t = "Init" /\ n = 4 /\ Blocks(t)
              /\ UNCHANGED <<alarm, blocked, due>>
           \/ /\ t = "Server" /\ due = <<>> /\ WaitFor(t, "timer")
              /\ UNCHANGED <<alarm, due>>
           \/ /\ t = "Server" /\ due # <<>> /\ Proceed(t)
              /\ Set(Head(due), TimerTicks) /\ due' = Tail(due)
    BY <1>1, ServerSteps
  <1>3. ~lost'
    BY <1>1, <1>2, Zenon
  <1>4. /\ pc' \in [Threads -> 1 .. 4] /\ pc'["Server"] = 1 /\ Quiet
        /\ pc'["Init"] = IF t = "Init" /\ n < 4 THEN n + 1 ELSE n
    BY <1>1, <1>2 DEF Runs
  <1>5. ASSUME NEW x \in Timers, ~IsSet(x), Proceed(t), Set(x, TimerTicks)
        PROVE  /\ Places' /\ IsSet(x)' /\ \A y : y # x => (IsSet(y)' <=> IsSet(y))
    <2>1. UNCHANGED <<ready, blocked, awaiting>> /\ x \in {"Timer1", "Timer2"}
      BY <1>5 DEF Proceed, Goes, period, Timers
    <2>2. QED
      BY <1>1, <1>4, <1>5, <2>1, PlacesSets, PeriodTicksNat
  <1>6. ASSUME due' = due PROVE \A x : Left(x)' <=> Left(x)
    BY <1>6 DEF Left
  <1>7. CASE n = 1 /\ t = "Init"
    <2>1. Proceed(t) /\ Set("Timer1", TimerTicks) /\ due' = due
      BY <1>2, <1>7
    <2>2. /\ Places' /\ \A y : y # "Timer1" => (IsSet(y)' <=> IsSet(y))
      BY <1>5, <1>7, <2>1 DEF OnceInv, Timers
    <2>3. QED
      BY <1>3, <1>4, <1>6, <1>7, <2>1, <2>2 DEF OnceInv, Timers
  <1>8. CASE n = 3 /\ t = "Init"
    <2>1. Proceed(t) /\ Set("Timer2", TimerTicks) /\ due' = due
      BY <1>2, <1>8
    <2>2. /\ Places' /\ \A y : y # "Timer2" => (IsSet(y)' <=> IsSet(y))
      BY <1>5, <1>8, <2>1 DEF OnceInv, Timers
    <2>3. QED
      BY <1>3, <1>4, <1>6, <1>8, <2>1, <2>2 DEF OnceInv, Timers
  <1>9. CASE n = 2 /\ t = "Init"
    <2>1. Sleeps("Init", TicksPerSecond) /\ UNCHANGED <<blocked, due>>
      BY <1>2, <1>9
    <2>2. Places' /\ \A x : x # "Init" => (IsSet(x)' <=> IsSet(x))
      BY <1>1, <1>2, <1>9, <2>1, PlacesSleeps, PeriodTicksNat
    <2>3. QED
      BY <1>3, <1>4, <1>6, <1>9, <2>1, <2>2 DEF OnceInv, Timers
  <1>10. CASE n = 4 /\ t = "Init"
    <2>1. Blocks(t) /\ alarm' = alarm /\ due' = due /\ blocked[t] = "no" /\ blocked' = blocked
      BY <1>1, <1>2, <1>10 DEF Places
    <2>2. blocked' = [blocked EXCEPT ![t] = "no"] /\ "no" \in Reasons
      BY <1>1, <2>1 DEF Reasons
    <2>3. Places' /\ \A x : IsSet(x)' <=> IsSet(x)
      BY <1>1, <1>2, <2>1, <2>2, PlacesWaits
    <2>4. QED
      BY <1>3, <1>4, <1>6, <1>10, <2>1, <2>3 DEF OnceInv
  <1>11. CASE t = "Server" /\ due = <<>>
    <2>1. /\ Blocks(t) /\ alarm' = alarm /\ due' = due /\ "timer" \in Reasons
          /\ blocked' = [blocked EXCEPT ![t] = "timer"]
      BY <1>2, <1>11 DEF WaitFor, Reasons
    <2>2. Places' /\ \A x : IsSet(x)' <=> IsSet(x)
      BY <1>1, <1>2, <2>1, PlacesWaits
    <2>3. QED
      BY <1>3, <1>4, <1>6, <1>11, <2>1, <2>2 DEF OnceInv
  <1>12. CASE t = "Server" /\ due # <<>>
    <2>1. Proceed(t) /\ Set(Head(due), TimerTicks) /\ due' = Tail(due)
      BY <1>2, <1>12
    <2>2. PICK x \in Timers :
            /\ Head(due) = x /\ Left(x) /\ due' \in LinesOf("Timer1", "Timer2") /\ ~Left(x)'
            /\ Left(OtherTimer(x))' <=> Left(OtherTimer(x))
      BY <1>1, <1>12, <2>1, LeftTaken
    <2>3. ~IsSet(x) /\ Set(x, TimerTicks)
      BY <2>1, <2>2 DEF OnceInv
    <2>4. Places' /\ IsSet(x)' /\ \A y : y # x => (IsSet(y)' <=> IsSet(y))
      BY <1>5, <2>1, <2>3
    <2>5. \A y \in Timers : y # x => (Left(y)' <=> Left(y))
      BY <2>2, OtherTimers
    <2>6. QED
      BY <1>3, <1>4, <1>12, <2>2, <2>4, <2>5 DEF OnceInv, Timers
  <1>13. QED
    BY <1>1, <1>2, <1>7, <1>8, <1>9, <1>10, <1>11, <1>12

LEMMA OnceKeeps ==
  ASSUME OnceInv, program = "timer_server", LedNext
  PROVE  OnceInv'
  <1>1. /\ program' = program /\ program \in LedPrograms /\ Places /\ ~lost
        /\ due \in LinesOf("Timer1", "Timer2")
    BY DEF LedNext, OnceInv
  <1>2. \A x : Due(x) => IsSet(x)
    BY DEF Due, IsSet
  <1>3. ASSUME due' = due PROVE \A x : Left(x)' <=> Left(x)
    BY <1>3 DEF Left
  <1>4. CASE LedTick
    <2>1. Tick /\ UNCHANGED <<pc, blocked, due, lost>>
      BY <1>4 DEF LedTick, thread, object, history
    <2>2. Places' /\ \A x : IsSet(x)' <=> IsSet(x)
      BY <1>1, <2>1, PlacesTicks
    <2>3. ~lost'
      BY <1>1, <2>1, Zenon
    <2>4. QED
      BY <1>3, <2>1, <2>2, <2>3 DEF OnceInv
  <1>5. ASSUME NEW t \in Threads, SleepEnds(t) PROVE OnceInv'
    <2>1. SleepIsOver(t) /\ UNCHANGED <<pc, blocked, due, lost>>
      BY <1>5 DEF SleepEnds, thread, object, history
    <2>2. Places' /\ \A x : x # t => (IsSet(x)' <=> IsSet(x))
      BY <1>1, <2>1, PlacesWakes
    <2>3. t # "Timer1" /\ t # "Timer2" /\ ~IsSet(t)'
      BY <1>1, <2>1, PlacesWakes DEF Threads
    <2>4. ~lost'
      BY <1>1, <2>1, Zenon
    <2>5. QED
      BY <1>3, <2>1, <2>2, <2>3, <2>4 DEF OnceInv, Timers
  <1>6. ASSUME NEW x \in Timers, TimerExpires(x) PROVE OnceInv'
    <2>1. /\ Due(x) /\ alarm' = Unserved /\ awaiting' = awaiting /\ due' = Append(due, x)
          /\ IF blocked["Server"] = "timer"
               THEN blocked' = [blocked EXCEPT !["Server"] = "no"] /\ Wakes("Server")
               ELSE UNCHANGED <<blocked, ready>>
          /\ UNCHANGED <<pc, lost>> /\ x \in {"Timer1", "Timer2"}
      BY <1>6 DEF TimerExpires, Serves, period, history, Timers
    <2>2. /\ Places' /\ IsSet(x) /\ ~IsSet(x)'
          /\ \A y : y # x => (IsSet(y)' <=> IsSet(y))
      BY <1>1, <2>1, PlacesDue
    <2>3. ~Left(x)
      BY <2>2 DEF OnceInv
    <2>4. /\ due' \in LinesOf("Timer1", "Timer2") /\ Left(x)'
          /\ Left(OtherTimer(x))' <=> Left(OtherTimer(x))
      BY <1>1, <2>1, <2>3, LeftMore
    <2>5. \A y \in Timers : y # x => (Left(y)' <=> Left(y))
      BY <2>4, OtherTimers
    <2>6. ~lost'
      BY <1>1, <2>1, Zenon
    <2>7. QED
      BY <2>1, <2>2, <2>4, <2>5, <2>6 DEF OnceInv, Timers
  <1>7. \A p \in {"Period1", "Period2"} : ~PeriodExpires(p)
    BY <1>2 DEF PeriodExpires, PeriodEnds, OnceInv, Timers
  <1>8. \A x \in {"Timer1", "Timer2"} : ~TimerInterrupt(x)
    BY DEF TimerInterrupt
  <1>9. LedInterrupt => (\E t \in Threads : SleepEnds(t)) \/ \E x \in Timers : TimerExpires(x)
    BY <1>7, <1>8 DEF LedInterrupt, Timers
  <1>10. QED
    BY <1>1, <1>4, <1>5, <1>6, <1>9, OnceKeepsStep DEF LedNext

-----------------------------------------------------------------------------
(* What the threads of every program share.                                *)

SinglePrograms == OnePrograms \cup {"timer"}
MessagePrograms == {"msg_server", "posix_message_server"}
PcOK == \A t \in DOMAIN Text[program] : pc[t] \in 1 .. Len(Text[program][t].ops)

LEMMA Families ==
  /\ LedPrograms = SendPrograms \cup CondPrograms \cup TurnPrograms \cup SinglePrograms
                     \cup {"timer_server"}
  /\ SendPrograms = MessagePrograms \cup {"event_server"}
  BY DEF LedPrograms, Text, SendPrograms, CondPrograms, TurnPrograms, SinglePrograms, OnePrograms,
    CountPrograms, DelayPrograms, MessagePrograms

\* Which programs make which calls.
LEMMA OpsOf ==
  ASSUME program \in LedPrograms, PcOK, NEW t \in DOMAIN Text[program]
  PROVE  /\ t \in Threads
         /\ Op(t) \in {"send_event", "receive_event", "led_event"} => program = "event_server"
         /\ Op(t) \in {"send_message", "receive_message", "led_message"} =>
              program \in MessagePrograms
         /\ Op(t) \in {"obtain", "release"} => program \in TurnPrograms
         /\ Op(t) \in {"wait", "signal"} => program \in CondPrograms
         /\ Op(t) \in {"serve_timers", "delete_self"} => program = "timer_server"
  <1>1. pc[t] \in 1 .. Len(Text[program][t].ops)
    BY DEF PcOK
  <1>2. CASE program \in SendPrograms
    <2>1. t \in Threads /\ pc[t] \in 1 .. 2 /\ (t = "Init" \/ t = "Server")
      BY <1>1, <1>2, SendText DEF Threads
    <2>2. QED
      BY <1>2, <2>1, SendText, Families DEF Op
  <1>3. CASE program \in CondPrograms
    <2>1. t \in Threads /\ pc[t] \in 1 .. 2 /\ (t = "Init" \/ t = "Server")
      BY <1>1, <1>3, CondText DEF Threads
    <2>2. QED
      BY <1>3, <2>1, CondText DEF Op
  <1>4. CASE program \in TurnPrograms
    <2>1. /\ t \in Threads
          /\ Text[program][t].ops \in {<<"led_off", "sleep", "release", "obtain">>,
               <<"obtain", "led_off", "sleep", "release">>, <<"obtain", "led_on", "sleep", "release">>}
      BY <1>4, TurnText DEF Threads
    <2>2. pc[t] \in 1 .. 4
      BY <1>1, <2>1
    <2>3. Op(t) \in {"led_off", "led_on", "sleep", "release", "obtain"}
      BY <2>1, <2>2 DEF Op
    <2>4. QED
      BY <1>4, <2>1, <2>3
  <1>5. CASE program \in CountPrograms \cup DelayPrograms
    <2>1. program \in OnePrograms /\ program # "ratemon2"
      BY <1>5 DEF OnePrograms, CountPrograms, DelayPrograms
    <2>2. t = "Init" /\ t \in Threads
      BY <2>1, OneText DEF Threads
    <2>3. Op(t) \in OneOps
      BY <1>1, <1>5, <2>1, <2>2, OneText DEF Op, OneOps
    <2>4. QED
      BY <2>2, <2>3 DEF OneOps
  <1>6. CASE program = "ratemon2"
    <2>1. t = "Init" /\ t \in Threads
      BY <1>6, OneText DEF Threads, OnePrograms
    <2>2. pc["Init"] \in 1 .. 9
      BY <1>1, <1>6, <2>1, RateMon2Text
    <2>3. Op(t) \in OneOps
      BY <1>6, <2>1, <2>2, RateMon2Text DEF Op, OneOps
    <2>4. QED
      BY <2>1, <2>3 DEF OneOps
  <1>7. CASE program = "timer"
    <2>1. t = "Init" /\ t \in Threads /\ pc["Init"] \in 1 .. 19
      BY <1>1, <1>7, TimerText DEF Threads
    <2>2. Op("Init") \in {"routine_1", "read_print", "read_value", "clear_print", "clear_value",
                          "show_change", "sleep", "routine_2", "poll"}
      BY <1>7, <2>1, TimerOps
    <2>3. QED
      BY <2>1, <2>2
  <1>8. CASE program = "timer_server"
    <2>1. t \in Threads /\ (t = "Init" \/ t = "Server")
      BY <1>8, ServerText DEF Threads
    <2>2. Op(t) \in {"routine_1", "sleep", "routine_2", "delete_self", "serve_timers"}
      BY <1>1, <1>8, <2>1, ServerText DEF Op
    <2>3. QED
      BY <1>8, <2>1, <2>2
  <1>9. QED
    BY <1>2, <1>3, <1>4, <1>5, <1>6, <1>7, <1>8, Families DEF SinglePrograms, OnePrograms

\* A program of one thread: its server, which it does not have, never gets into the line.
Single == ready \in {<<>>, <<"Init">>} /\ ~IsSet("Server")

LEMMA SetsNoOther ==
  ASSUME AlarmsOK(LedAlarms), Quiet, NEW x, NEW n, Set(x, n)
  PROVE  \A y : IsSet(y)' => IsSet(y) \/ y = x
  <1>1. alarm' = Append(alarm, [what |-> x, left |-> n]) /\ alarm \in Seq(Alarms(LedAlarms))
    BY QuietUnserved DEF Set, AlarmsOK
  <1>2. \A k \in DOMAIN alarm' : (k \in DOMAIN alarm /\ alarm'[k] = alarm[k]) \/ alarm'[k].what = x
    BY <1>1
  <1>3. QED
    BY <1>2 DEF IsSet

LEMMA SingleKeeps ==
  ASSUME Single, Places, PcOK, program \in SinglePrograms, LedNext
  PROVE  Single'
  <1>1. /\ DOMAIN Text[program] = {"Init"} /\ program' = program /\ program \in LedPrograms
        /\ AlarmsOK(LedAlarms) /\ ~Outranks("Init")
        /\ program \notin TurnPrograms \cup CondPrograms \cup SendPrograms \cup {"timer_server"}
    BY OneText, TimerText DEF SinglePrograms, LedNext, Places, Outranks, OnePrograms, CountPrograms,
      DelayPrograms, TurnPrograms, CondPrograms, SendPrograms
  <1>2. Tail(<<"Init">>) = <<>> /\ Append(<<>>, "Init") = <<"Init">> /\ <<>> # <<"Init">>
    BY ShortLines
  <1>3. \A x : Due(x) => IsSet(x)
    BY DEF Due, IsSet
  <1>4. ASSUME Wakes("Init"), ~Up("Init") PROVE ready' = <<"Init">>
    BY <1>1, <1>2, <1>4 DEF Wakes, Enqueue, Single, Up, IsReady
  <1>5. CASE LedTick
    BY <1>1, <1>5, Ticks DEF LedTick, Single
  <1>6. CASE LedInterrupt
    <2>1. ASSUME NEW t \in Threads, SleepEnds(t) PROVE Single'
      <3>1. SleepIsOver(t) /\ Due(t) /\ alarm' = Unserved /\ Wakes(t)
        BY <2>1 DEF SleepEnds, SleepIsOver, Serves
      <3>2. t = "Init"
        BY <1>3, <3>1 DEF Single, Threads
      <3>3. ~Up("Init")
        BY <1>3, <3>1, <3>2 DEF Places, Threads
      <3>4. ~IsSet("Server")'
        BY <1>1, <3>1, <3>2, Served DEF Single
      <3>5. QED
        BY <1>4, <3>1, <3>2, <3>3, <3>4 DEF Single
    <2>2. ASSUME NEW p \in {"Period1", "Period2"}, PeriodExpires(p) PROVE Single'
      <3>1. Due(p) /\ Set(p, PeriodTicks) /\ PeriodTicks \in Nat /\ p \in LedAlarms
        BY <2>2, PeriodTicksNat DEF PeriodExpires, PeriodEnds, LedAlarms, Periods
      <3>2. ~IsSet("Server")'
        BY <1>1, <3>1, Renewed DEF Single
      <3>3. ready' = ready \/ (<<"Init", p>> \in awaiting /\ Wakes("Init"))
        BY <2>2 DEF PeriodExpires, PeriodEnds
      <3>4. <<"Init", p>> \in awaiting => ~Up("Init")
        BY DEF Places, Waits, Periods, Threads
      <3>5. QED
        BY <1>4, <3>2, <3>3, <3>4 DEF Single
    <2>3. ASSUME NEW x \in {"Timer1", "Timer2"}, TimerInterrupt(x) PROVE Single'
      <3>1. Due(x) /\ Set(x, TimerTicks) /\ TimerTicks \in Nat /\ x \in LedAlarms /\ ready' = ready
        BY <2>3, PeriodTicksNat DEF TimerInterrupt, Serves, NoteChange, LedAlarms
      <3>2. QED
        BY <1>1, <3>1, Renewed DEF Single
    <2>4. \A x \in {"Timer1", "Timer2"} : ~TimerExpires(x)
      BY <1>1 DEF TimerExpires
    <2>5. QED
      BY <1>6, <2>1, <2>2, <2>3, <2>4 DEF LedInterrupt
  <1>7. ASSUME NEW t \in Threads, LedStep(t) PROVE Single'
    <2>1. t \in DOMAIN Text[program] /\ t = "Init" /\ Runs(t) /\ Quiet
      BY <1>1, <1>7, OpOf DEF Runs
    <2>2. ready' \in {ready, Tail(ready)} => ready' \in {<<>>, <<"Init">>}
      BY <1>2, <2>1 DEF Single, Runs
    <2>3. ASSUME NEW x, NEW n, Set(x, n), x # "Server" PROVE ~IsSet("Server")'
      BY <1>1, <2>1, <2>3, SetsNoOther DEF Single
    <2>4. ASSUME alarm' = alarm PROVE ~IsSet("Server")'
      BY <2>4, SameAlarms DEF Single
    <2>5. CASE Sleep(t)
      BY <2>1, <2>2, <2>3, <2>5 DEF Sleep, Sleeps, Blocks, Single
    <2>6. ASSUME NEW p \in {"Period1", "Period2"}, NEW op, Period(t, p, op) PROVE Single'
      BY <2>2, <2>3, <2>4, <2>6 DEF Period, CallPeriod, Single
    <2>7. CASE LedCount(t) \/ LedSet(t) \/ Change(t)
      BY <2>2, <2>4, <2>7 DEF LedCount, LedSet, Change, Proceed, Goes, Single
    <2>8. ASSUME NEW x \in {"Timer1", "Timer2"}, NEW op, Routine(t, x, op) PROVE Single'
      <3>1. ready' = ready /\ Set(x, TimerTicks)
        BY <2>8 DEF Routine, NoteChange, MakeChange, Proceed, Goes
      <3>2. QED
        BY <2>2, <2>3, <3>1 DEF Single
    <2>9. /\ Op(t) \notin {"send_event", "receive_event", "led_event", "send_message",
                           "receive_message", "led_message"}
          /\ Op(t) \notin {"obtain", "release", "wait", "signal", "serve_timers", "delete_self"}
      BY <1>1, <2>1, OpsOf, Families
    <2>10. QED
      BY <1>7, <2>5, <2>6, <2>7, <2>8, <2>9, OpOf
  <1>8. QED
    BY <1>5, <1>6, <1>7 DEF LedNext

-----------------------------------------------------------------------------
(* What the data of every program is.                                      *)

DataOK ==
  /\ count \in [Threads -> 0 .. 1]
  /\ events \subseteq {"off", "on"} /\ queue \in Seq(0 .. 1)
  /\ got \subseteq IF program = "event_server" THEN {"off", "on"} ELSE 0 .. 1
  /\ doPrint \in 0 .. 1 /\ value \in 0 .. 2 /\ readPrint \in 0 .. 1 /\ readValue \in 0 .. 2
  /\ led \in Colors
  /\ postponed \in [Periods -> 0 .. MostPostponed]
  /\ program \notin SendPrograms => queue = <<>>
  /\ program \notin TurnPrograms => sem = 0
  /\ program # "timer_server" => due = <<>>

LEMMA DataStays ==
  ASSUME DataOK, program' = program,
         UNCHANGED <<count, events, queue, got, sem, due, doPrint, value, readPrint, readValue,
                     postponed>>,
         led' = led \/ led' \in {"off", "on"}
  PROVE  DataOK'
  BY DEF DataOK, Colors

LEMMA CountFlips ==
  ASSUME DataOK, NEW t \in Threads, Flip(t)
  PROVE  count' \in [Threads -> 0 .. 1] /\ count[t] \in 0 .. 1 /\ Lamp(count[t]) \in {"off", "on"}
  BY DEF DataOK, Flip, Lamp

LEMMA DataPeriod ==
  ASSUME DataOK, NEW p \in Periods
  PROVE  /\ \A t, n : CallPeriod(t, p, n) => postponed' \in [Periods -> 0 .. MostPostponed]
         /\ \A t, n : PeriodEnds(t, p, n) => postponed' \in [Periods -> 0 .. MostPostponed]
  BY DEF DataOK, CallPeriod, PeriodEnds, Missed, MostPostponed, period

LEMMA DataKeepsStep ==
  ASSUME DataOK, PcOK, program \in LedPrograms, program' = program, NEW t \in Threads, LedStep(t)
  PROVE  DataOK'
  <1>1. /\ Runs(t) /\ t \in DOMAIN Text[program]
        /\ count \in [Threads -> 0 .. 1] /\ "Server" \in Threads
    BY OpOf DEF DataOK, Threads
  <1>2. /\ Op(t) \in {"send_event", "receive_event", "led_event"} => program = "event_server"
        /\ Op(t) \in {"send_message", "receive_message", "led_message"} => program \in MessagePrograms
        /\ Op(t) \in {"obtain", "release"} => program \in TurnPrograms
        /\ Op(t) = "serve_timers" => program = "timer_server"
    BY <1>1, OpsOf
  <1>3. /\ "event_server" \in SendPrograms /\ "event_server" \notin MessagePrograms
        /\ MessagePrograms \subseteq SendPrograms
        /\ "event_server" \notin TurnPrograms /\ MessagePrograms \cap TurnPrograms = {}
        /\ SendPrograms \cap TurnPrograms = {}
        /\ "timer_server" \notin SendPrograms \cup TurnPrograms
    BY DEF SendPrograms, MessagePrograms, TurnPrograms
  <1> USE DEF Proceed, Goes, Hand, GoesAndWakes, WaitFor, Blocks, period, object, timer, lamp, history
  <1>4. CASE Sleep(t)
    BY <1>4, DataStays DEF Sleep, Sleeps
  <1>5. CASE DeleteSelf(t)
    BY <1>5, DataStays DEF DeleteSelf, thread
  <1>6. CASE Op(t) = "send_event" /\ SendEvent(t)
    <2>1. program = "event_server" /\ Flip(t)
      BY <1>2, <1>6 DEF SendEvent
    <2>2. count' \in [Threads -> 0 .. 1] /\ Lamp(count[t]) \in {"off", "on"}
      BY <2>1, CountFlips
    <2>3. /\ events' \in {events, events \cup {Lamp(count[t])}} /\ got' \in {got, {Lamp(count[t])}}
          /\ UNCHANGED <<queue, sem, due, doPrint, value, readPrint, readValue, led, postponed>>
      BY <1>6 DEF SendEvent
    <2>4. QED
      BY <1>3, <2>1, <2>2, <2>3 DEF DataOK
  <1>7. CASE Op(t) = "receive_event" /\ ReceiveEvent(t)
    <2>1. program = "event_server"
      BY <1>2, <1>7
    <2>2. /\ events' \in {events, {}} /\ got' \in {got, events}
          /\ UNCHANGED <<count, queue, sem, due, doPrint, value, readPrint, readValue, led, postponed>>
      BY <1>7 DEF ReceiveEvent
    <2>3. QED
      BY <1>3, <2>1, <2>2 DEF DataOK
  <1>8. CASE Op(t) = "led_event" /\ LedEvent(t)
    <2>1. program = "event_server"
      BY <1>2, <1>8
    <2>2. led' = led \/ led' \in got
      <3>1. (\E e \in got : got = {e}) => (CHOOSE e \in got : TRUE) \in got
        BY Zenon
      <3>2. QED
        BY <1>8, <3>1 DEF LedEvent, Drive
    <2>3. led' = led \/ led' \in {"off", "on"}
      BY <2>1, <2>2 DEF DataOK
    <2>4. QED
      BY <1>8, <2>3, DataStays DEF LedEvent
  <1>9. CASE Op(t) = "send_message" /\ SendMessage(t)
    <2>1. program \in MessagePrograms /\ Flip(t)
      BY <1>2, <1>9 DEF SendMessage
    <2>2. count' \in [Threads -> 0 .. 1] /\ count[t] \in 0 .. 1
      BY <2>1, CountFlips
    <2>3. /\ queue' \in {queue, Append(queue, count[t])} /\ got' \in {got, {count[t]}}
          /\ UNCHANGED <<events, sem, due, doPrint, value, readPrint, readValue, led, postponed>>
      BY <1>9 DEF SendMessage
    <2>4. queue' \in Seq(0 .. 1)
      BY <2>2, <2>3 DEF DataOK
    <2>5. QED
      BY <1>3, <2>1, <2>2, <2>3, <2>4 DEF DataOK
  <1>10. CASE Op(t) = "receive_message" /\ ReceiveMessage(t)
    <2>1. program \in MessagePrograms
      BY <1>2, <1>10
    <2>2. /\ \/ queue' = queue /\ got' = got
             \/ queue # <<>> /\ queue' = Tail(queue) /\ got' = {Head(queue)}
          /\ UNCHANGED <<count, events, sem, due, doPrint, value, readPrint, readValue, led, postponed>>
      BY <1>10 DEF ReceiveMessage
    <2>3. queue' \in Seq(0 .. 1) /\ (got' = got \/ got' \subseteq 0 .. 1)
      <3>1. queue \in Seq(0 .. 1)
        BY DEF DataOK
      <3>2. queue # <<>> => Tail(queue) \in Seq(0 .. 1) /\ Head(queue) \in 0 .. 1
        BY <3>1
      <3>3. QED
        BY <2>2, <3>1, <3>2
    <2>4. QED
      BY <1>3, <2>1, <2>2, <2>3 DEF DataOK
  <1>11. CASE LedMessage(t)
    BY <1>11, DataStays DEF LedMessage, Drive, Lamp
  <1>12. CASE (Op(t) = "release" /\ Release(t)) \/ (Op(t) = "obtain" /\ Obtain(t))
    <2>1. program \in TurnPrograms
      BY <1>2, <1>12
    <2>2. UNCHANGED <<count, events, queue, got, due, doPrint, value, readPrint, readValue, led, postponed>>
      BY <1>12 DEF Release, Obtain
    <2>3. QED
      BY <2>1, <2>2 DEF DataOK
  <1>13. CASE Wait(t) \/ Signal(t)
    BY <1>13, DataStays DEF Wait, Signal
  <1>14. ASSUME NEW p \in {"Period1", "Period2"}, NEW op, Period(t, p, op) PROVE DataOK'
    <2>1. /\ CallPeriod(t, p, PeriodTicks) /\ p \in Periods
          /\ UNCHANGED <<count, events, queue, got, sem, due, doPrint, value, readPrint, readValue, led>>
      BY <1>14 DEF Period, Periods
    <2>2. postponed' \in [Periods -> 0 .. MostPostponed]
      BY <2>1, DataPeriod
    <2>3. QED
      BY <2>1, <2>2 DEF DataOK
  <1>15. CASE LedCount(t)
    <2>1. /\ count' \in [Threads -> 0 .. 1] /\ led' \in {"off", "on"}
          /\ UNCHANGED <<events, queue, got, sem, due, doPrint, value, readPrint, readValue, postponed>>
      BY <1>15, CountFlips DEF LedCount, Drive
    <2>2. QED
      BY <2>1 DEF DataOK, Colors
  <1>16. CASE LedSet(t)
    BY <1>16, DataStays DEF LedSet, Drive
  <1>17. ASSUME NEW x \in Timers, NEW op, Routine(t, x, op) PROVE DataOK'
    <2>1. /\ UNCHANGED <<count, events, queue, got, sem, due, readPrint, readValue, postponed>>
          /\ led' = led \/ led' \in {"off", "on"}
          /\ doPrint' \in {doPrint, 1} /\ value' \in {value, 1, 2}
      BY <1>17 DEF Routine, NoteChange, MakeChange, Drive, TimerNumber
    <2>2. QED
      BY <2>1 DEF DataOK, Colors
  <1>18. CASE Change(t)
    <2>1. UNCHANGED <<count, events, queue, got, sem, due, postponed>>
      BY <1>18 DEF Change
    <2>2. /\ led' = led \/ led' \in {"off", "on"}
          /\ doPrint' \in {doPrint, 0} /\ value' \in {value, 0}
          /\ readPrint' \in {readPrint, doPrint} /\ readValue' \in {readValue, value}
      BY <1>18 DEF Change, Drive
    <2>3. QED
      BY <2>1, <2>2 DEF DataOK, Colors
  <1>19. CASE Op(t) = "serve_timers" /\ ServeTimers(t)
    <2>1. program = "timer_server"
      BY <1>2, <1>19
    <2>2. /\ UNCHANGED <<count, events, queue, got, sem, doPrint, value, readPrint, readValue, postponed>>
          /\ led' = led \/ led' \in {"off", "on"}
      BY <1>19 DEF ServeTimers, MakeChange, Drive
    <2>3. QED
      BY <1>3, <2>1, <2>2 DEF DataOK, Colors
  <1>20. QED
    <2>1. "Timer1" \in Timers /\ "Timer2" \in Timers
      BY DEF Timers
    <2>2. QED
      BY <2>1, <1>4, <1>5, <1>6, <1>7, <1>8, <1>9, <1>10, <1>11, <1>12, <1>13, <1>14, <1>15, <1>16,
        <1>17, <1>18, <1>19, OpOf

LEMMA DataKeeps ==
  ASSUME DataOK, PcOK, program \in LedPrograms, LedNext
  PROVE  DataOK'
  <1>1. program' = program
    BY DEF LedNext
  <1> USE DEF thread, object, timer, lamp, history, period
  <1>2. CASE LedTick
    BY <1>1, <1>2, DataStays DEF LedTick, Tick
  <1>3. ASSUME NEW t \in Threads, SleepEnds(t) PROVE DataOK'
    BY <1>1, <1>3, DataStays DEF SleepEnds, SleepIsOver, Serves
  <1>4. ASSUME NEW p \in {"Period1", "Period2"}, PeriodExpires(p) PROVE DataOK'
    <2>1. /\ PeriodEnds("Init", p, PeriodTicks) /\ p \in Periods
          /\ UNCHANGED <<count, events, queue, got, sem, due, doPrint, value, readPrint, readValue, led>>
      BY <1>4 DEF PeriodExpires, Periods
    <2>2. postponed' \in [Periods -> 0 .. MostPostponed]
      BY <2>1, DataPeriod
    <2>3. QED
      BY <1>1, <2>1, <2>2 DEF DataOK
  <1>5. ASSUME NEW x \in {"Timer1", "Timer2"}, TimerInterrupt(x) PROVE DataOK'
    <2>1. /\ UNCHANGED <<count, events, queue, got, sem, due, readPrint, readValue, led, postponed>>
          /\ doPrint' = 1 /\ value' \in {1, 2}
      BY <1>5 DEF TimerInterrupt, Serves, NoteChange, TimerNumber
    <2>2. QED
      BY <1>1, <2>1 DEF DataOK
  <1>6. ASSUME NEW x \in {"Timer1", "Timer2"}, TimerExpires(x) PROVE DataOK'
    <2>1. /\ program = "timer_server"
          /\ UNCHANGED <<count, events, queue, got, sem, doPrint, value, readPrint, readValue, led, postponed>>
      BY <1>6 DEF TimerExpires, Serves
    <2>2. QED
      BY <1>1, <2>1 DEF DataOK
  <1>7. QED
    BY <1>1, <1>2, <1>3, <1>4, <1>5, <1>6, DataKeepsStep DEF LedNext, LedInterrupt

-----------------------------------------------------------------------------
(* All LED programs.                                                       *)

LedInv ==
  IF program \in LedPrograms
    THEN /\ program \in SendPrograms => SendInv
         /\ program = "posix_cond_server" => CondInv
         /\ program = "ratemon_cond_server" => RatemonCondInv
         /\ program \in TurnPrograms => TurnInv
         /\ program \in OnePrograms => OneInv
         /\ program = "timer" => TimerInv
         /\ program = "timer_server" => OnceInv
         /\ program = "timer_server" /\ Prompt => ServerInv
         /\ program \in SinglePrograms => Single
         /\ DataOK
    ELSE LedIdle

LEMMA LedPlaces ==
  ASSUME LedInv, program \in LedPrograms
  PROVE  Places /\ PcOK
  <1>1. CASE program \in SendPrograms
    <2>1. Places /\ pc \in [Threads -> 1 .. 2]
      BY <1>1 DEF LedInv, SendInv
    <2>2. \A t \in Threads : Len(Text[program][t].ops) = 2
      BY <1>1, SendText DEF Threads
    <2>3. DOMAIN Text[program] = Threads
      BY <1>1, SendText
    <2>4. QED
      BY <2>1, <2>2, <2>3 DEF PcOK
  <1>2. CASE program \in CondPrograms
    <2>1. Places /\ pc \in [Threads -> 1 .. 2]
      BY <1>2 DEF LedInv, CondPrograms, CondInv, RatemonCondInv
    <2>2. \A t \in Threads : Len(Text[program][t].ops) = 2
      BY <1>2, CondText DEF Threads
    <2>3. DOMAIN Text[program] = Threads
      BY <1>2, CondText
    <2>4. QED
      BY <2>1, <2>2, <2>3 DEF PcOK
  <1>3. CASE program \in TurnPrograms
    <2>1. TurnInv
      BY <1>3 DEF LedInv
    <2>2. \A t \in Threads : Len(Text[program][t].ops) = 4
      BY <1>3, TurnText DEF Threads
    <2>3. QED
      BY <1>3, <2>1, <2>2, TurnText DEF TurnInv, PcOK
  <1>4. CASE program \in OnePrograms
    <2>1. OneInv
      BY <1>4 DEF LedInv
    <2>2. Len(Text[program]["Init"].ops) =
            IF program \in CountPrograms THEN 2 ELSE IF program = "ratemon2" THEN 9 ELSE 4
      BY <1>4, OneText, RateMon2Text DEF OnePrograms, CountPrograms, DelayPrograms
    <2>3. pc["Init"] \in 1 .. 9
      BY <2>1 DEF OneInv, Threads
    <2>4. pc["Init"] \in 1 .. Len(Text[program]["Init"].ops)
      BY <2>1, <2>2, <2>3 DEF OneInv
    <2>5. QED
      BY <1>4, <2>1, <2>4, OneText DEF OneInv, PcOK
  <1>5. CASE program = "timer"
    BY <1>5, TimerText DEF LedInv, TimerInv, PcOK, Threads
  <1>6. CASE program = "timer_server"
    BY <1>6, ServerText DEF LedInv, OnceInv, PcOK, Threads
  <1>7. QED
    BY <1>1, <1>2, <1>3, <1>4, <1>5, <1>6, Families DEF SinglePrograms

LEMMA LedKeeps ==
  ASSUME LedInv, LedNext PROVE LedInv'
  <1>1. program \in LedPrograms /\ program' = program
    BY DEF LedNext
  <1>2. Places /\ PcOK
    BY <1>1, LedPlaces
  <1>3. DataOK'
    BY <1>1, <1>2, DataKeeps DEF LedInv
  <1>4. program \in SinglePrograms => Single'
    BY <1>1, <1>2, SingleKeeps DEF LedInv
  <1>5. program \in SendPrograms => SendInv'
    BY <1>1, SendKeeps DEF LedInv
  <1>6. program = "posix_cond_server" => CondInv'
    BY <1>1, CondKeeps DEF LedInv
  <1>7. program = "ratemon_cond_server" => RatemonCondInv'
    BY <1>1, RatemonCondKeeps DEF LedInv
  <1>8. program \in TurnPrograms => TurnInv'
    BY <1>1, TurnKeeps DEF LedInv
  <1>9. program \in OnePrograms => OneInv'
    BY <1>1, OneKeeps DEF LedInv
  <1>10. program = "timer" => TimerInv'
    BY <1>1, TimerKeeps DEF LedInv
  <1>11. program = "timer_server" => OnceInv'
    BY <1>1, OnceKeeps DEF LedInv
  <1>12. program = "timer_server" /\ Prompt => ServerInv'
    BY <1>1, ServerKeeps DEF LedInv
  <1>13. QED
    BY <1>1, <1>3, <1>4, <1>5, <1>6, <1>7, <1>8, <1>9, <1>10, <1>11, <1>12 DEF LedInv

LEMMA LedBoots ==
  ASSUME program \in LedPrograms, LedBoot, LedIdle
  PROVE  /\ Places /\ (\A x : ~IsSet(x)) /\ (\A x, l : ~In(alarm, x, l)) /\ First("Init")
         /\ Up("Init") /\ awaiting = {}
         /\ postponed \in [Periods -> 0 .. MostPostponed]
         /\ IF "Server" \in DOMAIN Text[program]
              THEN Up("Server") /\ spent = [t \in Threads |-> 0]
              ELSE ready = <<"Init">>
  <1> DEFINE s == "Server" \in DOMAIN Text[program]
  <1>1. /\ ready = (IF s THEN <<"Init", "Server">> ELSE <<"Init">>) /\ alarm = <<>> /\ awaiting = {}
        /\ postponed = [p \in Periods |-> 0] /\ spent = [t \in Range(ready) |-> 0]
    BY DEF LedBoot, Boot
  <1>2. AlarmsOK(LedAlarms) /\ (\A x : ~IsSet(x)) /\ (\A x, l : ~In(alarm, x, l))
    BY <1>1 DEF AlarmsOK, Distinct, IsSet, In
  <1>3. ready \in LinesOf("Init", "Server") /\ First("Init") /\ Up("Init") /\ (s => Up("Server"))
    BY <1>1 DEF LinesOf, First, Up, IsReady, Other
  <1>4. blocked \in [Threads -> Reasons] /\ \A t \in Threads : blocked[t] = "no"
    BY DEF LedIdle, Reasons
  <1>5. Places
    BY <1>1, <1>2, <1>3, <1>4 DEF Places, Waits
  <1>6. s => spent = [t \in Threads |-> 0]
    <2>1. Range(<<"Init", "Server">>) = Threads
      BY DEF Range, Threads
    <2>2. QED
      BY <1>1, <2>1
  <1>7. postponed \in [Periods -> 0 .. MostPostponed]
    BY <1>1 DEF MostPostponed
  <1>8. QED
    BY <1>1, <1>2, <1>3, <1>5, <1>6, <1>7

LEMMA LedStarts ==
  ASSUME program \in LedPrograms, LedBoot, LedIdle
  PROVE  LedInv
  <1>1. /\ Places /\ (\A x : ~IsSet(x)) /\ (\A x, l : ~In(alarm, x, l)) /\ First("Init")
        /\ Up("Init") /\ awaiting = {}
        /\ postponed \in [Periods -> 0 .. MostPostponed]
        /\ "Server" \in DOMAIN Text[program] => Up("Server") /\ spent = [t \in Threads |-> 0]
        /\ "Server" \notin DOMAIN Text[program] => ready = <<"Init">>
    BY LedBoots
  <1>2. /\ pc = [t \in Threads |-> 1] /\ blocked = [t \in Threads |-> "no"]
        /\ count = [t \in Threads |-> 0]
        /\ events = {} /\ queue = <<>> /\ got = {} /\ due = <<>>
        /\ sem = IF program = "posix_mutex_server" THEN 1 ELSE 0
        /\ doPrint = 0 /\ value = 0 /\ readPrint = 0 /\ readValue = 0 /\ led = "unknown"
    BY DEF LedIdle
  <1>3. ~lost /\ ~again
    BY Zenon DEF LedIdle
  <1>4. /\ "Init" \in Threads /\ "Server" \in Threads
        /\ pc["Init"] = 1 /\ pc["Server"] = 1 /\ count["Init"] = 0 /\ count["Server"] = 0
        /\ blocked["Init"] = "no" /\ blocked["Server"] = "no"
        /\ led # Lamp(0) /\ led # Lamp(1) /\ count \in [Threads -> 0 .. 1]
    BY <1>2 DEF Threads, Lamp
  <1>5. DataOK
    <2>1. queue \in Seq(0 .. 1)
      BY <1>2
    <2>2. QED
      BY <1>1, <1>2, <1>4, <2>1 DEF DataOK, Colors, TurnPrograms
  <1>6. program \in SendPrograms => SendInv
    <2> SUFFICES ASSUME program \in SendPrograms PROVE SendInv
      OBVIOUS
    <2>1. Up("Server")
      BY <1>1, SendText DEF Threads
    <2>2. Toward
      BY <1>2, <1>4 DEF Toward, NonePending, ServerAt
    <2>3. pc \in [Threads -> 1 .. 2]
      BY <1>2
    <2>4. QED
      BY <1>1, <1>3, <1>4, <2>1, <2>2, <2>3 DEF SendInv
  <1>7. program = "posix_cond_server" => CondInv
    <2> SUFFICES ASSUME program = "posix_cond_server" PROVE CondInv
      OBVIOUS
    <2>1. Up("Server")
      BY <1>1, CondText DEF Threads, CondPrograms
    <2>2. pc \in [Threads -> 1 .. 2]
      BY <1>2
    <2>3. QED
      BY <1>1, <1>3, <1>4, <2>1, <2>2 DEF CondInv
  <1>8. program = "ratemon_cond_server" => RatemonCondInv
    <2>1. pc \in [Threads -> 1 .. 2]
      BY <1>2
    <2>2. QED
      BY <1>1, <1>3, <1>4, <2>1 DEF RatemonCondInv
  <1>9. program \in TurnPrograms => TurnInv
    <2> SUFFICES ASSUME program \in TurnPrograms PROVE TurnInv
      OBVIOUS
    <2>1. Up("Server")
      BY <1>1, TurnText DEF Threads
    <2>2. pc \in [Threads -> 1 .. 4]
      BY <1>2
    <2>3. Turn("Init") \/ NobodysTurn
      <3>1. CASE program = "sem_server"
        <4>1. sem = 0 /\ Phase("Init") = 2 /\ Phase("Server") = 1
          BY <1>2, <1>4, <3>1 DEF Phase, PhaseOf
        <4>2. Turn("Init")
          BY <1>1, <1>2, <1>4, <2>1, <4>1 DEF Turn, Other, Mine
        <4>3. QED
          BY <4>2
      <3>2. CASE program = "posix_mutex_server"
        <4>1. sem = 1 /\ Phase("Init") = 1 /\ Phase("Server") = 1
          BY <1>2, <1>4, <3>2 DEF Phase, PhaseOf
        <4>2. NobodysTurn
          BY <1>1, <1>2, <2>1, <4>1 DEF NobodysTurn
        <4>3. QED
          BY <4>2
      <3>3. QED
        BY <3>1, <3>2 DEF TurnPrograms
    <2>4. QED
      BY <1>1, <1>3, <1>4, <2>2, <2>3 DEF TurnInv
  <1>10. program \in OnePrograms => OneInv
    <2>1. pc \in [Threads -> 1 .. 9]
      BY <1>2
    <2>2. Showing
      BY <1>2, <1>4 DEF Showing
    <2>3. QED
      BY <1>1, <1>3, <1>4, <2>1, <2>2 DEF OneInv
  <1>11. TimesOK
    BY <1>1 DEF TimesOK
  <1>12. program = "timer" => TimerInv
    <2>1. pc \in [Threads -> 1 .. 19]
      BY <1>2
    <2>2. Unraced
      BY <1>2, <1>3, <1>4 DEF Unraced, Starting
    <2>3. QED
      BY <1>1, <1>3, <1>4, <1>11, <2>1, <2>2 DEF TimerInv
  <1>13. program = "timer_server" => OnceInv
    <2>1. pc \in [Threads -> 1 .. 4] /\ due \in LinesOf("Timer1", "Timer2")
      BY <1>2 DEF LinesOf
    <2>2. \A x : ~Left(x)
      BY <1>2 DEF Left
    <2>3. QED
      BY <1>1, <1>3, <1>4, <2>1, <2>2 DEF OnceInv
  <1>14. program = "timer_server" => ServerInv
    <2> SUFFICES ASSUME program = "timer_server" PROVE ServerInv
      OBVIOUS
    <2>1. Up("Server") /\ spent \in [Threads -> Nat] /\ spent["Server"] = 0
      BY <1>1, <1>4, ServerText
    <2>2. pc \in [Threads -> 1 .. 4]
      BY <1>2
    <2>3. Setting
      BY <1>1, <1>2, <1>4, <2>1 DEF Setting
    <2>4. QED
      BY <1>1, <1>3, <1>4, <1>11, <2>1, <2>2, <2>3 DEF ServerInv
  <1>15. program \in SinglePrograms => Single
    <2>1. program \in SinglePrograms => "Server" \notin DOMAIN Text[program]
      BY OneText, TimerText DEF SinglePrograms
    <2>2. QED
      BY <1>1, <2>1 DEF Single
  <1>16. QED
    BY <1>5, <1>6, <1>7, <1>8, <1>9, <1>10, <1>12, <1>13, <1>14, <1>15 DEF LedInv

LEMMA PlacesAlone ==
  ASSUME UNCHANGED ledVars
  PROVE  /\ Places' <=> Places
         /\ \A t : (Up(t)' <=> Up(t)) /\ (First(t)' <=> First(t))
         /\ \A x : IsSet(x)' <=> IsSet(x)
         /\ \A x, l : In(alarm', x, l) <=> In(alarm, x, l)
         /\ TimesOK' <=> TimesOK
         /\ \A x : LastSet(x)' <=> LastSet(x)
         /\ UNCHANGED <<program, pc, blocked, count, events, queue, got, sem, due, doPrint, value,
                         readPrint, readValue, led, again, lost, raced, spent, postponed, ready>>
  <1>1. UNCHANGED <<program, ready, alarm, spent, postponed, awaiting, pc, blocked, count, events,
                    queue, got, sem, due, doPrint, value, readPrint, readValue, led, again, lost,
                    raced>>
    BY DEF ledVars, kernel, period, thread, object, timer, lamp, history
  <1>2. /\ \A t : (Up(t)' <=> Up(t)) /\ (First(t)' <=> First(t))
        /\ \A x : IsSet(x)' <=> IsSet(x)
    BY <1>1 DEF Up, IsReady, First, IsSet
  <1>3. Places' <=> Places
    BY <1>1, <1>2 DEF Places, AlarmsOK, Waits
  <1>4. QED
    BY <1>1, <1>2, <1>3 DEF TimesOK, LastSet, TimerTicks

\* A step that leaves all of it alone keeps the invariant.
LEMMA LedAlone ==
  ASSUME LedInv, UNCHANGED <<program, thread, object, timer, lamp, history>>,
         program \in LedPrograms => UNCHANGED kernel
  PROVE  LedInv'
  <1>1. CASE program \notin LedPrograms
    BY <1>1 DEF LedInv, LedIdle, thread, object, timer, lamp, history
  <1>2. CASE program \in LedPrograms
    <2>1. UNCHANGED ledVars
      BY <1>2 DEF ledVars
    <2>2. /\ Places' <=> Places
          /\ \A t : (Up(t)' <=> Up(t)) /\ (First(t)' <=> First(t))
          /\ \A x : IsSet(x)' <=> IsSet(x)
          /\ \A x, l : In(alarm', x, l) <=> In(alarm, x, l)
          /\ TimesOK' <=> TimesOK
          /\ \A x : LastSet(x)' <=> LastSet(x)
          /\ UNCHANGED <<program, pc, blocked, count, events, queue, got, sem, due, doPrint, value,
                          readPrint, readValue, led, again, lost, raced, spent, postponed, ready>>
      BY <2>1, PlacesAlone
    <2>3. (lost' <=> lost) /\ (again' <=> again) /\ (raced' <=> raced)
      BY <2>2, Zenon
    <2>4. SendInv => SendInv'
      BY <2>2, <2>3 DEF SendInv, Toward, NonePending, ServerAt, SentPending, Sent, ToSend, Reason
    <2>5. CondInv => CondInv'
      BY <2>2, <2>3 DEF CondInv, ServerAt
    <2>6. RatemonCondInv => RatemonCondInv'
      BY <2>2, <2>3 DEF RatemonCondInv
    <2>7. TurnInv => TurnInv'
      BY <2>2, <2>3 DEF TurnInv, Turn, NobodysTurn, Phase, PhaseOf
    <2>8. OneInv => OneInv'
      BY <2>2, <2>3 DEF OneInv, Showing
    <2>9. TimerInv => TimerInv'
      <3>1. (Starting => Starting') /\ \A x : Going(x) => Going(x)'
        BY <2>2 DEF Starting, Going, Fresh, Shown
      <3>2. Unraced => Unraced'
        BY <2>2, <2>3, <3>1 DEF Unraced
      <3>3. QED
        BY <2>2, <2>3, <3>2 DEF TimerInv
    <2>10. OnceInv => OnceInv'
      BY <2>2, <2>3 DEF OnceInv, Left
    <2>11. ServerInv => ServerInv'
      <3>1. (Setting => Setting') /\ (SetOne => SetOne') /\ (Paused => Paused')
        BY <2>2 DEF Setting, SetOne, Paused, TimerTicks
      <3>2. Asleep => Asleep'
        BY <2>2 DEF Asleep
      <3>3. Alternating => Alternating'
        BY <2>2 DEF Alternating, Serving
      <3>4. QED
        BY <2>2, <2>3, <3>1, <3>2, <3>3 DEF ServerInv
    <2>12. (Single => Single') /\ (DataOK => DataOK')
      BY <2>2 DEF Single, DataOK
    <2>13. QED
      BY <1>2, <2>2, <2>4, <2>5, <2>6, <2>7, <2>8, <2>9, <2>10, <2>11, <2>12 DEF LedInv
  <1>3. QED
    BY <1>1, <1>2

-----------------------------------------------------------------------------
(* What it shows.                                                          *)

LEMMA LedAlternates ==
  ASSUME LedInv, program = "timer_server" => Prompt
  PROVE  Alternates
  <1>1. CASE program \notin LedPrograms
    BY <1>1, Zenon DEF LedInv, LedIdle, Alternates
  <1>2. CASE program \in SendPrograms \cup {"posix_cond_server", "ratemon_cond_server"}
    BY <1>2, Families, Zenon DEF LedInv, SendInv, CondInv, RatemonCondInv, Alternates, CondPrograms
  <1>3. CASE program \in TurnPrograms \cup OnePrograms
    BY <1>3, Families, Zenon DEF LedInv, TurnInv, OneInv, Alternates, SinglePrograms
  <1>4. CASE program \in {"timer", "timer_server"}
    <2>1. program \in LedPrograms
      BY <1>4, Families DEF SinglePrograms
    <2>2. CASE program = "timer"
      <3>1. raced \/ Unraced
        BY <2>1, <2>2, Zenon DEF LedInv, TimerInv
      <3>2. QED
        BY <3>1, Zenon DEF Unraced, Alternates
    <2>3. CASE program = "timer_server"
      BY <2>1, <2>3, Zenon DEF LedInv, ServerInv, Alternates
    <2>4. QED
      BY <1>4, <2>2, <2>3
  <1>5. QED
    BY <1>1, <1>2, <1>3, <1>4, Families DEF CondPrograms, SinglePrograms

LEMMA LedLosesNothing ==
  ASSUME LedInv PROVE NothingLost
  <1>1. CASE program \notin LedPrograms
    BY <1>1, Zenon DEF LedInv, LedIdle, NothingLost
  <1>2. CASE program \in LedPrograms
    <2>1. CASE program \in SendPrograms \cup TurnPrograms \cup OnePrograms
      BY <1>2, <2>1, Zenon DEF LedInv, SendInv, TurnInv, OneInv, NothingLost
    <2>2. CASE program \in {"posix_cond_server", "timer", "timer_server"}
      BY <1>2, <2>2, Zenon DEF LedInv, CondInv, TimerInv, OnceInv, NothingLost
    <2>3. CASE program = "ratemon_cond_server"
      BY <2>3, Zenon DEF NothingLost
    <2>4. QED
      BY <1>2, <2>1, <2>2, <2>3, Families DEF CondPrograms, SinglePrograms
  <1>3. QED
    BY <1>1, <1>2

LEMMA AtMostTwo ==
  ASSUME NEW a, NEW b, NEW S, S \subseteq {a, b}
  PROVE  IsFiniteSet(S) /\ Cardinality(S) <= 2
  <1>1. IsFiniteSet({a}) /\ Cardinality({a}) = 1
    BY FS_Singleton
  <1>2. {a, b} = {a} \cup {b}
    OBVIOUS
  <1>3. IsFiniteSet({a, b}) /\ Cardinality({a, b}) <= 2
    <2>1. /\ IsFiniteSet({a} \cup {b})
          /\ Cardinality({a} \cup {b}) = IF b \in {a} THEN Cardinality({a}) ELSE Cardinality({a}) + 1
      BY <1>1, FS_AddElement
    <2>2. QED
      BY <1>1, <1>2, <2>1
  <1>4. /\ IsFiniteSet(S) /\ Cardinality(S) <= Cardinality({a, b})
    BY <1>3, FS_Subset
  <1>5. Cardinality(S) \in Nat /\ Cardinality({a, b}) \in Nat
    BY <1>3, <1>4, FS_CardinalityType
  <1>6. QED
    BY <1>3, <1>4, <1>5

LEMMA ShortLens == \A x, y : Len(<<>>) = 0 /\ Len(<<x>>) = 1 /\ Len(<<x, y>>) = 2
  OBVIOUS

LEMMA LedTyped ==
  ASSUME LedInv, program \in LedPrograms PROVE LedTypeOK
  <1>1. Places /\ PcOK /\ DataOK
    BY LedPlaces DEF LedInv
  <1>2. Range(ready) \subseteq DOMAIN Text[program]
    <2>1. CASE program \in SinglePrograms
      <3>1. DOMAIN Text[program] = {"Init"}
        BY <2>1, OneText, TimerText DEF SinglePrograms
      <3>2. Range(<<>>) = {} /\ Range(<<"Init">>) = {"Init"}
        BY DEF Range
      <3>3. ready \in {<<>>, <<"Init">>}
        BY <2>1 DEF LedInv, Single
      <3>4. QED
        BY <3>1, <3>2, <3>3
    <2>2. CASE program \notin SinglePrograms
      <3>1. DOMAIN Text[program] = Threads
        BY <2>2, Families, SendText, CondText, TurnText, ServerText
      <3>2. \A q \in LinesOf("Init", "Server") : \A n \in DOMAIN q : q[n] \in Threads
        BY DEF LinesOf, Threads
      <3>3. QED
        BY <1>1, <3>1, <3>2 DEF Places, Range
    <2>3. QED
      BY <2>1, <2>2
  <1>3. IsInjective(ready)
    <2>1. \A q \in LinesOf("Init", "Server") : \A m, n \in DOMAIN q : q[m] = q[n] => m = n
      BY DEF LinesOf
    <2>2. QED
      BY <1>1, <2>1 DEF Places, IsInjective
  <1>4. \A t \in DOMAIN Text[program] : pc[t] \in 1 .. Len(Text[program][t].ops)
    BY <1>1 DEF PcOK
  <1>5. blocked \in [Threads -> {"no", "event", "message", "semaphore", "condition", "timer"}]
    BY <1>1 DEF Places, Reasons
  <1>6. Len(queue) <= QueueSize
    <2>1. QueueSize >= 1
      BY DEF QueueSize
    <2>2. CASE program \in SendPrograms
      <3>1. Toward
        BY <2>2 DEF LedInv, SendInv
      <3>2. queue = <<>> \/ queue = <<Sent>>
        BY <3>1 DEF Toward, NonePending, SentPending
      <3>3. Len(queue) <= 1
        <4>1. CASE queue = <<>>
          BY <4>1, ShortLens
        <4>2. CASE queue = <<Sent>>
          BY <4>2, ShortLens
        <4>3. QED
          BY <3>2, <4>1, <4>2
      <3>4. QED
        BY <2>1, <3>2, <3>3 DEF QueueSize
    <2>3. CASE program \notin SendPrograms
      BY <1>1, <2>1, <2>3 DEF DataOK, QueueSize
    <2>4. QED
      BY <2>2, <2>3
  <1>7. Cardinality(got) <= 2
    <2>1. got \subseteq {"off", "on"} \/ got \subseteq {0, 1}
      BY <1>1 DEF DataOK
    <2>2. QED
      BY <2>1, AtMostTwo
  <1>8. sem \in 0 .. 1
    <2>1. CASE program \in TurnPrograms
      BY <2>1 DEF LedInv, TurnInv, Turn, NobodysTurn
    <2>2. CASE program \notin TurnPrograms
      BY <1>1, <2>2 DEF DataOK
    <2>3. QED
      BY <2>1, <2>2
  <1>9. \A p \in Periods : postponed[p] <= MostPostponed
    BY <1>1 DEF DataOK, MostPostponed
  <1>10. Len(due) <= 2
    <2>1. CASE program = "timer_server"
      <3>1. due \in LinesOf("Timer1", "Timer2")
        BY <2>1 DEF LedInv, OnceInv
      <3>2. PICK x, y : due \in {<<>>, <<x>>, <<x, y>>}
        BY <3>1 DEF LinesOf
      <3>3. CASE due = <<>>
        BY <3>3, ShortLens
      <3>4. CASE due = <<x>>
        BY <3>4, ShortLens
      <3>5. CASE due = <<x, y>>
        BY <3>5, ShortLens
      <3>6. QED
        BY <3>2, <3>3, <3>4, <3>5
    <2>2. CASE program # "timer_server"
      BY <1>1, <2>2 DEF DataOK
    <2>3. QED
      BY <2>1, <2>2
  <1>11. /\ count \in [Threads -> 0 .. 1] /\ events \subseteq {"off", "on"}
         /\ doPrint \in 0 .. 1 /\ value \in 0 .. 2 /\ readPrint \in 0 .. 1 /\ readValue \in 0 .. 2
         /\ led \in {"unknown", "off", "on"}
    BY <1>1 DEF DataOK, Colors
  <1>12. QED
    BY <1>2, <1>3, <1>4, <1>5, <1>6, <1>7, <1>8, <1>9, <1>10, <1>11 DEF LedTypeOK

=============================================================================
