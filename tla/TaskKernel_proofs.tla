-------------------------- MODULE TaskKernel_proofs --------------------------
(***************************************************************************)
(* Lemmas about TaskKernel: what the clock tick, the setting and the       *)
(* serving of an alarm do to the alarms, whatever the program.             *)
(***************************************************************************)
EXTENDS TaskKernel, SequenceTheorems, TLAPS

-----------------------------------------------------------------------------
(* Lists of alarms.                                                        *)

Alarms(names) == [what : names, left : Nat]

\* Each alarm is in the list once.
Distinct(q) ==
  \A m, n \in 1 .. Len(q) : q[m].what = q[n].what => m = n

\* The alarm x is in the list, with l ticks left; it is before the alarm y.
In(q, x, l) == \E n \in 1 .. Len(q) : q[n].what = x /\ q[n].left = l
Before(q, x, y) ==
  \E m, n \in 1 .. Len(q) : m < n /\ q[m].what = x /\ q[n].what = y

AlarmsOK(names) == alarm \in Seq(Alarms(names)) /\ Distinct(alarm)

\* An alarm that is added is the last.
LEMMA Added ==
  ASSUME NEW names, NEW q \in Seq(Alarms(names)), Distinct(q),
         NEW x \in names, NEW ticks \in Nat, \A l : ~In(q, x, l)
  PROVE  LET r == Append(q, [what |-> x, left |-> ticks])
         IN
         /\ r \in Seq(Alarms(names)) /\ Distinct(r)
         /\ \A y, l : In(r, y, l) <=> In(q, y, l) \/ (y = x /\ l = ticks)
         /\ \A y, z : Before(q, y, z) => Before(r, y, z)
         /\ \A y, l : In(q, y, l) => Before(r, y, x)
  <1> DEFINE a == [what |-> x, left |-> ticks]
             r == Append(q, a)
  <1>1. a \in Alarms(names) /\ a.what = x /\ a.left = ticks
    BY DEF Alarms
  <1>2. /\ r \in Seq(Alarms(names)) /\ Len(q) \in Nat /\ Len(r) = Len(q) + 1
        /\ r[Len(q) + 1] = a /\ \A n \in 1 .. Len(q) : r[n] = q[n]
    BY <1>1
  <1>3. \A n \in 1 .. Len(q) : q[n].what # x
    BY DEF In
  <1> HIDE DEF a, r
  <1>4. \A n \in 1 .. Len(r) : n \in 1 .. Len(q) \/ n = Len(q) + 1
    BY <1>2
  <1>5. \A n \in 1 .. Len(q) : n \in 1 .. Len(r) /\ n < Len(q) + 1
    BY <1>2
  <1>6. Len(q) + 1 \in 1 .. Len(r)
    BY <1>2
  <1>7. Distinct(r)
    BY <1>1, <1>2, <1>3, <1>4 DEF Distinct
  <1>8. \A y, l : In(r, y, l) <=> In(q, y, l) \/ (y = x /\ l = ticks)
    BY <1>1, <1>2, <1>4, <1>5, <1>6 DEF In
  <1>9. \A y, z : Before(q, y, z) => Before(r, y, z)
    BY <1>2, <1>5 DEF Before
  <1>10. \A y, l : In(q, y, l) => Before(r, y, x)
    BY <1>1, <1>2, <1>5, <1>6 DEF In, Before
  <1>11. QED
    BY <1>2, <1>7, <1>8, <1>9, <1>10 DEF a, r

\* An alarm that is removed leaves the others in their order.
LEMMA Removed ==
  ASSUME NEW names, NEW q \in Seq(Alarms(names)), Distinct(q),
         NEW k \in 1 .. Len(q), NEW r, r = RemoveAt(q, k)
  PROVE  /\ r \in Seq(Alarms(names)) /\ Distinct(r)
         /\ \A y, l : In(r, y, l) <=> In(q, y, l) /\ y # q[k].what
         /\ \A y, z : Before(q, y, z) /\ y # q[k].what /\ z # q[k].what => Before(r, y, z)
  <1> DEFINE Old(n) == IF n < k THEN n ELSE n + 1
             New(n) == IF n < k THEN n ELSE n - 1
  <1>1. /\ r \in Seq(Alarms(names)) /\ Len(q) \in Nat \ {0} /\ Len(r) = Len(q) - 1
        /\ \A n \in 1 .. Len(r) : r[n] = q[Old(n)]
    <2>1. Len(q) \in Nat /\ k \in Int /\ 1 <= k /\ k <= Len(q)
      OBVIOUS
    <2>2. /\ SubSeq(q, 1, k - 1) \in Seq(Alarms(names)) /\ Len(SubSeq(q, 1, k - 1)) = k - 1
          /\ \A n \in 1 .. k - 1 : SubSeq(q, 1, k - 1)[n] = q[n]
      BY <2>1
    <2>3. /\ SubSeq(q, k + 1, Len(q)) \in Seq(Alarms(names))
          /\ Len(SubSeq(q, k + 1, Len(q))) = Len(q) - k
          /\ \A n \in 1 .. Len(q) - k : SubSeq(q, k + 1, Len(q))[n] = q[k + n]
      BY <2>1
    <2>4. r = SubSeq(q, 1, k - 1) \o SubSeq(q, k + 1, Len(q))
      BY DEF RemoveAt
    <2> HIDE DEF Old, New
    <2>5. /\ r \in Seq(Alarms(names)) /\ Len(r) = Len(q) - 1
          /\ \A n \in 1 .. k - 1 : r[n] = SubSeq(q, 1, k - 1)[n]
          /\ \A n \in k .. Len(r) : r[n] = SubSeq(q, k + 1, Len(q))[n - (k - 1)]
      <3> DEFINE s == SubSeq(q, 1, k - 1)
                 t == SubSeq(q, k + 1, Len(q))
      <3> HIDE DEF s, t
      <3>1. /\ s \in Seq(Alarms(names)) /\ Len(s) = k - 1
            /\ t \in Seq(Alarms(names)) /\ Len(t) = Len(q) - k /\ r = s \o t
        BY <2>2, <2>3, <2>4 DEF s, t
      <3>2. /\ s \o t \in Seq(Alarms(names)) /\ Len(s \o t) = Len(s) + Len(t)
            /\ \A n \in 1 .. Len(s) + Len(t) : (s \o t)[n] =
                           IF n <= Len(s) THEN s[n] ELSE t[n - Len(s)]
        BY <3>1, ConcatProperties
      <3>3. Len(r) = Len(q) - 1
        BY <2>1, <3>1, <3>2
      <3>4. ASSUME NEW n \in 1 .. k - 1 PROVE r[n] = s[n]
        <4>1. n \in 1 .. Len(s) + Len(t) /\ n <= Len(s)
          BY <2>1, <3>1
        <4>2. QED
          BY <3>1, <3>2, <4>1
      <3>5. ASSUME NEW n \in k .. Len(r) PROVE r[n] = t[n - (k - 1)]
        <4>1. n \in 1 .. Len(s) + Len(t) /\ ~(n <= Len(s)) /\ n - Len(s) = n - (k - 1)
          BY <2>1, <3>1, <3>3
        <4>2. QED
          BY <3>1, <3>2, <4>1
      <3>6. QED
        BY <3>1, <3>2, <3>3, <3>4, <3>5 DEF s, t
    <2>6. ASSUME NEW n \in 1 .. Len(r) PROVE r[n] = q[Old(n)]
      <3>1. CASE n < k
        BY <2>1, <2>2, <2>5, <3>1 DEF Old
      <3>2. CASE ~(n < k)
        <4>1. n - (k - 1) \in 1 .. Len(q) - k /\ n \in k .. Len(r) /\ k + (n - (k - 1)) = n + 1
          BY <2>1, <2>5, <3>2
        <4>2. r[n] = q[k + (n - (k - 1))]
          BY <2>3, <2>5, <4>1
        <4>3. QED
          BY <4>1, <4>2, <3>2 DEF Old
      <3>3. QED
        BY <3>1, <3>2
    <2>7. QED
      BY <2>1, <2>5, <2>6
  <1>2. \A n \in 1 .. Len(r) : Old(n) \in 1 .. Len(q) /\ Old(n) # k
    BY <1>1
  <1>3. \A n \in 1 .. Len(q) : n # k => /\ New(n) \in 1 .. Len(r) /\ Old(New(n)) = n
    BY <1>1
  <1>4. \A m, n \in 1 .. Len(r) : Old(m) = Old(n) => m = n
    BY <1>1
  <1>5. \A m, n \in 1 .. Len(q) : m # k /\ n # k /\ m < n => New(m) < New(n)
    BY <1>1
  <1> HIDE DEF Old, New
  <1>6. \A n \in 1 .. Len(q) : n # k => q[n].what # q[k].what
    BY DEF Distinct
  <1>7. \A n \in 1 .. Len(q) : n # k => r[New(n)] = q[n]
    BY <1>1, <1>3
  <1>8. Distinct(r)
    BY <1>1, <1>2, <1>4 DEF Distinct
  <1>9. \A y, l : In(r, y, l) => In(q, y, l) /\ y # q[k].what
    BY <1>1, <1>2, <1>6 DEF In
  <1>10. \A y, l : In(q, y, l) /\ y # q[k].what => In(r, y, l)
    BY <1>3, <1>7 DEF In
  <1>11. \A y, z : Before(q, y, z) /\ y # q[k].what /\ z # q[k].what => Before(r, y, z)
    BY <1>3, <1>5, <1>7 DEF Before
  <1>12. QED
    BY <1>1, <1>8, <1>9, <1>10, <1>11

-----------------------------------------------------------------------------
(* The steps of the kernel.                                                *)

\* What is due is served, and only it.
LEMMA UnservedIs ==
  ASSUME NEW names, AlarmsOK(names), NEW x, Due(x)
  PROVE  /\ Unserved \in Seq(Alarms(names)) /\ Distinct(Unserved)
         /\ In(alarm, x, 0) /\ x \in names
         /\ \A y, l : In(Unserved, y, l) <=> In(alarm, y, l) /\ y # x
         /\ \A y, z : Before(alarm, y, z) /\ y # x /\ z # x => Before(Unserved, y, z)
         /\ \A y : Before(alarm, y, x) => ~In(alarm, y, 0)
  <1>1. alarm \in Seq(Alarms(names)) /\ Distinct(alarm)
    BY DEF AlarmsOK
  <1>2. DOMAIN alarm = 1 .. Len(alarm) /\ Len(alarm) \in Nat
    BY <1>1
  <1>3. PICK n \in 1 .. Len(alarm) : IsFirstDue(n) /\ alarm[n].what = x
    BY <1>2 DEF Due
  <1>4. \A m \in 1 .. Len(alarm) : alarm[m].left \in Nat /\ alarm[m].what \in names
    <2>1. \A m \in 1 .. Len(alarm) : alarm[m] \in Alarms(names)
      BY <1>1, <1>2
    <2>2. QED
      BY <2>1 DEF Alarms
  <1>5. ASSUME NEW m \in 1 .. Len(alarm), IsFirstDue(m) PROVE m = n
    <2>1. CASE m < n
      <3>1. alarm[m].left > 0
        BY <1>2, <1>3, <2>1 DEF IsFirstDue
      <3>2. QED
        BY <1>5, <3>1 DEF IsFirstDue
    <2>2. CASE n < m
      <3>1. alarm[n].left > 0
        BY <1>2, <1>5, <2>2 DEF IsFirstDue
      <3>2. QED
        BY <1>3, <3>1 DEF IsFirstDue
    <2>3. QED
      BY <1>2, <2>1, <2>2
  <1>6. ~Quiet
    BY <1>2, <1>3 DEF Quiet, IsFirstDue
  <1>7. (CHOOSE k \in DOMAIN alarm : IsFirstDue(k)) = n
    BY <1>2, <1>3, <1>5
  <1>8. Unserved = RemoveAt(alarm, n)
    BY <1>6, <1>7 DEF Unserved
  <1>9. In(alarm, x, 0) /\ x \in names
    BY <1>3, <1>4 DEF In, IsFirstDue
  <1>10. ASSUME NEW y, Before(alarm, y, x) PROVE ~In(alarm, y, 0)
    <2>1. PICK m, k \in 1 .. Len(alarm) : m < k /\ alarm[m].what = y /\ alarm[k].what = x
      BY <1>10 DEF Before
    <2>2. k = n
      BY <1>1, <1>3, <2>1 DEF Distinct
    <2>3. alarm[m].left > 0
      BY <1>2, <1>3, <2>1, <2>2 DEF IsFirstDue
    <2>4. \A j \in 1 .. Len(alarm) : alarm[j].what = y => j = m
      BY <1>1, <2>1 DEF Distinct
    <2>5. QED
      BY <2>3, <2>4 DEF In
  <1>11. QED
    BY <1>1, <1>3, <1>8, <1>9, <1>10, Removed

\* While nothing is due nothing is served.
LEMMA QuietUnserved == Quiet => Unserved = alarm
  BY DEF Unserved

\* An alarm is in the list with one number of ticks.
LEMMA OneLeft ==
  ASSUME NEW q, Distinct(q)
  PROVE  \A x, k, l : In(q, x, k) /\ In(q, x, l) => k = l
  BY DEF Distinct, In

\* What is set is in the list, and what is in the list has a name.
LEMMA SetIsIn ==
  ASSUME NEW names, AlarmsOK(names)
  PROVE  /\ \A x : IsSet(x) <=> \E l \in Nat : In(alarm, x, l)
         /\ \A x, l : In(alarm, x, l) => x \in names /\ l \in Nat /\ IsSet(x)
         /\ Quiet => \A x : ~In(alarm, x, 0)
  <1>1. \A m \in 1 .. Len(alarm) : alarm[m] \in Alarms(names)
    BY DEF AlarmsOK
  <1>2. DOMAIN alarm = 1 .. Len(alarm)
    BY DEF AlarmsOK
  <1>3. \A m \in 1 .. Len(alarm) : alarm[m].left \in Nat /\ alarm[m].what \in names
    BY <1>1 DEF Alarms
  <1>4. ASSUME NEW x, NEW l, In(alarm, x, l) PROVE x \in names /\ l \in Nat /\ IsSet(x)
    BY <1>2, <1>3, <1>4 DEF IsSet, In
  <1>5. ASSUME NEW x, IsSet(x) PROVE \E l \in Nat : In(alarm, x, l)
    BY <1>2, <1>3, <1>5 DEF IsSet, In
  <1>6. ASSUME Quiet, NEW x PROVE ~In(alarm, x, 0)
    BY <1>2, <1>3, <1>6 DEF In, Quiet
  <1>7. QED
    BY <1>4, <1>5, <1>6

\* The same after a step.
LEMMA SetIsInNext ==
  ASSUME NEW names, AlarmsOK(names)'
  PROVE  /\ \A x : IsSet(x)' <=> \E l \in Nat : In(alarm', x, l)
         /\ \A x, l : In(alarm', x, l) => x \in names /\ l \in Nat /\ IsSet(x)'
  <1>1. \A m \in 1 .. Len(alarm') : alarm'[m] \in Alarms(names)
    BY DEF AlarmsOK
  <1>2. DOMAIN alarm' = 1 .. Len(alarm')
    BY DEF AlarmsOK
  <1>3. \A m \in 1 .. Len(alarm') : alarm'[m].left \in Nat /\ alarm'[m].what \in names
    BY <1>1 DEF Alarms
  <1>4. ASSUME NEW x, NEW l, In(alarm', x, l) PROVE x \in names /\ l \in Nat /\ IsSet(x)'
    BY <1>2, <1>3, <1>4 DEF IsSet, In
  <1>5. ASSUME NEW x, IsSet(x)' PROVE \E l \in Nat : In(alarm', x, l)
    BY <1>2, <1>3, <1>5 DEF IsSet, In
  <1>6. QED
    BY <1>4, <1>5

\* A thread or an interrupt sets an alarm that is not set: while nothing is due ...
LEMMA SetAlarm ==
  ASSUME NEW names, AlarmsOK(names), NEW x \in names, NEW ticks \in Nat,
         ~IsSet(x), Quiet, Set(x, ticks)
  PROVE  /\ AlarmsOK(names)'
         /\ \A y, l : In(alarm', y, l) <=> In(alarm, y, l) \/ (y = x /\ l = ticks)
         /\ \A y, z : Before(alarm, y, z) => Before(alarm', y, z)
         /\ \A y, l : In(alarm, y, l) => Before(alarm', y, x)
  <1>1. alarm' = Append(alarm, [what |-> x, left |-> ticks])
    BY QuietUnserved DEF Set
  <1>2. alarm \in Seq(Alarms(names)) /\ Distinct(alarm) /\ \A l : ~In(alarm, x, l)
    BY SetIsIn DEF AlarmsOK
  <1>3. QED
    BY <1>1, <1>2, Added DEF AlarmsOK

\* ... or the one that is served, or another one while one is served.
LEMMA SetServed ==
  ASSUME NEW names, AlarmsOK(names), NEW x \in names, NEW ticks \in Nat,
         NEW y \in names, Due(y), x = y \/ ~IsSet(x), Set(x, ticks)
  PROVE  /\ AlarmsOK(names)'
         /\ \A z, l : In(alarm', z, l) <=>
              (In(alarm, z, l) /\ z # y) \/ (z = x /\ l = ticks)
         /\ \A v, z : Before(alarm, v, z) /\ v # y /\ z # y => Before(alarm', v, z)
         /\ \A z, l : In(alarm, z, l) /\ z # y => Before(alarm', z, x)
  <1>1. alarm' = Append(Unserved, [what |-> x, left |-> ticks])
    BY DEF Set
  <1>2. /\ Unserved \in Seq(Alarms(names)) /\ Distinct(Unserved)
        /\ \A z, l : In(Unserved, z, l) <=> In(alarm, z, l) /\ z # y
        /\ \A v, z : Before(alarm, v, z) /\ v # y /\ z # y => Before(Unserved, v, z)
    BY UnservedIs
  <1>3. \A l : ~In(Unserved, x, l)
    BY <1>2, SetIsIn
  <1>4. /\ alarm' \in Seq(Alarms(names)) /\ Distinct(alarm')
        /\ \A z, l : In(alarm', z, l) <=> In(Unserved, z, l) \/ (z = x /\ l = ticks)
        /\ \A v, z : Before(Unserved, v, z) => Before(alarm', v, z)
        /\ \A z, l : In(Unserved, z, l) => Before(alarm', z, x)
    BY <1>1, <1>2, <1>3, Added
  <1>5. QED
    BY <1>2, <1>4 DEF AlarmsOK

\* An interrupt that sets no alarm.
LEMMA ServedAlarm ==
  ASSUME NEW names, AlarmsOK(names), NEW x, Due(x), alarm' = Unserved
  PROVE  /\ AlarmsOK(names)' /\ In(alarm, x, 0)
         /\ \A y, l : In(alarm', y, l) <=> In(alarm, y, l) /\ y # x
         /\ \A y, z : Before(alarm, y, z) /\ y # x /\ z # x => Before(alarm', y, z)
         /\ \A y : Before(alarm, y, x) => ~In(alarm, y, 0)
  BY UnservedIs DEF AlarmsOK

\* The clock ticks.
LEMMA TickAlarms ==
  ASSUME NEW names, AlarmsOK(names), Tick
  PROVE  /\ AlarmsOK(names)'
         /\ \A y : \A l \in Nat : In(alarm', y, l) <=> In(alarm, y, l + 1)
         /\ \A y, z : Before(alarm, y, z) => Before(alarm', y, z)
  <1>1. /\ alarm \in Seq(Alarms(names)) /\ Distinct(alarm) /\ Len(alarm) \in Nat
        /\ DOMAIN alarm = 1 .. Len(alarm)
    BY DEF AlarmsOK
  <1>2. \A m \in 1 .. Len(alarm) : /\ alarm[m] \in Alarms(names)
                                   /\ alarm[m].left \in Nat \ {0} /\ alarm[m].what \in names
    <2>1. \A m \in 1 .. Len(alarm) : alarm[m] \in Alarms(names) /\ alarm[m].left > 0
      BY <1>1 DEF Tick, Quiet
    <2>2. QED
      BY <2>1 DEF Alarms
  <1>3. alarm' = [n \in 1 .. Len(alarm) |-> [alarm[n] EXCEPT !.left = @ - 1]]
    BY <1>1 DEF Tick
  <1>4. \A m \in 1 .. Len(alarm) : /\ alarm'[m] \in Alarms(names)
                                   /\ alarm'[m].left = alarm[m].left - 1
                                   /\ alarm'[m].what = alarm[m].what
    BY <1>2, <1>3 DEF Alarms
  <1>5. alarm' \in Seq(Alarms(names)) /\ Len(alarm') = Len(alarm)
    <2>1. DOMAIN alarm' = 1 .. Len(alarm) /\ alarm' = [n \in 1 .. Len(alarm) |-> alarm'[n]]
      BY <1>3
    <2>2. alarm' \in [1 .. Len(alarm) -> Alarms(names)]
      BY <1>4, <2>1
    <2>3. alarm' \in Seq(Alarms(names))
      BY <1>1, <2>2, SeqDef
    <2>4. DOMAIN alarm' = 1 .. Len(alarm') /\ Len(alarm') \in Nat
      BY <2>3, LenProperties
    <2>5. QED
      BY <1>1, <2>1, <2>3, <2>4
  <1>6. AlarmsOK(names)'
    BY <1>1, <1>4, <1>5 DEF AlarmsOK, Distinct
  <1>7. \A y : \A l \in Nat : In(alarm', y, l) <=> In(alarm, y, l + 1)
    <2>1. ASSUME NEW l \in Nat, NEW m \in 1 .. Len(alarm)
          PROVE  alarm'[m].left = l <=> alarm[m].left = l + 1
      <3>1. alarm[m].left \in Nat \ {0} /\ alarm'[m].left = alarm[m].left - 1
        BY <1>2, <1>4
      <3>2. QED
        BY <3>1
    <2>2. ASSUME NEW y, NEW l \in Nat, In(alarm', y, l) PROVE In(alarm, y, l + 1)
      <3>1. PICK m \in 1 .. Len(alarm) : alarm'[m].what = y /\ alarm'[m].left = l
        BY <1>5, <2>2 DEF In
      <3>2. QED
        BY <1>4, <2>1, <3>1 DEF In
    <2>3. ASSUME NEW y, NEW l \in Nat, In(alarm, y, l + 1) PROVE In(alarm', y, l)
      <3>1. PICK m \in 1 .. Len(alarm) : alarm[m].what = y /\ alarm[m].left = l + 1
        BY <2>3 DEF In
      <3>2. QED
        BY <1>4, <1>5, <2>1, <3>1 DEF In
    <2>4. QED
      BY <2>2, <2>3
  <1>8. \A y, z : Before(alarm, y, z) => Before(alarm', y, z)
    BY <1>4, <1>5 DEF Before
  <1>9. QED
    BY <1>6, <1>7, <1>8

-----------------------------------------------------------------------------
(* The ready queue of a program with at most two threads.                  *)

LinesOf(a, b) == {<<>>, <<a>>, <<b>>, <<a, b>>, <<b, a>>}
First(t) == ready # <<>> /\ Head(ready) = t
IsReady(a, b) == ready \in {<<a>>, <<a, b>>, <<b, a>>}

\* The thread that runs is ready and the first; of two that are ready one is the first.
LEMMA LineForms ==
  ASSUME NEW a, NEW b, a # b, ready \in LinesOf(a, b)
  PROVE  /\ First(a) => IsReady(a, b) /\ ~First(b)
         /\ IsReady(a, b) => First(a) \/ (First(b) /\ IsReady(b, a))
         /\ ready = <<>> <=> ~IsReady(a, b) /\ ~IsReady(b, a)
         /\ ready \in LinesOf(b, a)
  BY DEF LinesOf, First, IsReady

\* Of tuples this short the provers compute the head, the tail and what is appended.
LEMMA ShortLines ==
  ASSUME NEW a, NEW b, a # b
  PROVE  /\ Tail(<<a>>) = <<>> /\ Tail(<<a, b>>) = <<b>>
         /\ Append(<<>>, a) = <<a>> /\ Append(<<b>>, a) = <<b, a>>
         /\ Head(<<a>>) = a /\ Head(<<a, b>>) = a
         /\ <<a>> # <<>> /\ <<a>> # <<b>> /\ <<a, b>> # <<>> /\ <<a, b>> # <<a>>
         /\ <<a, b>> # <<b>> /\ <<a, b>> # <<b, a>>
  <1>1. Tail(<<a>>) = <<>> /\ Tail(<<a, b>>) = <<b>>
    OBVIOUS
  <1>2. Append(<<>>, a) = <<a>>
    <2>1. Append(<<>>, a) \in Seq({a, b}) /\ Len(Append(<<>>, a)) = 1 /\ Append(<<>>, a)[1] = a
      OBVIOUS
    <2>2. <<a>> \in Seq({a, b}) /\ Len(<<a>>) = 1 /\ <<a>>[1] = a
      OBVIOUS
    <2>3. QED
      BY <2>1, <2>2, SeqEqual
  <1>7. Append(<<b>>, a) = <<b, a>>
    <2> DEFINE S == {a, b}
               q == <<b>>
               r == <<b, a>>
    <2>1. q \in Seq(S) /\ a \in S /\ Len(q) = 1 /\ q[1] = b
      OBVIOUS
    <2>2. r \in Seq(S) /\ Len(r) = 2 /\ r[1] = b /\ r[2] = a
      OBVIOUS
    <2> HIDE DEF S, q, r
    <2>3. /\ Append(q, a) \in Seq(S) /\ Len(Append(q, a)) = Len(q) + 1
          /\ \A i \in 1 .. Len(q) : Append(q, a)[i] = q[i]
          /\ Append(q, a)[Len(q) + 1] = a
      BY <2>1, AppendProperties
    <2>4. Len(Append(q, a)) = Len(r) /\ \A i \in 1 .. Len(r) : Append(q, a)[i] = r[i]
      BY <2>1, <2>2, <2>3
    <2>5. Append(q, a) = r
      BY <2>2, <2>3, <2>4, SeqEqual
    <2>6. QED
      BY <2>5 DEF q, r
  <1>3. Head(<<a>>) = a /\ Head(<<a, b>>) = a
    OBVIOUS
  <1>4. <<a>> # <<>> /\ <<a>> # <<b>> /\ <<a, b>> # <<>> /\ <<a, b>> # <<a>>
    OBVIOUS
  <1>5. <<a, b>> # <<b>> /\ <<a, b>> # <<b, a>>
    OBVIOUS
  <1>6. QED
    BY <1>1, <1>2, <1>3, <1>4, <1>5, <1>7

\* A thread that blocks leaves the line to the other one.
LEMMA LineBlocks ==
  ASSUME NEW a, NEW b, a # b, ready \in LinesOf(a, b), First(a), ready' = Tail(ready)
  PROVE  /\ ready' \in LinesOf(a, b) /\ ~IsReady(a, b)'
         /\ IsReady(b, a)' <=> IsReady(b, a)
         /\ First(b)' <=> IsReady(b, a)
         /\ ~First(a)'
  <1>1. ready = <<a>> \/ ready = <<a, b>>
    BY DEF LinesOf, First
  <1>2. CASE ready = <<a>>
    <2>1. ready' = <<>>
      BY <1>2, ShortLines
    <2>2. QED
      BY <1>2, <2>1, ShortLines DEF LinesOf, First, IsReady
  <1>3. CASE ready = <<a, b>>
    <2>1. ready' = <<b>>
      BY <1>3, ShortLines
    <2>2. QED
      BY <1>3, <2>1, ShortLines DEF LinesOf, First, IsReady
  <1>4. QED
    BY <1>1, <1>2, <1>3

\* A thread that becomes ready is the first only if the other is not ready.
LEMMA LineWakes ==
  ASSUME NEW a, NEW b, a # b, ready \in LinesOf(a, b), ~IsReady(a, b), ready' = Append(ready, a)
  PROVE  /\ ready' \in LinesOf(a, b) /\ IsReady(a, b)'
         /\ IsReady(b, a)' <=> IsReady(b, a)
         /\ First(b)' <=> First(b)
         /\ First(a)' <=> ~IsReady(b, a)
  <1>1. ready = <<>> \/ ready = <<b>>
    BY DEF LinesOf, IsReady
  <1>2. CASE ready = <<>>
    <2>1. ready' = <<a>>
      BY <1>2, ShortLines
    <2>2. QED
      BY <1>2, <2>1, ShortLines DEF LinesOf, First, IsReady
  <1>3. CASE ready = <<b>>
    <2>1. ready' = <<b, a>>
      BY <1>3, ShortLines
    <2>2. QED
      BY <1>3, <2>1, ShortLines DEF LinesOf, First, IsReady
  <1>4. QED
    BY <1>1, <1>2, <1>3

\* Only the running thread takes a step, and nothing is due meanwhile.
LEMMA RunsFirst == \A t : Runs(t) => Quiet /\ First(t)
  BY DEF Runs, First
==============================================================================
