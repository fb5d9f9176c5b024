--------------------------- MODULE DeskLoopProofs ---------------------------
(* What the desk's refresh loop promises, for any length of the day, of its  *)
(* sleeps and of its ticks; and of what its ticks leave in the log, for any  *)
(* tickers and retention.                                                    *)
EXTENDS MCDeskLoop, FiniteSets, Sequences, FiniteSetTheorems, WellFoundedInduction, TLAPS

-----------------------------------------------------------------------------
(* Arithmetic of hours: quotients, and multiples of an hour.                 *)
LEMMA DivBounds ==
    ASSUME NEW t \in Nat, NEW h \in Nat \ {0}
    PROVE  /\ t \div h \in Nat
           /\ h * (t \div h) <= t /\ t < h * (t \div h) + h
  BY Z3

LEMMA ModIs ==
    ASSUME NEW t \in Nat, NEW h \in Nat \ {0}
    PROVE  t % h = t - h * (t \div h) /\ t % h \in 0 .. h - 1
  BY Z3

LEMMA TimesNat ==
    ASSUME NEW k \in Nat, NEW h \in Nat
    PROVE  h * k \in Nat /\ k * h = h * k
  BY Z3

LEMMA NextMultiple ==
    ASSUME NEW k \in Nat, NEW j \in Nat, NEW h \in Nat, k < j
    PROVE  h * k + h <= h * j
  BY Z3

LEMMA MultipleBelow ==
    ASSUME NEW k \in Nat, NEW j \in Nat, NEW h \in Nat \ {0}, h * k < h * j + h
    PROVE  k <= j /\ h * k <= h * j
  BY Z3

LEMMA DivOfMultiple ==
    ASSUME NEW k \in Nat, NEW h \in Nat \ {0}, NEW t \in Nat, h * k <= t, t < h * k + h
    PROVE  t \div h = k /\ t % h = t - h * k
  <1>1. t \div h = k
    BY DivBounds, MultipleBelow, Z3
  <1>2. t % h = t - h * (t \div h)
    BY ModIs
  <1> QED
    BY <1>1, <1>2

\* Beyond a multiple of h, the quotient is as large and the remainder as small.
LEMMA BeyondMultiple ==
    ASSUME NEW k \in Nat, NEW h \in Nat \ {0}, NEW t \in Nat, h * k <= t
    PROVE  k <= t \div h /\ t % h <= t - h * k
  <1>1. t \div h \in Nat /\ t < h * (t \div h) + h
    BY DivBounds
  <1>3. h * k \in Nat /\ h * (t \div h) \in Nat
    BY <1>1, TimesNat
  <1>2. k <= t \div h /\ h * k <= h * (t \div h)
    BY <1>1, <1>3, MultipleBelow
  <1> QED
    BY <1>1, <1>2, <1>3, ModIs

\* Short of a multiple of h, the quotient is less.
LEMMA ShortOfMultiple ==
    ASSUME NEW k \in Nat, NEW h \in Nat \ {0}, NEW t \in Nat, t < h * k
    PROVE  t \div h < k
  <1>1. t \div h \in Nat /\ h * (t \div h) <= t
    BY DivBounds
  <1> SUFFICES ASSUME k <= t \div h PROVE FALSE
    BY <1>1, TimesNat
  <1>2. h * k < h * (t \div h) + h
    BY <1>1, Z3
  <1> QED
    BY <1>1, <1>2, MultipleBelow, TimesNat, Z3

LEMMA Lengths ==
    /\ Hour \in Nat \ {0} /\ DayHours \in Nat \ {0} /\ Day \in Nat \ {0}
    /\ Day = DayHours * Hour
  <1>1. HourSec \in Nat \ {0} /\ DayHours \in Nat \ {0}
    BY RefreshAssumption
  <1>2. Hour \in Nat \ {0}
    BY <1>1 DEF Hour
  <1>3. DayHours * Hour \in Nat \ {0}
    BY <1>1, <1>2, Z3
  <1> QED
    BY <1>1, <1>2, <1>3 DEF Day

LessThan == {ss \in Nat \X Nat : ss[1] < ss[2]}

\* Any set of naturals has a least member.
LEMMA LeastExists ==
    ASSUME NEW S, S \subseteq Nat, S # {}
    PROVE  \E x \in S : \A y \in S : x <= y
  <1>1. IsWellFoundedOn(LessThan, Nat)
    BY NatLessThanWellFounded DEF OpToRel, LessThan
  <1>2. PICK x \in S : \A y \in S : ~(<<y, x>> \in LessThan)
    BY <1>1, WFMin, Zenon
  <1>3. \A y \in S : ~(y < x)
    BY <1>2 DEF LessThan
  <1> QED
    BY <1>3

-----------------------------------------------------------------------------
(* The next slot.                                                            *)

\* The hour h of the day d.
LEMMA HourOfDay ==
    ASSUME NEW d \in Nat, NEW h \in Hours
    PROVE  /\ DayHours * d + h \in Nat
           /\ Hour * (DayHours * d + h) = Day * d + h * Hour
           /\ (DayHours * d + h) % DayHours = h
           /\ h * Hour \in Nat /\ h * Hour < Day /\ Day * d \in Nat
  <1>1. Hour \in Nat \ {0} /\ DayHours \in Nat \ {0} /\ Day = DayHours * Hour /\ Day \in Nat
    BY Lengths
  <1>2. h \in Nat /\ h < DayHours
    BY <1>1 DEF Hours
  <1>3. DayHours * d \in Nat /\ h * Hour \in Nat /\ Day * d \in Nat
    BY <1>1, <1>2, TimesNat
  <1>4. DayHours * d + h \in Nat
    BY <1>2, <1>3
  <1>5. Hour * (DayHours * d + h) = Day * d + h * Hour
    BY <1>1, <1>2, <1>3, Z3
  <1>6. h * Hour < Day
    BY <1>1, <1>2, Z3
  <1> DEFINE n == DayHours * d + h
  <1>7. n \in Nat /\ DayHours * d <= n /\ n < DayHours * d + DayHours
    BY <1>1, <1>2, <1>3
  <1> HIDE DEF n
  <1>8. n % DayHours = n - DayHours * d
    BY <1>1, <1>7, DivOfMultiple
  <1>9. (DayHours * d + h) % DayHours = h
    BY <1>8, <1>2, <1>3 DEF n
  <1> QED
    BY <1>1, <1>2, <1>3, <1>4, <1>5, <1>6, <1>9

\* NextSlot: the first of the scheduled hours of any day that is later than t.
LEMMA NextSlotIsTheFirst ==
    ASSUME NEW hours \in SUBSET Hours, hours # {}, NEW t \in Nat
    PROVE  \E k \in Nat :
             /\ NextSlot(hours, t) = Hour * k
             /\ t < Hour * k
             /\ k % DayHours \in hours
             /\ \A j \in Nat : t < Hour * j /\ j % DayHours \in hours => Hour * k <= Hour * j
  <1> DEFINE D == t \div Day
             After == {s \in Upcoming(hours, t) : s > t}
  <1>1. D \in Nat /\ Day * D <= t /\ t < Day * D + Day /\ Day * D \in Nat /\ Day \in Nat
    BY Lengths, DivBounds, TimesNat
  <1>2. /\ Day * (D + 1) = Day * D + Day
        /\ Upcoming(hours, t) = {d + h * Hour : d \in {Day * D, Day * D + Day}, h \in hours}
    BY <1>1 DEF Upcoming
  <1>3. ASSUME NEW s \in Upcoming(hours, t)
        PROVE  \E k \in Nat : s = Hour * k /\ k % DayHours \in hours /\ s < Day * D + Day + Day
    <2>1. PICK e \in {D, D + 1}, h \in hours : s = Day * e + h * Hour
      BY <1>2
    <2>2. e \in Nat /\ h \in Hours /\ Day * e <= Day * D + Day /\ Day * e \in Nat
      BY <1>1, <1>2
    <2>3. h \in Hours /\ h * Hour < Day /\ h * Hour \in Nat
      BY <2>2, HourOfDay
    <2>4. /\ DayHours * e + h \in Nat /\ s = Hour * (DayHours * e + h)
          /\ (DayHours * e + h) % DayHours = h
      BY <2>1, <2>2, HourOfDay
    <2>5. s < Day * D + Day + Day
      BY <2>1, <2>2, <2>3, <1>1
    <2> QED
      BY <2>4, <2>5
  <1>4. After # {} /\ After \subseteq Nat
    <2>1. PICK h \in hours : TRUE
      OBVIOUS
    <2>2. h * Hour \in Nat
      BY HourOfDay, <1>1
    <2>3. Day * D + Day + h * Hour \in After
      BY <1>1, <1>2, <2>2
    <2>4. After \subseteq Nat
      BY <1>3, TimesNat, Lengths
    <2> QED
      BY <2>3, <2>4
  <1>5. PICK s \in After : \A u \in After : s <= u
    BY <1>4, LeastExists
  <1>6. NextSlot(hours, t) \in After /\ \A u \in After : NextSlot(hours, t) <= u
    <2>1. s \in Upcoming(hours, t) /\ s > t /\ \A u \in Upcoming(hours, t) : u > t => s <= u
      BY <1>5
    <2>2. /\ NextSlot(hours, t) \in Upcoming(hours, t) /\ NextSlot(hours, t) > t
          /\ \A u \in Upcoming(hours, t) : u > t => NextSlot(hours, t) <= u
      BY <2>1 DEF NextSlot
    <2> QED
      BY <2>2
  <1>7. PICK k \in Nat : NextSlot(hours, t) = Hour * k /\ k % DayHours \in hours
                         /\ Hour * k < Day * D + Day + Day
    BY <1>3, <1>6
  <1>8. ASSUME NEW j \in Nat, t < Hour * j, j % DayHours \in hours
        PROVE  Hour * k <= Hour * j
    <2> DEFINE q == j \div DayHours
               h == j % DayHours
    <2>1. q \in Nat /\ h \in Hours /\ j = DayHours * q + h
      <3>1. DayHours \in Nat \ {0}
        BY Lengths
      <3>2. q \in Nat /\ h = j - DayHours * q /\ h \in Hours
        BY <3>1, DivBounds, ModIs DEF Hours
      <3>3. DayHours * q \in Nat
        BY <3>1, <3>2, TimesNat
      <3> QED
        BY <3>2, <3>3
    <2>2. /\ Hour * j = Day * q + h * Hour /\ h * Hour \in Nat /\ h * Hour < Day
          /\ Day * q \in Nat
      BY <2>1, HourOfDay
    <2>3. CASE q < D
      <3>1. Day * q + Day <= Day * D
        BY <2>3, <2>1, <1>1, NextMultiple
      <3> QED
        BY <3>1, <2>2, <1>1, <1>8
    <2>4. CASE q = D \/ q = D + 1
      <3>1. Hour * j \in After
        BY <2>4, <2>2, <1>1, <1>2, <1>8
      <3> QED
        BY <3>1, <1>6, <1>7
    <2>5. CASE D + 1 < q
      <3>1. Day * (D + 1) + Day <= Day * q
        BY <2>5, <2>1, <1>1, NextMultiple
      <3> QED
        BY <3>1, <1>1, <1>2, <1>7, <2>2, TimesNat, Lengths
    <2> QED
      BY <2>1, <2>3, <2>4, <2>5, <1>1
  <1>9. t < Hour * k
    BY <1>6, <1>7
  <1> QED
    BY <1>7, <1>8, <1>9

-----------------------------------------------------------------------------
(* When the loop ticks.                                                      *)

\* When the last tick of a slot began, or Never.
LastSlot == IF tick.by = "slot" THEN tick.at ELSE prior

\* The loop went to sleep at t, from a pass that read the control c: it is c still
\* unless somebody edited it since.
Slept(t, c) ==
    /\ loop = Nap(c, t)
    /\ now <= loop.wake + Late
    /\ changed < t => c = control
    /\ LastSlot + 2 <= t

Past == changed <= now /\ tick.at <= now /\ prior <= now

\* Where the loop may be, and that a tick of a slot is over by a second.
LoopInv ==
    /\ Past
    /\ loop.pc = "boot" => LastSlot + 2 <= loop.wake
    /\ loop.pc = "poll" => LastSlot + 2 <= now
    /\ loop.pc = "sleep" => \E t \in 0 .. now, c \in Control : Slept(t, c)
    /\ loop.pc = "tick" => tick.by # "none" /\ prior <= tick.at

LEMMA Sizes ==
    /\ ChunkSec \in Nat \ {0} /\ IdleSec \in Nat \ {0} /\ BootSec \in Nat \ {0}
    /\ IdleSec <= ChunkSec /\ Late \in Nat /\ MinTick \in Nat /\ MaxTick \in Nat
    /\ MaxTime \in Nat /\ MaxEdits \in Nat /\ MaxRestarts \in Nat /\ 2 <= MinTick
  BY RefreshAssumption

\* What a pass of the loop goes to sleep for: no longer than a chunk; up to the slot,
\* less half a second at most, or else to a second before it at the latest.
LEMMA NapEnds ==
    ASSUME NEW c \in Control, NEW t \in Nat
    PROVE  /\ Nap(c, t) \in Loop /\ Nap(c, t).pc = "sleep"
           /\ t <= Nap(c, t).wake /\ Nap(c, t).wake <= t + 2 * ChunkSec
           /\ Nap(c, t).due => c.enabled /\ c.hours # {}
           /\ c.enabled /\ c.hours # {} =>
                \E k \in Nat :
                  /\ Hour * k \in Nat /\ t < Hour * k /\ k % DayHours \in c.hours
                  /\ \A j \in Nat : t < Hour * j /\ j % DayHours \in c.hours => Hour * k <= Hour * j
                  /\ IF Nap(c, t).due
                     THEN Hour * k - 1 <= Nap(c, t).wake /\ Nap(c, t).wake <= Hour * k
                     ELSE Nap(c, t).wake + 2 <= Hour * k
  <1>1. c.enabled \in BOOLEAN /\ c.hours \in SUBSET Hours
    BY DEF Control
  <1>2. CASE ~c.enabled \/ c.hours = {}
    <2>1. Nap(c, t) = Sleeping(t + 2 * IdleSec, FALSE)
      BY <1>2 DEF Nap
    <2> QED
      BY <1>2, <2>1, Sizes DEF Sleeping, Loop
  <1>3. CASE c.enabled /\ c.hours # {}
    <2>1. PICK k \in Nat :
             /\ NextSlot(c.hours, t) = Hour * k
             /\ t < Hour * k
             /\ k % DayHours \in c.hours
             /\ \A j \in Nat : t < Hour * j /\ j % DayHours \in c.hours => Hour * k <= Hour * j
      BY <1>1, <1>3, NextSlotIsTheFirst
    <2> DEFINE sleep == (Hour * k - t) \div 2
               chunk == IF sleep < ChunkSec THEN sleep ELSE ChunkSec
    <2>2. Nap(c, t) = Sleeping(t + 2 * chunk, chunk = sleep)
      BY <1>3, <2>1 DEF Nap, SecondsUntil
    <2>3. Hour * k \in Nat
      BY Lengths, TimesNat
    <2>4. sleep \in Nat /\ 2 * sleep <= Hour * k - t /\ Hour * k - t <= 2 * sleep + 1
      BY <2>1, <2>3
    <2>5. chunk \in Nat /\ chunk <= ChunkSec /\ chunk <= sleep /\ (chunk # sleep => chunk + 1 <= sleep)
      BY <2>4, Sizes
    <2> HIDE DEF sleep, chunk
    <2>6. Sleeping(t + 2 * chunk, chunk = sleep) \in Loop
      BY <2>5 DEF Sleeping, Loop
    <2>7. Nap(c, t).pc = "sleep" /\ Nap(c, t).wake = t + 2 * chunk
      BY <2>2 DEF Sleeping
    <2>10. Nap(c, t).due <=> chunk = sleep
      <3>1. Nap(c, t).due = (chunk = sleep)
        BY <2>2 DEF Sleeping
      <3> QED
        BY <3>1, Zenon
    <2>8. CASE chunk = sleep
      BY <2>1, <2>2, <2>3, <2>4, <2>5, <2>6, <2>7, <2>10, <2>8, <1>3, Sizes
    <2>9. CASE chunk # sleep
      <3>1. Nap(c, t).wake + 2 <= Hour * k
        BY <2>3, <2>4, <2>5, <2>7, <2>10, <2>9
      <3> QED
        BY <2>1, <2>2, <2>3, <2>4, <2>5, <2>6, <2>7, <2>10, <2>9, <1>3, <3>1, Sizes
    <2> QED
      BY <2>8, <2>9
  <1> QED
    BY <1>1, <1>2, <1>3

Typed ==
    /\ now \in Nat
    /\ control \in Control
    /\ loop \in Loop
    /\ tick \in [by : {"none", "boot", "slot"}, at : Nat \cup {Never}]
    /\ changed \in Nat \cup {Never} /\ prior \in Nat \cup {Never} /\ ended \in Nat \cup {Never}

LEMMA TypedInit == Init => Typed /\ LoopInv
  BY Sizes, Lengths DEF Init, Typed, LoopInv, Past, LastSlot, Never, Booting, Loop

LEMMA TypedStep == Typed /\ [Next]_vars => Typed'
  <1> SUFFICES ASSUME Typed, [Next]_vars PROVE Typed'
    OBVIOUS
  <1> USE DEF Typed, Never
  <1>1. Ticking \in Loop /\ Polling \in Loop
    BY DEF Ticking, Polling, Loop
  <1>2. Booting(now) \in Loop
    BY Sizes DEF Booting, Loop
  <1>3. ASSUME NEW by \in {"boot", "slot"}, Begin(by)
        PROVE  /\ loop' \in Loop /\ prior' \in Nat \cup {Never}
               /\ tick' \in [by : {"none", "boot", "slot"}, at : Nat \cup {Never}]
    BY <1>1, <1>3 DEF Begin
  <1>4. ASSUME NEW force \in BOOLEAN, Boot(force) PROVE Typed'
    BY <1>1, <1>3, <1>4 DEF Boot
  <1>5. CASE Poll
    BY <1>5, NapEnds DEF Poll
  <1>6. CASE Wake
    BY <1>1, <1>3, <1>6 DEF Wake
  <1>7. CASE EndTick
    BY <1>1, <1>7 DEF EndTick
  <1>8. ASSUME NEW c \in Control, Edit(c) PROVE Typed'
    BY <1>8 DEF Edit
  <1>9. CASE Restart
    BY <1>2, <1>9 DEF Restart
  <1>10. CASE Pass
    BY <1>10 DEF Pass
  <1>11. CASE UNCHANGED vars
    BY <1>11 DEF vars
  <1> QED
    BY <1>4, <1>5, <1>6, <1>7, <1>8, <1>9, <1>10, <1>11 DEF Next, Horizon

\* A sleep goes on whatever passes meanwhile.
LEMMA SleepGoesOn ==
    ASSUME Typed, NEW t \in 0 .. now, NEW c \in Control, Slept(t, c), loop.pc = "sleep",
           Pass \/ (\E e \in Control : Edit(e)) \/ UNCHANGED vars
    PROVE  Slept(t, c)' /\ t \in 0 .. now' /\ loop' = loop
  <1> USE DEF LastSlot
  <1>1. CASE Pass
    BY <1>1, Sizes DEF Pass, Slept, Typed, Loop
  <1>2. ASSUME NEW e \in Control, Edit(e) PROVE Slept(t, c)' /\ t \in 0 .. now' /\ loop' = loop
    BY <1>2 DEF Edit, Slept, Typed
  <1>3. CASE UNCHANGED vars
    BY <1>3 DEF Slept, vars
  <1> QED
    BY <1>1, <1>2, <1>3

\* A pass that goes to sleep read the control of that instant.
LEMMA SleepBegins ==
    ASSUME Typed, LoopInv, Poll, NEW t, NEW c, t = now, c = control
    PROVE  Slept(t, c)' /\ t \in 0 .. now' /\ c \in Control /\ loop'.pc = "sleep"
  <1>1. UNCHANGED <<now, control, changed, tick, prior>>
    BY DEF Poll
  <1>2. loop' = Nap(c, t) /\ loop'.pc = "sleep" /\ loop'.wake \in Nat /\ now <= loop'.wake
    BY NapEnds DEF Poll, Typed, Loop
  <1> QED
    BY <1>1, <1>2, Sizes DEF Poll, Typed, LoopInv, Slept, LastSlot

\* A tick begins from a boot whose delay is over or from a sleep whose end has come.
LEMMA LoopStep == Typed /\ LoopInv /\ [Next]_vars => LoopInv'
  <1> SUFFICES ASSUME Typed, LoopInv, [Next]_vars PROVE LoopInv'
    OBVIOUS
  <1>0. Typed'
    BY TypedStep
  <1> USE DEF LastSlot
  <1>4. ASSUME NEW force \in BOOLEAN, Boot(force) PROVE LoopInv'
    <2>1. CASE Begin("boot")
      BY <1>4, <2>1 DEF Boot, Begin, LoopInv, Past, Typed, Never, Ticking
    <2>2. CASE loop' = Polling /\ UNCHANGED <<tick, prior>>
      BY <1>4, <2>2 DEF Boot, LoopInv, Past, Typed, Never, Polling, Loop
    <2> QED
      BY <1>4, <2>1, <2>2 DEF Boot
  <1>5. CASE Poll
    <2>1. loop'.pc = "sleep" /\ \E t \in 0 .. now', c \in Control : Slept(t, c)'
      BY <1>5, SleepBegins
    <2> QED
      BY <1>5, <2>1 DEF Poll, LoopInv, Past
  <1>6. CASE Wake
    <2>1. PICK t \in 0 .. now, c \in Control : Slept(t, c)
      BY <1>6 DEF Wake, LoopInv
    <2> QED
      BY <1>6, <2>1 DEF Wake, Begin, LoopInv, Past, Slept, Typed, Never, Ticking, Polling
  <1>7. CASE EndTick
    BY <1>7, Sizes DEF EndTick, LoopInv, Past, Typed, Never, Polling
  <1>8. ASSUME NEW e \in Control, Edit(e) PROVE LoopInv'
    <2>1. CASE loop.pc = "sleep"
      <3>1. PICK t \in 0 .. now, c \in Control : Slept(t, c)
        BY <2>1 DEF LoopInv
      <3>2. Slept(t, c)' /\ t \in 0 .. now'
        BY <1>8, <2>1, <3>1, SleepGoesOn
      <3> QED
        BY <1>8, <2>1, <3>2 DEF Edit, LoopInv, Past, Typed, Never
    <2>2. CASE loop.pc # "sleep"
      BY <1>8, <2>2 DEF Edit, LoopInv, Past, Typed, Never
    <2> QED
      BY <2>1, <2>2
  <1>9. CASE Restart
    BY <1>9, Sizes DEF Restart, LoopInv, Past, Typed, Never, Booting
  <1>10. CASE Pass
    <2>1. CASE loop.pc = "sleep"
      <3>1. PICK t \in 0 .. now, c \in Control : Slept(t, c)
        BY <2>1 DEF LoopInv
      <3>2. Slept(t, c)' /\ t \in 0 .. now'
        BY <1>10, <2>1, <3>1, SleepGoesOn
      <3> QED
        BY <1>10, <2>1, <3>2 DEF Pass, LoopInv, Past, Typed, Never
    <2>2. CASE loop.pc # "sleep"
      BY <1>10, <2>2 DEF Pass, LoopInv, Past, Typed, Never
    <2> QED
      BY <2>1, <2>2
  <1>11. CASE UNCHANGED vars
    <2>1. ASSUME NEW t \in Nat, NEW c \in Control PROVE Slept(t, c)' = Slept(t, c)
      BY <1>11 DEF Slept, vars
    <2> QED
      BY <1>11, <2>1 DEF LoopInv, Past, vars
  <1> QED
    BY <1>4, <1>5, <1>6, <1>7, <1>8, <1>9, <1>10, <1>11 DEF Next, Horizon

-----------------------------------------------------------------------------
(* A tick of a slot begins in its hour, once, and only if it was scheduled.  *)
LEMMA SlotOfWake ==
    ASSUME Typed, LoopInv, Wake, loop.due
    PROVE  \E t \in 0 .. now, c \in Control, k \in Nat :
             /\ now <= t + 2 * ChunkSec + Late
             /\ changed < t => c = control
             /\ LastSlot + 2 <= t /\ t < Hour * k
             /\ Hour * k - 1 <= now /\ now <= Hour * k + Late
             /\ c.enabled /\ k % DayHours \in c.hours /\ Hour * k \in Nat
  <1>1. PICK t \in 0 .. now, c \in Control : Slept(t, c)
    BY DEF Wake, LoopInv
  <1>2. t \in Nat /\ loop = Nap(c, t)
    BY <1>1 DEF Typed, Slept
  <1>3. PICK k \in Nat :
          /\ Hour * k \in Nat /\ t < Hour * k /\ k % DayHours \in c.hours /\ c.enabled
          /\ Hour * k - 1 <= loop.wake /\ loop.wake <= Hour * k
    BY <1>2, NapEnds
  <1>4. loop.wake \in Nat /\ loop.wake <= t + 2 * ChunkSec
    BY <1>2, NapEnds DEF Loop
  <1>5. loop.wake <= now /\ now <= loop.wake + Late
    BY <1>1 DEF Wake, Slept
  <1>6. /\ now <= t + 2 * ChunkSec + Late
        /\ Hour * k - 1 <= now /\ now <= Hour * k + Late
    BY <1>3, <1>4, <1>5, Sizes DEF Typed
  <1> QED
    BY <1>1, <1>3, <1>6 DEF Slept

LEMMA HourAfter ==
    ASSUME NEW k \in Nat, NEW t \in Nat, Hour * k \in Nat, Hour * k - 1 <= t, t <= Hour * k + Late
    PROVE  /\ k <= HourOf(t) /\ (t + 1) % Hour <= Late + 1
           /\ Late + 1 < Hour => HourOf(t) = k
  <1>1. t + 1 \in Nat /\ Hour * k <= t + 1 /\ Hour \in Nat \ {0} /\ Late \in Nat
    BY Lengths, Sizes
  <1>2. k <= (t + 1) \div Hour /\ (t + 1) % Hour <= t + 1 - Hour * k
    <2>1. \A n \in Nat : Hour * k <= n => k <= n \div Hour /\ n % Hour <= n - Hour * k
      BY <1>1, BeyondMultiple
    <2> QED
      BY <1>1, <2>1
  <1>3. (t + 1) % Hour <= Late + 1
    BY <1>1, <1>2, ModIs
  <1>4. ASSUME Late + 1 < Hour PROVE (t + 1) \div Hour = k
    <2>1. t + 1 < Hour * k + Hour
      BY <1>1, <1>4
    <2> QED
      BY <1>1, <2>1, DivOfMultiple
  <1> QED
    BY <1>2, <1>3, <1>4 DEF HourOf

LEMMA OnceStep == Typed /\ LoopInv /\ OncePerSlot /\ [Next]_vars => OncePerSlot'
  <1> SUFFICES ASSUME Typed, LoopInv, OncePerSlot, [Next]_vars PROVE OncePerSlot'
    OBVIOUS
  <1>1. CASE UNCHANGED <<tick, prior>>
    BY <1>1 DEF OncePerSlot, HourOf
  <1>2. ASSUME NEW force \in BOOLEAN, Boot(force) PROVE OncePerSlot'
    BY <1>1, <1>2 DEF Boot, Begin, OncePerSlot
  <1>3. CASE Wake /\ ~loop.due
    BY <1>1, <1>3 DEF Wake
  <1>4. CASE Wake /\ loop.due
    <2>1. tick' = [by |-> "slot", at |-> now] /\ prior' = LastSlot
      BY <1>4 DEF Wake, Begin, LastSlot
    <2>2. PICK t \in 0 .. now, c \in Control, k \in Nat :
             /\ LastSlot + 2 <= t /\ t < Hour * k
             /\ Hour * k - 1 <= now /\ now <= Hour * k + Late /\ Hour * k \in Nat
      BY <1>4, SlotOfWake
    <2>3. k <= HourOf(now) /\ (now + 1) % Hour <= Late + 1
      BY <2>2, HourAfter DEF Typed
    <2>4. ASSUME LastSlot # Never PROVE HourOf(LastSlot) < HourOf(now)
      <3>1. LastSlot \in Nat /\ LastSlot + 1 \in Nat /\ LastSlot + 1 < Hour * k /\ now + 1 \in Nat
        BY <2>2, <2>4 DEF LastSlot, Typed, Never
      <3>2. (LastSlot + 1) \div Hour < k
        BY <3>1, Lengths, ShortOfMultiple
      <3>3. (LastSlot + 1) \div Hour \in Nat /\ (now + 1) \div Hour \in Nat
        BY <3>1, Lengths, DivBounds
      <3> QED
        BY <2>3, <3>2, <3>3 DEF HourOf
    <2>5. OncePerSlot' = (tick'.by = "slot" =>
                            /\ prior' # Never => HourOf(prior') < HourOf(tick'.at)
                            /\ (tick'.at + 1) % Hour <= Late + 1)
      BY DEF OncePerSlot, HourOf
    <2> QED
      BY <2>1, <2>3, <2>4, <2>5
  <1> QED
    BY <1>1, <1>2, <1>3, <1>4 DEF Next, Poll, EndTick, Edit, Restart, Pass, Horizon, vars

\* desk_refresh_loop.py:32-33, "exactly once per day": no hour begins two ticks, and a
\* tick of a slot begins within the time a sleep overruns, for any hours, edits and
\* restarts, although the seconds of a sleep are truncated.
THEOREM OncePerSlotAlways == Spec => []OncePerSlot
  <1>1. Init => Typed /\ LoopInv /\ OncePerSlot
    BY TypedInit DEF Init, OncePerSlot
  <1>2. Typed /\ LoopInv /\ OncePerSlot /\ [Next]_vars => (Typed /\ LoopInv /\ OncePerSlot)'
    BY TypedStep, LoopStep, OnceStep
  <1> QED
    BY <1>1, <1>2, PTL DEF Spec

LEMMA PauseStep ==
    ASSUME Late + 1 < Hour
    PROVE  Typed /\ LoopInv /\ PauseIsHeard /\ [Next]_vars => PauseIsHeard'
  <1> SUFFICES ASSUME Typed, LoopInv, PauseIsHeard, [Next]_vars PROVE PauseIsHeard'
    OBVIOUS
  <1> USE DEF PauseIsHeard
  <1>1. CASE UNCHANGED <<loop, tick, control, changed>>
    BY <1>1 DEF Schedules, HourOf
  <1>2. ASSUME NEW force \in BOOLEAN, Boot(force) PROVE PauseIsHeard'
    BY <1>2 DEF Boot, Begin, Polling
  <1>3. CASE Poll
    BY <1>3, NapEnds DEF Poll, Typed
  <1>4. CASE Wake /\ ~loop.due
    BY <1>4 DEF Wake, Polling
  <1>5. CASE Wake /\ loop.due
    <2>1. PICK t \in 0 .. now, c \in Control, k \in Nat :
             /\ now <= t + 2 * ChunkSec + Late
             /\ changed < t => c = control
             /\ Hour * k - 1 <= now /\ now <= Hour * k + Late /\ Hour * k \in Nat
             /\ c.enabled /\ k % DayHours \in c.hours
      BY <1>5, SlotOfWake
    <2>2. HourOf(now) = k
      BY <2>1, HourAfter DEF Typed
    <2>3. tick'.at = now /\ UNCHANGED <<control, changed>>
      BY <1>5 DEF Wake, Begin
    <2>4. HourOf(tick.at)' = k
      BY <2>2, <2>3 DEF HourOf
    <2>5. Schedules(control, HourOf(tick.at))' \/ changed >= t
      BY <2>1, <2>3, <2>4 DEF Schedules, Typed, Never
    <2>6. changed >= t => changed >= now - 2 * ChunkSec - Late
      BY <2>1, Sizes DEF Typed, Never
    <2> QED
      BY <2>3, <2>5, <2>6
  <1>6. CASE EndTick
    BY <1>6 DEF EndTick, Polling
  <1>7. ASSUME NEW e \in Control, Edit(e) PROVE PauseIsHeard'
    BY <1>7, Sizes DEF Edit, LoopInv, Past, Typed, Never
  <1>8. CASE Restart
    BY <1>8 DEF Restart, Booting
  <1> QED
    BY <1>1, <1>2, <1>3, <1>4, <1>5, <1>6, <1>7, <1>8 DEF Next, Pass, Horizon, vars

\* How late an edit may be and go unheard: control.json is read again after each chunk of
\* sleep, so a tick that runs in an hour not scheduled any more is due to an edit at most
\* two chunks and an overrun before it began, or to one made since. Such a tick does
\* begin, and runs to its end; an edit made earlier in the nap is heard. Where a sleep
\* overruns by less than an hour.
THEOREM PauseIsHeardAlways ==
    ASSUME Late + 1 < Hour
    PROVE  Spec => []PauseIsHeard
  <1>1. Init => Typed /\ LoopInv /\ PauseIsHeard
    BY TypedInit DEF Init, PauseIsHeard, Booting
  <1>2. Typed /\ LoopInv /\ PauseIsHeard /\ [Next]_vars => (Typed /\ LoopInv /\ PauseIsHeard)'
    BY TypedStep, LoopStep, PauseStep
  <1> QED
    BY <1>1, <1>2, PTL DEF Spec

-----------------------------------------------------------------------------
(* Every hour is served.                                                     *)

\* Every hour up to t that has been scheduled for longer than a chunk of sleep began a
\* tick, or a tick ended since.
ServedUpTo(t) ==
    \A k \in Nat :
        /\ Hour * k <= t
        /\ Schedules(control, k)
        /\ changed < Hour * k - 2 * ChunkSec - Late
        => tick.at >= Hour * k - 1 \/ ended >= Hour * k

ServedInv ==
    /\ loop.pc = "poll" => ServedUpTo(now)
    /\ loop.pc = "sleep" =>
         \E t \in 0 .. now, c \in Control : Slept(t, c) /\ ServedUpTo(t)

\* An hour that began during a sleep, had it been scheduled for long enough, would
\* have been the slot the loop is asleep to.
LEMMA AsleepToTheSlot ==
    ASSUME Typed, loop.pc = "sleep", NEW t \in 0 .. now, NEW c \in Control, Slept(t, c),
           NEW k \in Nat, t < Hour * k, Hour * k <= now, Schedules(control, k),
           changed < Hour * k - 2 * ChunkSec - Late
    PROVE  IF loop.due THEN loop.wake <= Hour * k ELSE loop.wake + 2 <= Hour * k
  <1>1. t \in Nat /\ loop = Nap(c, t) /\ loop.wake \in Nat /\ loop.wake <= t + 2 * ChunkSec
    BY NapEnds DEF Typed, Slept, Loop
  <1>2. Hour * k \in Nat
    BY Lengths, TimesNat
  <1>3. changed < t
    BY <1>1, <1>2, Sizes DEF Slept, Typed, Never
  <1>4. c.enabled /\ c.hours # {} /\ k % DayHours \in c.hours
    BY <1>3 DEF Slept, Schedules
  <1>5. PICK j \in Nat :
          /\ Hour * j \in Nat /\ Hour * j <= Hour * k
          /\ IF loop.due THEN loop.wake <= Hour * j ELSE loop.wake + 2 <= Hour * j
    BY <1>1, <1>4, NapEnds
  <1> QED
    BY <1>1, <1>2, <1>5

LEMMA ServedStep ==
    ASSUME Late <= 1
    PROVE  Typed /\ LoopInv /\ ServedInv /\ [Next]_vars => ServedInv'
  <1> SUFFICES ASSUME Typed, LoopInv, ServedInv, [Next]_vars PROVE ServedInv'
    OBVIOUS
  <1>1. ASSUME NEW force \in BOOLEAN, Boot(force) PROVE ServedInv'
    <2>1. CASE loop'.pc = "tick"
      BY <2>1 DEF ServedInv
    <2>2. CASE loop' = Polling /\ ~(control.enabled /\ control.hours # {})
      BY <1>1, <2>2 DEF Boot, ServedInv, ServedUpTo, Schedules, Polling
    <2> QED
      BY <1>1, <2>1, <2>2 DEF Boot, Begin, Ticking
  <1>2. CASE Poll
    <2>1. ASSUME NEW t, NEW c, t = now, c = control
          PROVE  Slept(t, c)' /\ t \in 0 .. now' /\ c \in Control /\ loop'.pc = "sleep" /\ ServedUpTo(t)'
      BY <1>2, <2>1, SleepBegins DEF Poll, ServedInv, ServedUpTo, Schedules
    <2> QED
      BY <2>1 DEF ServedInv
  <1>3. CASE Wake
    <2>1. CASE loop.due
      BY <1>3, <2>1 DEF Wake, Begin, Ticking, ServedInv
    <2>2. CASE ~loop.due
      <3>1. loop' = Polling /\ UNCHANGED <<now, control, changed, tick, ended>>
        BY <1>3, <2>2 DEF Wake
      <3>2. PICK t \in 0 .. now, c \in Control : Slept(t, c) /\ ServedUpTo(t)
        BY <1>3 DEF Wake, ServedInv
      <3>3. ASSUME NEW k \in Nat, Hour * k <= now, Schedules(control, k),
                   changed < Hour * k - 2 * ChunkSec - Late
            PROVE  tick.at >= Hour * k - 1 \/ ended >= Hour * k
        <4>1. CASE Hour * k <= t
          BY <3>2, <3>3, <4>1 DEF ServedUpTo
        <4>2. CASE t < Hour * k
          <5>1. loop.wake + 2 <= Hour * k
            BY <1>3, <2>2, <3>2, <3>3, <4>2, AsleepToTheSlot DEF Wake
          <5>2. now <= loop.wake + Late /\ loop.wake \in Nat
            BY <3>2 DEF Slept, Typed, Loop
          <5> QED
            BY <3>3, <5>1, <5>2, Sizes, TimesNat, Lengths DEF Typed
        <4> QED
          BY <4>1, <4>2, TimesNat, Lengths DEF Typed
      <3>4. ServedUpTo(now)'
        BY <3>1, <3>3 DEF ServedUpTo, Schedules
      <3> QED
        BY <3>1, <3>4 DEF ServedInv, Polling
    <2> QED
      BY <2>1, <2>2
  <1>4. CASE EndTick
    <2>1. loop' = Polling /\ ended' = now'
      BY <1>4 DEF EndTick
    <2>2. ServedUpTo(now)'
      BY <2>1 DEF ServedUpTo
    <2> QED
      BY <2>1, <2>2 DEF ServedInv, Polling
  <1>5. ASSUME NEW e \in Control, Edit(e) PROVE ServedInv'
    <2>1. changed' = now /\ loop' = loop /\ now' = now
      BY <1>5 DEF Edit
    <2>2. ASSUME NEW t \in 0 .. now PROVE ServedUpTo(t)'
      <3>1. ASSUME NEW k \in Nat, Hour * k <= t PROVE ~(changed' < Hour * k - 2 * ChunkSec - Late)
        BY <2>1, <3>1, Sizes, TimesNat, Lengths DEF Typed
      <3> QED
        BY <3>1 DEF ServedUpTo
    <2>3. CASE loop.pc = "sleep"
      <3>1. PICK t \in 0 .. now, c \in Control : Slept(t, c)
        BY <2>3 DEF ServedInv
      <3>2. Slept(t, c)' /\ t \in 0 .. now'
        BY <1>5, <2>3, <3>1, SleepGoesOn
      <3> QED
        BY <2>1, <2>2, <2>3, <3>2 DEF ServedInv
    <2>4. CASE loop.pc = "poll"
      <3>1. ServedUpTo(now)'
        BY <2>1, <2>2, Sizes, TimesNat, Lengths DEF ServedUpTo, Typed
      <3> QED
        BY <2>1, <2>4, <3>1 DEF ServedInv
    <2> QED
      BY <2>1, <2>3, <2>4 DEF ServedInv
  <1>6. CASE Restart
    BY <1>6 DEF Restart, Booting, ServedInv
  <1>7. CASE Pass \/ UNCHANGED vars
    <2>1. UNCHANGED <<control, loop, changed, tick, ended>>
      BY <1>7 DEF Pass, vars
    <2>2. ASSUME NEW t \in Nat, ServedUpTo(t) PROVE ServedUpTo(t)'
      BY <2>1, <2>2 DEF ServedUpTo, Schedules
    <2>3. CASE loop.pc = "sleep"
      <3>1. PICK t \in 0 .. now, c \in Control : Slept(t, c) /\ ServedUpTo(t)
        BY <2>3 DEF ServedInv
      <3>2. Slept(t, c)' /\ t \in 0 .. now' /\ ServedUpTo(t)'
        BY <1>7, <2>2, <2>3, <3>1, SleepGoesOn
      <3> QED
        BY <2>1, <2>3, <3>2 DEF ServedInv
    <2>4. CASE loop.pc = "poll"
      <3>1. now' = now
        BY <1>7, <2>4 DEF Pass, vars
      <3>2. ServedUpTo(now)'
        BY <2>1, <2>4, <3>1 DEF ServedInv, ServedUpTo, Schedules
      <3> QED
        BY <2>1, <2>4, <3>2 DEF ServedInv
    <2> QED
      BY <2>1, <2>3, <2>4 DEF ServedInv
  <1> QED
    BY <1>1, <1>2, <1>3, <1>4, <1>5, <1>6, <1>7 DEF Next, Horizon

LEMMA ServedIsServed == Typed /\ ServedInv => SlotIsServed
  <1> DEFINE k == now \div Hour
             s == Hour * k
  <1> SUFFICES ASSUME Typed, ServedInv,
                      Schedules(control, k), changed < s - 2 * ChunkSec - Late, now > s + Late,
                      loop.pc \notin {"boot", "tick"}
               PROVE  tick.at >= s - 1 \/ ended >= s
    BY DEF SlotIsServed
  <1>1. k \in Nat /\ s <= now /\ s \in Nat
    BY Lengths, DivBounds, TimesNat DEF Typed
  <1>2. CASE loop.pc = "poll"
    BY <1>1, <1>2 DEF ServedInv, ServedUpTo
  <1>3. CASE loop.pc = "sleep"
    <2>1. PICK t \in 0 .. now, c \in Control : Slept(t, c) /\ ServedUpTo(t)
      BY <1>3 DEF ServedInv
    <2>2. CASE s <= t
      BY <1>1, <2>1, <2>2 DEF ServedUpTo
    <2>3. CASE t < s
      <3>1. loop.wake <= s
        <4>1. loop.wake \in Nat
          BY DEF Typed, Loop
        <4>2. IF loop.due THEN loop.wake <= s ELSE loop.wake + 2 <= s
          BY <1>1, <1>3, <2>1, <2>3, AsleepToTheSlot
        <4> QED
          BY <1>1, <4>1, <4>2
      <3> QED
        BY <1>1, <2>1, <3>1, Sizes DEF Slept, Typed, Loop
    <2> QED
      BY <1>1, <2>2, <2>3 DEF Typed
  <1> QED
    BY <1>2, <1>3 DEF Typed, Loop

\* desk_refresh_loop.py:32-33, "exactly once per day", at least: whatever the restarts,
\* an hour scheduled for longer than a chunk of sleep began a tick, or a tick was running
\* then. A sleep must overrun by less than a second: the pass that follows a sleep of
\* whole seconds, up to a second before the slot, looks for a slot strictly later.
THEOREM SlotIsServedAlways ==
    ASSUME Late <= 1
    PROVE  Spec => []SlotIsServed
  <1> DEFINE I == Typed /\ LoopInv /\ ServedInv
  <1>1. Init => I
    BY TypedInit DEF Init, ServedInv, Booting
  <1>2. I /\ [Next]_vars => I'
    BY TypedStep, LoopStep, ServedStep
  <1>3. I => SlotIsServed
    BY ServedIsServed
  <1> HIDE DEF I
  <1> QED
    BY <1>1, <1>2, <1>3, PTL DEF Spec

-----------------------------------------------------------------------------
(* What the ticks leave in the log.                                          *)
Files == UNION {[D -> Nat] : D \in SUBSET Log!Ids}

Ticker == [pc : Log!Stages, id : Log!Ids, seen : Files, pruned : BOOLEAN,
           listed : BOOLEAN, disturbed : BOOLEAN]

LogTyped ==
    /\ sec \in Log!Ids /\ finished \in Nat
    /\ reports \in Files /\ index \in Files /\ tmp \in Files \cup {Log!NoFile}
    /\ costs \in [Log!Ids -> Nat]
    /\ \E S : totals \in Seq(S)
    /\ ticker \in [Tickers -> Ticker]
    /\ sound \in BOOLEAN

Busy(t) == ticker[t].pc # "idle"
Persists(t) == ticker[t].pc \in Log!Persisting

\* A report of the run i is the last one that finished.
IsNewest(f, i) == i \in DOMAIN f /\ \A j \in DOMAIN f \ {i} : f[j] < f[i]

\* Reports and ticks are no younger than the second they are named for, and a report of
\* this very second is of a tick that still goes on.
IdsInv ==
    /\ \A i \in DOMAIN reports : reports[i] <= finished /\ i <= sec
    /\ sec \in DOMAIN reports => \E t \in Tickers : Busy(t) /\ ticker[t].id = sec
    /\ \A t \in Tickers : Busy(t) => ticker[t].id <= sec

StagesInv ==
    \A t \in Tickers :
        /\ ticker[t].pc \in {"run", "idle"} => ~ticker[t].pruned /\ ~ticker[t].listed
        /\ ticker[t].pc = "prune" => ~ticker[t].pruned

\* What a tick that no other disturbed can rely on: its id is its own, its report the
\* last, and nobody else writes the files of the manifest until it is done with them.
RelyOn(t) ==
    /\ \A u \in Tickers \ {t} : Busy(u) => ticker[u].id # ticker[t].id
    /\ ticker[t].pc = "run" => \A j \in DOMAIN reports : j < ticker[t].id
    /\ Persists(t) \/ ticker[t].listed => \A u \in Tickers \ {t} : ~Persists(u)
    /\ Persists(t) => /\ IsNewest(reports, ticker[t].id)
                      /\ \A j \in DOMAIN reports : j <= ticker[t].id
                      /\ ticker[t].pruned => Cardinality(DOMAIN reports) <= Retention
    /\ ticker[t].pc = "write" => ticker[t].seen = reports
    /\ ticker[t].pc = "rename" => tmp = reports
    /\ ticker[t].pc = "prune" => index = reports
    /\ ticker[t].listed => IsNewest(index, ticker[t].id)

UndisturbedInv == \A t \in Tickers : Busy(t) /\ ~ticker[t].disturbed => RelyOn(t)

\* A clean row names its own run, and nobody pays under its id any more.
RowsInv ==
    \A n \in DOMAIN totals : totals[n].clean =>
        /\ totals[n].run = totals[n].id
        /\ totals[n].calls = costs[totals[n].id]
        /\ totals[n].id \in Nat /\ totals[n].id < sec
        /\ \A t \in Tickers : Busy(t) => ticker[t].id # totals[n].id

LogInv == IdsInv /\ StagesInv /\ UndisturbedInv /\ RowsInv /\ ManifestHeals

LEMMA LogSizes == Retention \in Nat \ {0} /\ MaxSec \in Nat /\ MaxTicks \in Nat /\ MaxCalls \in Nat
  BY LogAssumption DEF Log!TickLogAssumption

LEMMA FileIs ==
    ASSUME NEW f \in Files
    PROVE  /\ DOMAIN f \in SUBSET Log!Ids /\ f \in [DOMAIN f -> Nat]
           /\ DOMAIN f \subseteq Nat /\ IsFiniteSet(DOMAIN f) /\ f # Log!NoFile
  <1>1. DOMAIN f \in SUBSET Log!Ids /\ f \in [DOMAIN f -> Nat]
    BY DEF Files
  <1>2. Log!Ids \subseteq Nat /\ IsFiniteSet(Log!Ids) /\ Log!NoRun \notin Log!Ids
    BY LogSizes, FS_Interval DEF Log!Ids, Log!NoRun
  <1>3. IsFiniteSet(DOMAIN f)
    BY <1>1, <1>2, FS_Subset
  <1>4. f # Log!NoFile
    BY <1>1, <1>2 DEF Log!NoFile
  <1> QED
    BY <1>1, <1>2, <1>3, <1>4

\* A set of naturals no member of which has n greater ones has n members at most.
LEMMA FewGreater ==
    ASSUME NEW S, S \subseteq Nat, IsFiniteSet(S), NEW n \in Nat \ {0},
           NEW T, T \subseteq S, \A i \in T : Cardinality({j \in S : j > i}) < n
    PROVE  Cardinality(T) <= n
  <1>1. IsFiniteSet(T)
    BY FS_Subset
  <1>2. CASE T = {}
    BY <1>2, FS_EmptySet
  <1>3. CASE T # {}
    <2>1. PICK x \in T : \A y \in T : x <= y
      BY <1>3, LeastExists
    <2> DEFINE G == {j \in S : j > x}
    <2>2. T \ {x} \subseteq G
      BY <2>1
    <2>3. G \subseteq S /\ Cardinality(G) < n
      BY <2>1
    <2> HIDE DEF G
    <2>4. IsFiniteSet(G) /\ Cardinality(T \ {x}) <= Cardinality(G)
      BY <2>2, <2>3, FS_Subset
    <2>5. /\ Cardinality(T \ {x}) = Cardinality(T) - 1
          /\ Cardinality(T) \in Nat /\ Cardinality(G) \in Nat
      BY <1>1, <2>1, <2>4, FS_RemoveElement, FS_CardinalityType
    <2> QED
      BY <2>3, <2>4, <2>5
  <1> QED
    BY <1>2, <1>3

LEMMA GreatestExists ==
    ASSUME NEW n \in Nat, NEW S, S \subseteq 1 .. n, S # {}
    PROVE  \E x \in S : \A y \in S : y <= x
  <1> DEFINE T == {n - x : x \in S}
  <1>1. \A x \in S : n - x \in Nat /\ n - x \in T
    OBVIOUS
  <1>5. T \subseteq Nat /\ T # {}
    BY <1>1
  <1>2. PICK m \in T : \A k \in T : m <= k
    BY <1>5, LeastExists
  <1>3. PICK x \in S : m = n - x
    BY <1>2
  <1>4. \A y \in S : n - x <= n - y
    BY <1>2, <1>3
  <1> QED
    BY <1>4

Later(i) == {j \in DOMAIN reports : j > i}

\* The instance has a Cardinality of its own, the same.
LEMMA LogCardinality ==
    ASSUME NEW S
    PROVE  Log!Cardinality(S) = Cardinality(S)
  BY DEF Log!Cardinality, Cardinality

LEMMA NewestMeans ==
    ASSUME NEW n, NEW i
    PROVE  i \in Log!Newest(n) <=> i \in DOMAIN reports /\ Cardinality(Later(i)) < n
  BY LogCardinality, Zenon DEF Log!Newest, Later

\* _prune keeps Retention reports at most, the last of them by name among these.
LEMMA PruneKeeps ==
    ASSUME reports \in Files
    PROVE  LET kept == Log!Keep(reports, Log!Newest(Retention))
           IN  /\ kept \in Files /\ DOMAIN kept = Log!Newest(Retention)
               /\ DOMAIN kept \subseteq DOMAIN reports
               /\ \A i \in DOMAIN kept : kept[i] = reports[i]
               /\ Cardinality(DOMAIN kept) <= Retention
               /\ \A i \in DOMAIN reports :
                    (\A j \in DOMAIN reports : j <= i) => i \in DOMAIN kept
  <1> DEFINE kept == Log!Keep(reports, Log!Newest(Retention))
  <1>1. /\ DOMAIN reports \in SUBSET Log!Ids /\ reports \in [DOMAIN reports -> Nat]
        /\ DOMAIN reports \subseteq Nat /\ IsFiniteSet(DOMAIN reports)
    BY FileIs
  <1>2. Log!Newest(Retention) \subseteq DOMAIN reports
    BY DEF Log!Newest
  <1>3. /\ DOMAIN kept = Log!Newest(Retention)
        /\ \A i \in DOMAIN kept : kept[i] = reports[i]
        /\ kept = [i \in Log!Newest(Retention) |-> reports[i]]
    BY <1>2 DEF Log!Keep
  <1>4. kept \in [Log!Newest(Retention) -> Nat] /\ Log!Newest(Retention) \in SUBSET Log!Ids
    BY <1>1, <1>2, <1>3
  <1>5. kept \in Files
    BY <1>4 DEF Files
  <1>6. Cardinality(Log!Newest(Retention)) <= Retention
    <2>1. \A i \in Log!Newest(Retention) :
            Cardinality({j \in DOMAIN reports : j > i}) < Retention
      BY NewestMeans, Zenon DEF Later
    <2> QED
      BY <1>1, <1>2, <2>1, LogSizes, FewGreater
  <1>7. ASSUME NEW i \in DOMAIN reports, \A j \in DOMAIN reports : j <= i
        PROVE  i \in Log!Newest(Retention)
    <2>1. Later(i) = {}
      BY <1>1, <1>7 DEF Later
    <2>2. Cardinality(Later(i)) < Retention
      BY <2>1, FS_EmptySet, LogSizes
    <2> QED
      BY <2>2, NewestMeans
  <1> QED
    BY <1>2, <1>3, <1>5, <1>6, <1>7

\* What a step leaves of a tick it does not belong to.
Frame(u) ==
    /\ ticker'[u].pc = ticker[u].pc /\ ticker'[u].id = ticker[u].id
    /\ ticker'[u].seen = ticker[u].seen
    /\ ticker'[u].pruned = ticker[u].pruned /\ ticker'[u].listed = ticker[u].listed
    /\ ticker[u].disturbed => ticker'[u].disturbed

LEMMA DisturbIs ==
    ASSUME LogTyped, NEW a \in Tickers, NEW S
    PROVE  /\ Log!Disturb(a, S) \in [Tickers -> Ticker]
           /\ \A u \in Tickers :
                LET d == Log!Disturb(a, S)[u]
                IN  /\ d.pc = ticker[u].pc /\ d.id = ticker[u].id /\ d.seen = ticker[u].seen
                    /\ d.pruned = ticker[u].pruned /\ d.listed = ticker[u].listed
                    /\ ticker[u].disturbed => d.disturbed
                    /\ u \in S \ {a} /\ Busy(u) => d.disturbed
           /\ Log!Disturb(a, S)[a] = ticker[a]
  <1>1. \A u \in Tickers : ticker[u] \in Ticker
    BY DEF LogTyped
  <1>2. ASSUME NEW u \in Tickers
        PROVE  Log!Disturb(a, S)[u] = IF u \in S \ {a} /\ Busy(u)
                                      THEN [ticker[u] EXCEPT !.disturbed = TRUE] ELSE ticker[u]
    BY DEF Log!Disturb, Busy
  <1>3. Log!Disturb(a, S) = [u \in Tickers |-> Log!Disturb(a, S)[u]]
    BY DEF Log!Disturb
  <1>4. \A u \in Tickers : [ticker[u] EXCEPT !.disturbed = TRUE] \in Ticker
    BY <1>1 DEF Ticker
  <1>5. \A u \in Tickers : Log!Disturb(a, S)[u] \in Ticker
    BY <1>1, <1>2, <1>4
  <1>6. Log!Disturb(a, S) \in [Tickers -> Ticker]
    BY <1>3, <1>5
  <1>7. ASSUME NEW u \in Tickers
        PROVE  LET d == Log!Disturb(a, S)[u]
               IN  /\ d.pc = ticker[u].pc /\ d.id = ticker[u].id /\ d.seen = ticker[u].seen
                   /\ d.pruned = ticker[u].pruned /\ d.listed = ticker[u].listed
                   /\ ticker[u].disturbed => d.disturbed
                   /\ u \in S \ {a} /\ Busy(u) => d.disturbed
    BY <1>1, <1>2 DEF Ticker
  <1> QED
    BY <1>2, <1>6, <1>7

LEMMA EmptyIsAFile == Log!Empty \in Files
  <1>1. Log!Empty \in [{} -> Nat] /\ {} \in SUBSET Log!Ids
    BY DEF Log!Empty
  <1> QED
    BY <1>1 DEF Files

LEMMA LogTypedInit == Log!Init => LogTyped /\ LogInv
  <1> SUFFICES ASSUME Log!Init PROVE LogTyped /\ LogInv
    OBVIOUS
  <1>1. Log!Empty \in Files /\ DOMAIN Log!Empty = {}
    BY EmptyIsAFile DEF Log!Empty
  <1>2. Log!Idle \in Ticker
    BY <1>1, LogSizes DEF Log!Idle, Ticker, Log!Stages, Log!Ids
  <1>3. LogTyped
    BY <1>1, <1>2, LogSizes DEF Log!Init, LogTyped, Log!Ids
  <1>4. \A t \in Tickers : ticker[t] = Log!Idle
    BY DEF Log!Init
  <1>5. \A t \in Tickers : ~Busy(t) /\ ~ticker[t].pruned /\ ~ticker[t].listed /\ ticker[t].pc = "idle"
    BY <1>4 DEF Log!Idle, Busy
  <1>6. IdsInv /\ StagesInv /\ UndisturbedInv
    BY <1>1, <1>5 DEF Log!Init, IdsInv, StagesInv, UndisturbedInv
  <1>7. RowsInv
    BY DEF Log!Init, RowsInv
  <1>8. ManifestHeals
    <2>1. reports = index /\ DOMAIN reports = {}
      BY <1>1 DEF Log!Init
    <2>2. Cardinality(DOMAIN reports) <= Retention
      BY <2>1, FS_EmptySet, LogSizes
    <2> QED
      BY <2>1, <2>2, LogCardinality DEF ManifestHeals, Log!ManifestHeals
  <1> QED
    BY <1>3, <1>6, <1>7, <1>8 DEF LogInv

-----------------------------------------------------------------------------
(* The steps of a tick: what each changes of the ticks, and of the files.    *)
LEMMA BeginIs ==
    ASSUME LogTyped, NEW a \in Tickers, Log!Begin(a)
    PROVE  /\ ticker[a].pc = "idle" /\ ticker' \in [Tickers -> Ticker]
           /\ ticker'[a].pc = "run" /\ ticker'[a].id = sec
           /\ ~ticker'[a].pruned /\ ~ticker'[a].listed
           /\ \A u \in Tickers \ {a} :
                /\ Frame(u)
                /\ Busy(u) /\ ticker[u].id = sec => ticker'[u].disturbed /\ ticker'[a].disturbed
           /\ UNCHANGED <<sec, finished, reports, index, tmp, costs, totals, sound>>
  <1> DEFINE same == {u \in Tickers : ticker[u].pc # "idle" /\ ticker[u].id = sec}
             new == [Log!Idle EXCEPT !.pc = "run", !.id = sec, !.disturbed = same # {}]
  <1>1. ticker' = [Log!Disturb(a, same) EXCEPT ![a] = new]
    BY DEF Log!Begin
  <1>2. Log!Empty \in Files
    BY EmptyIsAFile
  <1>3. new \in Ticker /\ new.pc = "run" /\ new.id = sec /\ ~new.pruned /\ ~new.listed
        /\ (same # {} => new.disturbed)
    BY <1>2 DEF Log!Idle, Ticker, Log!Stages, LogTyped
  <1>4. Log!Disturb(a, same) \in [Tickers -> Ticker]
    BY DisturbIs
  <1> HIDE DEF new
  <1>5. ticker' \in [Tickers -> Ticker] /\ ticker'[a] = new
        /\ \A u \in Tickers \ {a} : ticker'[u] = Log!Disturb(a, same)[u]
    BY <1>1, <1>3, <1>4
  <1>6. ASSUME NEW u \in Tickers \ {a}
        PROVE  /\ Frame(u)
               /\ Busy(u) /\ ticker[u].id = sec => ticker'[u].disturbed /\ ticker'[a].disturbed
    <2>1. Busy(u) /\ ticker[u].id = sec => u \in same \ {a}
      BY DEF Busy
    <2> HIDE DEF same
    <2> QED
      BY <1>3, <1>5, <2>1, DisturbIs DEF Frame
  <1> QED
    BY <1>3, <1>5, <1>6 DEF Log!Begin

LEMMA ReportIs ==
    ASSUME LogTyped, NEW a \in Tickers, Log!Report(a)
    PROVE  /\ ticker[a].pc = "run" /\ ticker' \in [Tickers -> Ticker]
           /\ ticker'[a].pc = "scan" /\ ticker'[a].id = ticker[a].id
           /\ ticker'[a].pruned = ticker[a].pruned /\ ticker'[a].listed = ticker[a].listed
           /\ ~ticker'[a].disturbed => /\ ~ticker[a].disturbed
                                       /\ \A u \in Tickers \ {a} : ~Persists(u)
           /\ \A u \in Tickers \ {a} : Frame(u) /\ (Busy(u) => ticker'[u].disturbed)
           /\ finished' = finished + 1 /\ sound' = FALSE
           /\ reports' \in Files /\ DOMAIN reports' = DOMAIN reports \cup {ticker[a].id}
           /\ reports'[ticker[a].id] = finished + 1
           /\ \A j \in DOMAIN reports \ {ticker[a].id} : reports'[j] = reports[j]
           /\ UNCHANGED <<sec, index, tmp, costs, totals>>
  <1> DEFINE D == Log!Disturb(a, Tickers)
             met == \E u \in Tickers \ {a} : ticker[u].pc \in Log!Persisting
             new == [D[a] EXCEPT !.pc = "scan", !.disturbed = @ \/ met]
             i == ticker[a].id
  <1>1. ticker' = [D EXCEPT ![a] = new]
    BY DEF Log!Report
  <1>2. D \in [Tickers -> Ticker] /\ D[a] = ticker[a] /\ ticker[a] \in Ticker
    BY DisturbIs DEF LogTyped
  <1>3. /\ new \in Ticker /\ new.pc = "scan" /\ new.id = i
        /\ new.pruned = ticker[a].pruned /\ new.listed = ticker[a].listed
        /\ ~new.disturbed => ~ticker[a].disturbed /\ ~met
    <2> HIDE DEF D, met
    <2> QED
      BY <1>2 DEF Ticker, Log!Stages, Log!Persisting
  <1> HIDE DEF new
  <1>4. ticker' \in [Tickers -> Ticker] /\ ticker'[a] = new
        /\ \A u \in Tickers \ {a} : ticker'[u] = D[u]
    BY <1>1, <1>2, <1>3
  <1>5. ASSUME NEW u \in Tickers \ {a} PROVE Frame(u) /\ (Busy(u) => ticker'[u].disturbed)
    BY <1>4, DisturbIs DEF Frame
  <1>6. /\ reports' \in Files /\ DOMAIN reports' = DOMAIN reports \cup {i}
        /\ reports'[i] = finished + 1
        /\ \A j \in DOMAIN reports \ {i} : reports'[j] = reports[j]
    <2>1. reports' = [j \in DOMAIN reports \cup {i} |-> IF j = i THEN finished + 1 ELSE reports[j]]
      BY DEF Log!Report
    <2>2. DOMAIN reports \cup {i} \in SUBSET Log!Ids
      BY <1>2, FileIs DEF LogTyped, Ticker
    <2>3. reports' \in [DOMAIN reports \cup {i} -> Nat]
      BY <2>1, FileIs DEF LogTyped
    <2> QED
      BY <2>1, <2>2, <2>3 DEF Files
  <1> QED
    BY <1>3, <1>4, <1>5, <1>6 DEF Log!Report, Persists

\* A step that moves the tick a on and leaves the others alone.
MovesTo(a, pc) ==
    /\ ticker' \in [Tickers -> Ticker]
    /\ ticker'[a].pc = pc /\ ticker'[a].id = ticker[a].id
    /\ ticker'[a].pruned = ticker[a].pruned /\ ticker'[a].listed = ticker[a].listed
    /\ ticker'[a].disturbed = ticker[a].disturbed
    /\ \A u \in Tickers \ {a} : Frame(u)

LEMMA GotoIs ==
    ASSUME LogTyped, NEW a \in Tickers, NEW pc \in Log!Stages, Log!Goto(a, pc)
    PROVE  MovesTo(a, pc)
  BY DEF LogTyped, Log!Goto, MovesTo, Ticker, Frame

LEMMA ScanIs ==
    ASSUME LogTyped, NEW a \in Tickers, Log!Scan(a)
    PROVE  /\ ticker[a].pc = "scan" /\ MovesTo(a, "write") /\ ticker'[a].seen = reports
           /\ UNCHANGED <<sec, finished, reports, index, tmp, costs, totals, sound>>
  BY DEF LogTyped, Log!Scan, Log!Manifest, MovesTo, Ticker, Frame, Log!Stages, Log!Persisting

LEMMA WriteTmpIs ==
    ASSUME LogTyped, NEW a \in Tickers, Log!WriteTmp(a)
    PROVE  /\ ticker[a].pc = "write" /\ MovesTo(a, "rename") /\ tmp' = ticker[a].seen
           /\ tmp' \in Files
           /\ UNCHANGED <<sec, finished, reports, index, costs, totals, sound>>
  BY EmptyIsAFile DEF LogTyped, Log!WriteTmp, MovesTo, Ticker, Frame, Log!Stages, Log!Persisting

LEMMA RenameIs ==
    ASSUME LogTyped, NEW a \in Tickers, Log!Rename(a)
    PROVE  /\ ticker[a].pc = "rename"
           /\ UNCHANGED <<sec, finished, reports, costs, totals>>
           /\ \/ MovesTo(a, "rest") /\ tmp = Log!NoFile /\ UNCHANGED <<index, tmp, sound>>
              \/ /\ index' = tmp /\ tmp \in Files /\ tmp' = Log!NoFile
                 /\ sound' = (ticker[a].pruned /\ ~ticker[a].disturbed)
                 /\ ticker' \in [Tickers -> Ticker]
                 /\ ticker'[a].pc = IF ticker[a].pruned THEN "rest" ELSE "prune"
                 /\ ticker'[a].id = ticker[a].id /\ ticker'[a].pruned = ticker[a].pruned
                 /\ ticker'[a].listed /\ ticker'[a].disturbed = ticker[a].disturbed
                 /\ \A u \in Tickers \ {a} : Frame(u) /\ (Busy(u) => ticker'[u].disturbed)
  <1>1. CASE tmp = Log!NoFile
    <2>1. "rest" \in Log!Stages
      BY DEF Log!Stages
    <2> QED
      BY <1>1, <2>1, GotoIs DEF Log!Rename
  <1>2. CASE tmp # Log!NoFile
    <2> DEFINE D == Log!Disturb(a, Tickers)
               pc == IF ticker[a].pruned THEN "rest" ELSE "prune"
               new == [D[a] EXCEPT !.pc = pc, !.listed = TRUE]
    <2>1. ticker' = [D EXCEPT ![a] = new]
      BY <1>2 DEF Log!Rename
    <2>2. D \in [Tickers -> Ticker] /\ D[a] = ticker[a] /\ ticker[a] \in Ticker
      BY DisturbIs DEF LogTyped
    <2>3. /\ new \in Ticker /\ new.pc = pc /\ new.id = ticker[a].id
          /\ new.pruned = ticker[a].pruned /\ new.listed
          /\ new.disturbed = ticker[a].disturbed
      <3>1. pc \in Log!Stages
        BY DEF Log!Stages, Log!Persisting
      <3> HIDE DEF D, pc
      <3> QED
        BY <2>2, <3>1 DEF Ticker
    <2> HIDE DEF new
    <2>4. ticker' \in [Tickers -> Ticker] /\ ticker'[a] = new
          /\ \A u \in Tickers \ {a} : ticker'[u] = D[u]
      BY <2>1, <2>2, <2>3
    <2>5. ASSUME NEW u \in Tickers \ {a} PROVE Frame(u) /\ (Busy(u) => ticker'[u].disturbed)
      BY <2>4, DisturbIs DEF Frame
    <2> QED
      BY <1>2, <2>3, <2>4, <2>5 DEF Log!Rename, LogTyped
  <1> QED
    BY <1>1, <1>2

LEMMA PruneIs ==
    ASSUME LogTyped, NEW a \in Tickers, Log!Prune(a)
    PROVE  /\ ticker[a].pc = "prune"
           /\ UNCHANGED <<sec, finished, index, tmp, costs, totals>>
           /\ reports' \in Files /\ DOMAIN reports' \subseteq DOMAIN reports
           /\ \A i \in DOMAIN reports' : reports'[i] = reports[i]
           /\ Cardinality(DOMAIN reports') <= Retention
           /\ \A i \in DOMAIN reports : (\A j \in DOMAIN reports : j <= i) => i \in DOMAIN reports'
           /\ \/ reports' = reports /\ MovesTo(a, "rest") /\ sound' = ~ticker[a].disturbed
              \/ /\ sound' = FALSE
                 /\ ticker' \in [Tickers -> Ticker]
                 /\ ticker'[a].pc = "scan" /\ ticker'[a].id = ticker[a].id
                 /\ ticker'[a].pruned /\ ticker'[a].listed = ticker[a].listed
                 /\ ticker'[a].disturbed = ticker[a].disturbed
                 /\ \A u \in Tickers \ {a} : Frame(u)
  <1>1. reports' = Log!Keep(reports, Log!Newest(Retention))
    BY DEF Log!Prune
  <1>2. reports \in Files
    BY DEF LogTyped
  <1>3. CASE reports' = reports
    <2>1. MovesTo(a, "rest")
      <3>1. "rest" \in Log!Stages
        BY DEF Log!Stages
      <3> QED
        BY <1>3, <3>1, GotoIs DEF Log!Prune
    <2> QED
      BY <1>1, <1>2, <1>3, <2>1, PruneKeeps DEF Log!Prune
  <1>4. CASE reports' # reports
    <2>1. ticker' = [ticker EXCEPT ![a].pc = "scan", ![a].pruned = TRUE] /\ sound' = FALSE
      BY <1>4 DEF Log!Prune
    <2>2. /\ ticker' \in [Tickers -> Ticker]
          /\ ticker'[a].pc = "scan" /\ ticker'[a].id = ticker[a].id
          /\ ticker'[a].pruned /\ ticker'[a].listed = ticker[a].listed
          /\ ticker'[a].disturbed = ticker[a].disturbed
          /\ \A u \in Tickers \ {a} : Frame(u)
      BY <2>1 DEF LogTyped, Ticker, Frame, Log!Stages, Log!Persisting
    <2> QED
      BY <1>1, <1>2, <2>1, <2>2, PruneKeeps DEF Log!Prune
  <1> QED
    BY <1>3, <1>4

LEMMA FailIs ==
    ASSUME LogTyped, NEW a \in Tickers, Log!Fail(a)
    PROVE  /\ ticker[a].pc = "run" \/ Persists(a)
           /\ MovesTo(a, "rest")
           /\ UNCHANGED <<sec, finished, reports, index, tmp, costs, totals, sound>>
  <1>1. "rest" \in Log!Stages
    BY DEF Log!Stages
  <1> QED
    BY <1>1, GotoIs DEF Log!Fail, Persists

LEMMA TotalIs ==
    ASSUME LogTyped, NEW a \in Tickers, Log!Total(a)
    PROVE  /\ ticker[a].pc = "rest" /\ ticker[a].id < sec
           /\ ticker' \in [Tickers -> Ticker] /\ ticker'[a] = Log!Idle
           /\ ticker'[a].pc = "idle" /\ ~ticker'[a].pruned /\ ~ticker'[a].listed
           /\ \A u \in Tickers \ {a} : Frame(u)
           /\ totals' = Append(totals, [id |-> ticker[a].id, run |-> Log!LatestRun,
                                        calls |-> costs[ticker[a].id],
                                        clean |-> ticker[a].listed /\ ~ticker[a].disturbed])
           /\ UNCHANGED <<sec, finished, reports, index, tmp, costs, sound>>
  <1>1. Log!Idle \in Ticker
    BY EmptyIsAFile, LogSizes DEF Log!Idle, Ticker, Log!Stages, Log!Ids
  <1>2. Log!Idle.pc = "idle" /\ ~Log!Idle.pruned /\ ~Log!Idle.listed
    BY DEF Log!Idle
  <1> QED
    BY <1>1, <1>2 DEF LogTyped, Log!Total, Frame

-----------------------------------------------------------------------------
(* Each step keeps the invariants of the log.                                *)
LEMMA TickerIs ==
    ASSUME LogTyped, NEW t \in Tickers
    PROVE  ticker[t] \in Ticker /\ ticker[t].id \in Log!Ids /\ ticker[t].id \in Nat /\ sec \in Nat
  BY DEF LogTyped, Ticker, Log!Ids

LEMMA LogTypedStep == LogTyped /\ LogInv /\ [Log!Next]_logVars => LogTyped'
  <1> SUFFICES ASSUME LogTyped, LogInv, [Log!Next]_logVars PROVE LogTyped'
    OBVIOUS
  <1>1. ASSUME NEW a \in Tickers, Log!Begin(a) PROVE LogTyped'
    <2>1. /\ ticker' \in [Tickers -> Ticker]
          /\ UNCHANGED <<sec, finished, reports, index, tmp, costs, totals, sound>>
      BY <1>1, BeginIs
    <2> QED
      BY <2>1 DEF LogTyped
  <1>2. ASSUME NEW a \in Tickers, Log!Call(a) PROVE LogTyped'
    <2>1. UNCHANGED <<sec, finished, reports, index, tmp, totals, ticker, sound>>
      BY <1>2 DEF Log!Call
    <2>2. costs' \in [Log!Ids -> Nat]
      <3>1. costs' = [costs EXCEPT ![ticker[a].id] = costs[ticker[a].id] + 1]
        BY <1>2 DEF Log!Call
      <3> QED
        BY <3>1, TickerIs DEF LogTyped
    <2> QED
      BY <2>1, <2>2 DEF LogTyped
  <1>3. ASSUME NEW a \in Tickers, Log!Report(a) PROVE LogTyped'
    <2>1. /\ ticker' \in [Tickers -> Ticker] /\ reports' \in Files
          /\ finished' = finished + 1 /\ sound' = FALSE
          /\ UNCHANGED <<sec, index, tmp, costs, totals>>
      BY <1>3, ReportIs
    <2>2. finished' \in Nat
      <3>1. finished \in Nat
        BY DEF LogTyped
      <3> QED
        BY <2>1, <3>1
    <2>3. sound' \in BOOLEAN
      BY <2>1
    <2> QED
      BY <2>1, <2>2, <2>3 DEF LogTyped
  <1>4. ASSUME NEW a \in Tickers, Log!Scan(a) PROVE LogTyped'
    BY <1>4, ScanIs DEF LogTyped, MovesTo
  <1>5. ASSUME NEW a \in Tickers, Log!WriteTmp(a) PROVE LogTyped'
    BY <1>5, WriteTmpIs DEF LogTyped, MovesTo
  <1>6. ASSUME NEW a \in Tickers, Log!Rename(a) PROVE LogTyped'
    BY <1>6, RenameIs DEF LogTyped, MovesTo
  <1>7. ASSUME NEW a \in Tickers, Log!Prune(a) PROVE LogTyped'
    BY <1>7, PruneIs DEF LogTyped, MovesTo
  <1>8. ASSUME NEW a \in Tickers, Log!Fail(a) PROVE LogTyped'
    BY <1>8, FailIs DEF LogTyped, MovesTo
  <1>9. ASSUME NEW a \in Tickers, Log!Total(a) PROVE LogTyped'
    <2> DEFINE row == [id |-> ticker[a].id, run |-> Log!LatestRun, calls |-> costs[ticker[a].id],
                       clean |-> ticker[a].listed /\ ~ticker[a].disturbed]
    <2>1. totals' = Append(totals, row)
      BY <1>9, TotalIs
    <2>2. PICK S : totals \in Seq(S)
      BY DEF LogTyped
    <2> HIDE DEF row
    <2>4. totals \in Seq(S \cup {row})
      BY <2>2
    <2>3. \E R : totals' \in Seq(R)
      BY <2>1, <2>4
    <2> QED
      BY <1>9, <2>3, TotalIs DEF LogTyped
  <1>10. CASE Log!Second
    BY <1>10, LogSizes DEF LogTyped, Log!Second, Log!Ids
  <1>11. CASE UNCHANGED logVars
    BY <1>11 DEF LogTyped, logVars
  <1> QED
    BY <1>1, <1>2, <1>3, <1>4, <1>5, <1>6, <1>7, <1>8, <1>9, <1>10, <1>11
    DEF Log!Next, Log!Horizon, Log!vars, logVars

LEMMA StagesStep == LogTyped /\ StagesInv /\ [Log!Next]_logVars => StagesInv'
  <1> SUFFICES ASSUME LogTyped, StagesInv, [Log!Next]_logVars, NEW t \in Tickers
               PROVE  /\ ticker'[t].pc \in {"run", "idle"} => ~ticker'[t].pruned /\ ~ticker'[t].listed
                      /\ ticker'[t].pc = "prune" => ~ticker'[t].pruned
    BY DEF StagesInv
  <1> DEFINE Goal == /\ ticker'[t].pc \in {"run", "idle"} => ~ticker'[t].pruned /\ ~ticker'[t].listed
                     /\ ticker'[t].pc = "prune" => ~ticker'[t].pruned
  <1>0. ASSUME Frame(t) \/ ticker' = ticker PROVE Goal
    BY <1>0 DEF Frame, StagesInv
  <1>1. ASSUME NEW a \in Tickers, Log!Begin(a) PROVE Goal
    BY <1>0, <1>1, BeginIs
  <1>2. ASSUME NEW a \in Tickers, Log!Call(a) PROVE Goal
    BY <1>0, <1>2 DEF Log!Call
  <1>3. ASSUME NEW a \in Tickers, Log!Report(a) PROVE Goal
    BY <1>0, <1>3, ReportIs
  <1>4. ASSUME NEW a \in Tickers, Log!Scan(a) PROVE Goal
    BY <1>0, <1>4, ScanIs DEF MovesTo
  <1>5. ASSUME NEW a \in Tickers, Log!WriteTmp(a) PROVE Goal
    BY <1>0, <1>5, WriteTmpIs DEF MovesTo
  <1>6. ASSUME NEW a \in Tickers, Log!Rename(a) PROVE Goal
    BY <1>0, <1>6, RenameIs DEF MovesTo
  <1>7. ASSUME NEW a \in Tickers, Log!Prune(a) PROVE Goal
    BY <1>0, <1>7, PruneIs DEF MovesTo
  <1>8. ASSUME NEW a \in Tickers, Log!Fail(a) PROVE Goal
    BY <1>0, <1>8, FailIs DEF MovesTo
  <1>9. ASSUME NEW a \in Tickers, Log!Total(a) PROVE Goal
    BY <1>0, <1>9, TotalIs
  <1>10. CASE Log!Second \/ UNCHANGED logVars
    BY <1>0, <1>10 DEF Log!Second, logVars
  <1> QED
    BY <1>1, <1>2, <1>3, <1>4, <1>5, <1>6, <1>7, <1>8, <1>9, <1>10
    DEF Log!Next, Log!Horizon, Log!vars, logVars

LEMMA IdsStep == LogTyped /\ IdsInv /\ [Log!Next]_logVars => IdsInv'
  <1> SUFFICES ASSUME LogTyped, IdsInv, [Log!Next]_logVars PROVE IdsInv'
    OBVIOUS
  <1>t. /\ sec \in Nat /\ finished \in Nat /\ reports \in [DOMAIN reports -> Nat]
        /\ DOMAIN reports \subseteq Nat
    BY FileIs DEF LogTyped, Log!Ids
  \* A step in which every tick in flight goes on under its id.
  <1>0. ASSUME UNCHANGED <<sec, finished>>, DOMAIN reports' \subseteq DOMAIN reports,
               \A i \in DOMAIN reports' : reports'[i] = reports[i],
               \A t \in Tickers :
                 /\ Busy(t) /\ ticker[t].id = sec => ticker'[t].pc # "idle" /\ ticker'[t].id = sec
                 /\ ticker'[t].pc # "idle" => ticker'[t].id <= sec
        PROVE  IdsInv'
    BY <1>0 DEF IdsInv, Busy
  <1>1. ASSUME NEW a \in Tickers, Log!Begin(a) PROVE IdsInv'
    <2>1. \A t \in Tickers :
            /\ Busy(t) /\ ticker[t].id = sec => ticker'[t].pc # "idle" /\ ticker'[t].id = sec
            /\ ticker'[t].pc # "idle" => ticker'[t].id <= sec
      BY <1>1, <1>t, BeginIs DEF Frame, IdsInv, Busy
    <2> QED
      BY <1>0, <1>1, <2>1, BeginIs
  <1>2. ASSUME NEW a \in Tickers, Log!Call(a) PROVE IdsInv'
    BY <1>2 DEF Log!Call, IdsInv, Busy
  <1>3. ASSUME NEW a \in Tickers, Log!Report(a) PROVE IdsInv'
    <2>1. \A t \in Tickers : (Busy(t) <=> Busy(t)') /\ (Busy(t) => ticker'[t].id = ticker[t].id)
      BY <1>3, ReportIs DEF Frame, Busy
    <2>2. /\ DOMAIN reports' = DOMAIN reports \cup {ticker[a].id} /\ finished' = finished + 1
          /\ reports'[ticker[a].id] = finished + 1 /\ sec' = sec /\ ticker[a].pc = "run"
          /\ \A j \in DOMAIN reports \ {ticker[a].id} : reports'[j] = reports[j]
      BY <1>3, ReportIs
    <2>3. ticker[a].id <= sec /\ Busy(a) /\ ticker[a].id \in Nat
      BY <1>3, <2>2, TickerIs DEF IdsInv, Busy
    <2>4. \A i \in DOMAIN reports' : reports'[i] <= finished' /\ i <= sec'
      BY <1>t, <2>2, <2>3 DEF IdsInv
    <2>5. sec \in DOMAIN reports' => \E t \in Tickers : Busy(t) /\ ticker[t].id = sec
      BY <2>2, <2>3 DEF IdsInv
    <2>6. sec' \in DOMAIN reports' => \E t \in Tickers : (Busy(t) /\ ticker[t].id = sec)'
      BY <2>1, <2>2, <2>5
    <2>7. \A t \in Tickers : Busy(t)' => ticker'[t].id <= sec'
      BY <2>1, <2>2 DEF IdsInv
    <2> QED
      BY <2>4, <2>6, <2>7 DEF IdsInv
  <1>4. ASSUME NEW a \in Tickers, NEW pc \in Log!Stages \ {"idle"}, MovesTo(a, pc), Busy(a),
               UNCHANGED <<sec, finished, reports>>
        PROVE  IdsInv'
    <2>1. \A t \in Tickers :
            /\ Busy(t) /\ ticker[t].id = sec => ticker'[t].pc # "idle" /\ ticker'[t].id = sec
            /\ ticker'[t].pc # "idle" => ticker'[t].id <= sec
      BY <1>4 DEF MovesTo, Frame, IdsInv, Busy
    <2> QED
      BY <1>0, <1>4, <2>1
  <1>5. {"write", "rename", "rest"} \subseteq Log!Stages \ {"idle"}
    BY DEF Log!Stages, Log!Persisting
  <1>6. ASSUME NEW a \in Tickers, Log!Scan(a) PROVE IdsInv'
    BY <1>4, <1>5, <1>6, ScanIs DEF Busy
  <1>7. ASSUME NEW a \in Tickers, Log!WriteTmp(a) PROVE IdsInv'
    BY <1>4, <1>5, <1>7, WriteTmpIs DEF Busy
  <1>8. ASSUME NEW a \in Tickers, Log!Rename(a) PROVE IdsInv'
    <2>1. \A t \in Tickers :
            /\ Busy(t) /\ ticker[t].id = sec => ticker'[t].pc # "idle" /\ ticker'[t].id = sec
            /\ ticker'[t].pc # "idle" => ticker'[t].id <= sec
      BY <1>8, RenameIs DEF MovesTo, Frame, IdsInv, Busy
    <2> QED
      BY <1>0, <1>8, <2>1, RenameIs
  <1>9. ASSUME NEW a \in Tickers, Log!Prune(a) PROVE IdsInv'
    <2>1. \A t \in Tickers :
            /\ Busy(t) /\ ticker[t].id = sec => ticker'[t].pc # "idle" /\ ticker'[t].id = sec
            /\ ticker'[t].pc # "idle" => ticker'[t].id <= sec
      BY <1>9, PruneIs DEF MovesTo, Frame, IdsInv, Busy
    <2> QED
      BY <1>0, <1>9, <2>1, PruneIs
  <1>10. ASSUME NEW a \in Tickers, Log!Fail(a) PROVE IdsInv'
    BY <1>4, <1>5, <1>10, FailIs DEF Busy, Persists, Log!Persisting
  <1>11. ASSUME NEW a \in Tickers, Log!Total(a) PROVE IdsInv'
    <2>1. \A t \in Tickers :
            /\ Busy(t) /\ ticker[t].id = sec => ticker'[t].pc # "idle" /\ ticker'[t].id = sec
            /\ ticker'[t].pc # "idle" => ticker'[t].id <= sec
      <3>1. /\ ticker[a].id < sec /\ ticker'[a].pc = "idle"
            /\ \A u \in Tickers \ {a} : Frame(u)
        BY <1>11, TotalIs
      <3>2. ticker[a].id # sec
        BY <1>11, <3>1, TickerIs
      <3> QED
        BY <3>1, <3>2 DEF Frame, IdsInv, Busy
    <2> QED
      BY <1>0, <1>11, <2>1, TotalIs
  <1>12. CASE Log!Second
    BY <1>12, <1>t DEF Log!Second, IdsInv, Busy, LogTyped, Ticker, Log!Ids
  <1>13. CASE UNCHANGED logVars
    BY <1>13 DEF logVars, IdsInv, Busy
  <1> QED
    BY <1>1, <1>2, <1>3, <1>6, <1>7, <1>8, <1>9, <1>10, <1>11, <1>12, <1>13
    DEF Log!Next, Log!Horizon, Log!vars, logVars

LEMMA HealsStep == LogTyped /\ LogInv /\ [Log!Next]_logVars => ManifestHeals'
  <1> SUFFICES ASSUME LogTyped, LogInv, [Log!Next]_logVars, sound'
               PROVE  index' = reports' /\ Cardinality(DOMAIN reports') <= Retention
    BY LogCardinality DEF ManifestHeals, Log!ManifestHeals
  <1> DEFINE Goal == index' = reports' /\ Cardinality(DOMAIN reports') <= Retention
  <1>0. ASSUME UNCHANGED <<reports, index, sound>> PROVE Goal
    BY <1>0, LogCardinality DEF LogInv, ManifestHeals, Log!ManifestHeals
  <1>1. ASSUME NEW a \in Tickers, Log!Report(a) PROVE Goal
    BY <1>1, ReportIs
  <1>2. ASSUME NEW a \in Tickers, Log!Rename(a) PROVE Goal
    <2>1. CASE index' = tmp /\ sound' = (ticker[a].pruned /\ ~ticker[a].disturbed)
      <3>1. RelyOn(a) /\ ticker[a].pc = "rename" /\ ticker[a].pruned
        BY <1>2, <2>1, RenameIs DEF LogInv, UndisturbedInv, Busy
      <3>2. tmp = reports /\ Cardinality(DOMAIN reports) <= Retention
        BY <3>1 DEF RelyOn, Persists, Log!Persisting
      <3> QED
        BY <1>2, <2>1, <3>2, RenameIs
    <2> QED
      BY <1>0, <1>2, <2>1, RenameIs
  <1>3. ASSUME NEW a \in Tickers, Log!Prune(a) PROVE Goal
    <2>1. reports' = reports /\ ~ticker[a].disturbed /\ ticker[a].pc = "prune"
      BY <1>3, PruneIs
    <2>2. index = reports
      BY <2>1 DEF LogInv, UndisturbedInv, Busy, RelyOn
    <2> QED
      BY <1>3, <2>1, <2>2, PruneIs
  <1> QED
    BY <1>0, <1>1, <1>2, <1>3
    DEF Log!Next, Log!Begin, Log!Call, Log!Scan, Log!WriteTmp, Log!Fail, Log!Total, Log!Second,
        Log!Horizon, Log!vars, logVars

-----------------------------------------------------------------------------
(* What an undisturbed tick relies on, step by step.                         *)

\* A step of another that disturbs every tick in flight leaves nothing to prove.
LEMMA RelyFramed ==
    ASSUME LogTyped, UndisturbedInv, NEW t \in Tickers, Frame(t),
           Busy(t)', ~ticker'[t].disturbed
    PROVE  /\ Busy(t) /\ ~ticker[t].disturbed /\ RelyOn(t)
           /\ (Persists(t))' = Persists(t)
  BY DEF UndisturbedInv, Frame, Busy, Persists

LEMMA BeginRely ==
    ASSUME LogTyped, LogInv, NEW a \in Tickers, Log!Begin(a)
    PROVE  UndisturbedInv'
  <1> SUFFICES ASSUME NEW t \in Tickers, Busy(t)', ~ticker'[t].disturbed PROVE RelyOn(t)'
    BY DEF UndisturbedInv
  <1>1. /\ ticker[a].pc = "idle" /\ ticker'[a].pc = "run" /\ ticker'[a].id = sec
        /\ ~ticker'[a].pruned /\ ~ticker'[a].listed
        /\ \A u \in Tickers \ {a} :
             /\ Frame(u)
             /\ Busy(u) /\ ticker[u].id = sec => ticker'[u].disturbed /\ ticker'[a].disturbed
        /\ UNCHANGED <<sec, finished, reports, index, tmp, costs, totals, sound>>
    BY BeginIs
  <1>2. CASE t = a
    <2>1. \A u \in Tickers : Busy(u) => ticker[u].id # sec
      BY <1>1, <1>2 DEF Busy
    <2>2. \A u \in Tickers \ {a} : Busy(u)' => ticker'[u].id # sec
      BY <1>1, <2>1 DEF Busy, Frame
    <2>3. \A j \in DOMAIN reports : j < sec
      BY <2>1, FileIs, TickerIs DEF LogInv, IdsInv, LogTyped
    <2> QED
      BY <1>1, <1>2, <2>2, <2>3 DEF RelyOn, Persists, Log!Persisting
  <1>3. CASE t # a
    <2>1. Frame(t) /\ RelyOn(t) /\ Busy(t) /\ ticker[t].id # sec
      BY <1>1, <1>3, RelyFramed DEF LogInv
    <2>2. \A u \in Tickers \ {t} : Busy(u)' => ticker'[u].id # ticker[t].id
      BY <1>1, <1>3, <2>1 DEF RelyOn, Busy, Frame
    <2>3. \A u \in Tickers \ {t} : ~Persists(u) => ~(Persists(u)')
      BY <1>1 DEF Persists, Frame, Log!Persisting
    <2> QED
      BY <1>1, <1>3, <2>1, <2>2, <2>3 DEF RelyOn, Frame, Persists, IsNewest
  <1> QED
    BY <1>2, <1>3

LEMMA ReportRely ==
    ASSUME LogTyped, LogInv, NEW a \in Tickers, Log!Report(a)
    PROVE  UndisturbedInv'
  <1> SUFFICES ASSUME NEW t \in Tickers, Busy(t)', ~ticker'[t].disturbed PROVE RelyOn(t)'
    BY DEF UndisturbedInv
  <1> DEFINE i == ticker[a].id
  <1>1. /\ ticker[a].pc = "run" /\ ticker'[a].pc = "scan" /\ ticker'[a].id = i
        /\ ticker'[a].pruned = ticker[a].pruned /\ ticker'[a].listed = ticker[a].listed
        /\ ~ticker'[a].disturbed => /\ ~ticker[a].disturbed
                                    /\ \A u \in Tickers \ {a} : ~Persists(u)
        /\ \A u \in Tickers \ {a} : Frame(u) /\ (Busy(u) => ticker'[u].disturbed)
        /\ finished' = finished + 1
        /\ DOMAIN reports' = DOMAIN reports \cup {i} /\ reports'[i] = finished + 1
        /\ \A j \in DOMAIN reports \ {i} : reports'[j] = reports[j]
    BY ReportIs
  <1>2. t = a
    BY <1>1 DEF Frame, Busy
  <1>3. RelyOn(a) /\ ~ticker[a].pruned /\ ~ticker[a].listed
    BY <1>1, <1>2 DEF LogInv, UndisturbedInv, StagesInv, Busy
  <1>4. /\ i \in Nat /\ finished \in Nat /\ DOMAIN reports \subseteq Nat
        /\ \A j \in DOMAIN reports : reports[j] <= finished /\ j < i /\ reports[j] \in Nat
    BY <1>1, <1>3, FileIs, TickerIs DEF LogInv, IdsInv, RelyOn, LogTyped
  <1>5. \A u \in Tickers \ {a} : (Busy(u)' => ticker'[u].id # i) /\ ~(Persists(u)')
    BY <1>1, <1>2, <1>3 DEF RelyOn, Frame, Busy, Persists
  <1>6. IsNewest(reports', i) /\ \A j \in DOMAIN reports' : j <= i
    BY <1>1, <1>4 DEF IsNewest
  <1> QED
    BY <1>1, <1>2, <1>3, <1>5, <1>6 DEF RelyOn, IsNewest

\* A stage of a tick that reads or writes the manifest: it is alone with it.
LEMMA StageRely ==
    ASSUME LogTyped, LogInv, NEW a \in Tickers, Persists(a),
           ticker'[a].id = ticker[a].id, ticker'[a].disturbed = ticker[a].disturbed,
           \A u \in Tickers \ {a} : Frame(u),
           NEW t \in Tickers, t # a, Busy(t)', ~ticker'[t].disturbed,
           DOMAIN reports' \subseteq DOMAIN reports
    PROVE  RelyOn(t)'
  <1>1. Frame(t) /\ Busy(t) /\ RelyOn(t)
    BY RelyFramed DEF LogInv
  <1>2. ~Persists(t) /\ ~ticker[t].listed /\ ~(Persists(t)') /\ ~ticker'[t].listed
    BY <1>1 DEF RelyOn, Frame, Persists
  <1>3. Busy(a)
    BY DEF Persists, Busy, Log!Persisting
  <1>4. \A u \in Tickers \ {t} : Busy(u)' => ticker'[u].id # ticker'[t].id
    BY <1>1, <1>3 DEF RelyOn, Frame, Busy
  <1> QED
    BY <1>1, <1>2, <1>4 DEF RelyOn, Frame, Persists, Log!Persisting

LEMMA ScanRely ==
    ASSUME LogTyped, LogInv, NEW a \in Tickers, Log!Scan(a)
    PROVE  UndisturbedInv'
  <1> SUFFICES ASSUME NEW t \in Tickers, Busy(t)', ~ticker'[t].disturbed PROVE RelyOn(t)'
    BY DEF UndisturbedInv
  <1>1. /\ ticker[a].pc = "scan" /\ MovesTo(a, "write") /\ ticker'[a].seen = reports
        /\ UNCHANGED <<reports, index, tmp>> /\ Persists(a)
    BY ScanIs DEF Persists, Log!Persisting
  <1>2. CASE t = a
    <2>1. RelyOn(a)
      BY <1>1, <1>2 DEF LogInv, UndisturbedInv, Busy, MovesTo
    <2> QED
      BY <1>1, <1>2, <2>1 DEF RelyOn, MovesTo, Frame, Persists, Busy, Log!Persisting, IsNewest
  <1>3. CASE t # a
    BY <1>1, <1>3, StageRely DEF MovesTo
  <1> QED
    BY <1>2, <1>3

LEMMA WriteTmpRely ==
    ASSUME LogTyped, LogInv, NEW a \in Tickers, Log!WriteTmp(a)
    PROVE  UndisturbedInv'
  <1> SUFFICES ASSUME NEW t \in Tickers, Busy(t)', ~ticker'[t].disturbed PROVE RelyOn(t)'
    BY DEF UndisturbedInv
  <1>1. /\ ticker[a].pc = "write" /\ MovesTo(a, "rename") /\ tmp' = ticker[a].seen
        /\ UNCHANGED <<reports, index>> /\ Persists(a)
    BY WriteTmpIs DEF Persists, Log!Persisting
  <1>2. CASE t = a
    <2>1. RelyOn(a)
      BY <1>1, <1>2 DEF LogInv, UndisturbedInv, Busy, MovesTo
    <2> QED
      BY <1>1, <1>2, <2>1 DEF RelyOn, MovesTo, Frame, Persists, Busy, Log!Persisting, IsNewest
  <1>3. CASE t # a
    BY <1>1, <1>3, StageRely DEF MovesTo
  <1> QED
    BY <1>2, <1>3

LEMMA RenameRely ==
    ASSUME LogTyped, LogInv, NEW a \in Tickers, Log!Rename(a)
    PROVE  UndisturbedInv'
  <1> SUFFICES ASSUME NEW t \in Tickers, Busy(t)', ~ticker'[t].disturbed PROVE RelyOn(t)'
    BY DEF UndisturbedInv
  <1>1. ticker[a].pc = "rename" /\ Persists(a) /\ reports' = reports
    BY RenameIs DEF Persists, Log!Persisting
  <1>2. CASE MovesTo(a, "rest") /\ tmp = Log!NoFile /\ UNCHANGED <<index, tmp, sound>>
    <2>1. CASE t = a
      \* Undisturbed, it would have found the file.
      <3>1. RelyOn(a)
        BY <1>1, <1>2, <2>1 DEF LogInv, UndisturbedInv, Busy, MovesTo
      <3>2. tmp \in Files
        BY <1>1, <3>1 DEF RelyOn, LogTyped
      <3> QED
        BY <1>2, <3>2, FileIs
    <2>2. CASE t # a
      BY <1>1, <1>2, <2>2, StageRely DEF MovesTo
    <2> QED
      BY <2>1, <2>2
  <1>3. CASE ~(MovesTo(a, "rest") /\ tmp = Log!NoFile /\ UNCHANGED <<index, tmp, sound>>)
    <2>1. /\ index' = tmp
          /\ ticker'[a].pc = IF ticker[a].pruned THEN "rest" ELSE "prune"
          /\ ticker'[a].id = ticker[a].id /\ ticker'[a].pruned = ticker[a].pruned
          /\ ticker'[a].listed /\ ticker'[a].disturbed = ticker[a].disturbed
          /\ \A u \in Tickers \ {a} : Frame(u) /\ (Busy(u) => ticker'[u].disturbed)
      BY <1>3, RenameIs
    <2>2. t = a
      BY <2>1 DEF Frame, Busy
    <2>3. RelyOn(a)
      BY <1>1, <2>1, <2>2 DEF LogInv, UndisturbedInv, Busy
    <2>4. /\ IsNewest(index', ticker[a].id) /\ index' = reports
          /\ IsNewest(reports', ticker[a].id) /\ \A j \in DOMAIN reports : j <= ticker[a].id
          /\ \A u \in Tickers \ {a} : ~Persists(u) /\ (Busy(u) => ticker[u].id # ticker[a].id)
      BY <1>1, <2>1, <2>3 DEF RelyOn, IsNewest
    <2>5. \A u \in Tickers \ {a} : ~(Persists(u)') /\ (Busy(u)' => ticker'[u].id # ticker[a].id)
      BY <2>1, <2>4 DEF Frame, Persists, Busy
    <2> QED
      BY <1>1, <2>1, <2>2, <2>4, <2>5 DEF RelyOn, Persists, Log!Persisting, IsNewest
  <1> QED
    BY <1>2, <1>3

LEMMA PruneRely ==
    ASSUME LogTyped, LogInv, NEW a \in Tickers, Log!Prune(a)
    PROVE  UndisturbedInv'
  <1> SUFFICES ASSUME NEW t \in Tickers, Busy(t)', ~ticker'[t].disturbed PROVE RelyOn(t)'
    BY DEF UndisturbedInv
  <1>1. /\ ticker[a].pc = "prune" /\ Persists(a)
        /\ DOMAIN reports' \subseteq DOMAIN reports /\ UNCHANGED <<index, tmp>>
        /\ \A i \in DOMAIN reports' : reports'[i] = reports[i]
        /\ Cardinality(DOMAIN reports') <= Retention
        /\ \A i \in DOMAIN reports : (\A j \in DOMAIN reports : j <= i) => i \in DOMAIN reports'
        /\ ticker'[a].pc \in {"rest", "scan"} /\ ticker'[a].id = ticker[a].id
        /\ ticker'[a].listed = ticker[a].listed /\ ticker'[a].disturbed = ticker[a].disturbed
        /\ \A u \in Tickers \ {a} : Frame(u)
    BY PruneIs DEF MovesTo, Persists, Log!Persisting
  <1>2. CASE t = a
    <2>1. RelyOn(a)
      BY <1>1, <1>2 DEF LogInv, UndisturbedInv, Busy
    <2>2. /\ IsNewest(reports, ticker[a].id) /\ \A j \in DOMAIN reports : j <= ticker[a].id
          /\ ticker[a].listed => IsNewest(index, ticker[a].id)
          /\ \A u \in Tickers \ {a} : ~Persists(u) /\ (Busy(u) => ticker[u].id # ticker[a].id)
      BY <1>1, <2>1 DEF RelyOn
    <2>3. IsNewest(reports', ticker[a].id) /\ \A j \in DOMAIN reports' : j <= ticker[a].id
      BY <1>1, <2>2 DEF IsNewest
    <2>4. \A u \in Tickers \ {a} : ~(Persists(u)') /\ (Busy(u)' => ticker'[u].id # ticker[a].id)
      BY <1>1, <2>2 DEF Frame, Persists, Busy
    <2>5. ticker[a].listed => IsNewest(index', ticker[a].id)
      BY <1>1, <2>2
    <2> QED
      BY <1>1, <1>2, <2>3, <2>4, <2>5 DEF RelyOn, IsNewest
  <1>3. CASE t # a
    BY <1>1, <1>3, StageRely
  <1> QED
    BY <1>2, <1>3

LEMMA FailRely ==
    ASSUME LogTyped, LogInv, NEW a \in Tickers, Log!Fail(a)
    PROVE  UndisturbedInv'
  <1> SUFFICES ASSUME NEW t \in Tickers, Busy(t)', ~ticker'[t].disturbed PROVE RelyOn(t)'
    BY DEF UndisturbedInv
  <1>1. /\ ticker[a].pc = "run" \/ Persists(a)
        /\ MovesTo(a, "rest") /\ UNCHANGED <<reports, index, tmp>>
    BY FailIs
  <1>2. CASE t = a
    <2>1. RelyOn(a)
      BY <1>1, <1>2 DEF LogInv, UndisturbedInv, Busy, MovesTo, Persists, Log!Persisting
    <2>2. ticker[a].listed => Persists(a)
      BY <1>1 DEF LogInv, StagesInv
    <2> QED
      BY <1>1, <1>2, <2>1, <2>2 DEF RelyOn, MovesTo, Frame, Persists, Busy, Log!Persisting, IsNewest
  <1>3. CASE t # a
    <2>1. Frame(t) /\ RelyOn(t) /\ Busy(t) /\ Busy(a)
      BY <1>1, <1>3, RelyFramed DEF LogInv, MovesTo, Busy, Persists, Log!Persisting
    <2>2. \A u \in Tickers \ {t} : Busy(u)' => ticker'[u].id # ticker[t].id
      BY <1>1, <2>1 DEF RelyOn, Busy, Frame, MovesTo
    <2>3. \A u \in Tickers \ {t} : ~Persists(u) => ~(Persists(u)')
      BY <1>1 DEF Persists, Frame, MovesTo, Log!Persisting
    <2> QED
      BY <1>1, <2>1, <2>2, <2>3 DEF RelyOn, Frame, Persists, IsNewest
  <1> QED
    BY <1>2, <1>3

LEMMA TotalRely ==
    ASSUME LogTyped, LogInv, NEW a \in Tickers, Log!Total(a)
    PROVE  UndisturbedInv'
  <1> SUFFICES ASSUME NEW t \in Tickers, Busy(t)', ~ticker'[t].disturbed PROVE RelyOn(t)'
    BY DEF UndisturbedInv
  <1>1. /\ ticker'[a].pc = "idle" /\ UNCHANGED <<reports, index, tmp>>
        /\ \A u \in Tickers \ {a} : Frame(u)
    BY TotalIs
  <1>2. t # a /\ Frame(t) /\ RelyOn(t) /\ Busy(t)
    BY <1>1, RelyFramed DEF LogInv, Busy
  <1>3. \A u \in Tickers \ {t} : Busy(u)' => ticker'[u].id # ticker[t].id
    BY <1>1, <1>2 DEF RelyOn, Busy, Frame
  <1>4. \A u \in Tickers \ {t} : ~Persists(u) => ~(Persists(u)')
    BY <1>1 DEF Persists, Frame, Log!Persisting
  <1> QED
    BY <1>1, <1>2, <1>3, <1>4 DEF RelyOn, Frame, Persists, IsNewest

LEMMA UndisturbedStep == LogTyped /\ LogInv /\ [Log!Next]_logVars => UndisturbedInv'
  <1> SUFFICES ASSUME LogTyped, LogInv, [Log!Next]_logVars PROVE UndisturbedInv'
    OBVIOUS
  <1>1. ASSUME UNCHANGED <<ticker, reports, index, tmp>> PROVE UndisturbedInv'
    <2>1. \A t \in Tickers : RelyOn(t)' = RelyOn(t) /\ Busy(t)' = Busy(t)
      BY <1>1 DEF RelyOn, Busy, Persists, IsNewest
    <2> QED
      BY <1>1, <2>1 DEF LogInv, UndisturbedInv
  <1>2. CASE Log!Second \/ UNCHANGED logVars
    BY <1>1, <1>2 DEF Log!Second, logVars
  <1>3. ASSUME NEW a \in Tickers, Log!Call(a) PROVE UndisturbedInv'
    BY <1>1, <1>3 DEF Log!Call
  <1> QED
    BY <1>2, <1>3, BeginRely, ReportRely, ScanRely, WriteTmpRely, RenameRely, PruneRely, FailRely,
       TotalRely
    DEF Log!Next, Log!Horizon, Log!vars, logVars

-----------------------------------------------------------------------------
(* What the dashboard shows.                                                 *)

\* A clean tick is the run its row names.
LEMMA LatestIsOwn ==
    ASSUME LogTyped, NEW i, IsNewest(index, i)
    PROVE  Log!LatestRun = i
  <1>1. index \in [DOMAIN index -> Nat]
    BY FileIs DEF LogTyped
  <1>2. i \in DOMAIN index /\ \A j \in DOMAIN index : index[j] <= index[i]
    BY <1>1 DEF IsNewest
  <1>3. ASSUME NEW k \in DOMAIN index, \A j \in DOMAIN index : index[j] <= index[k]
        PROVE  k = i
    BY <1>1, <1>2, <1>3 DEF IsNewest
  <1>4. Log!NewestOf(index) = i
    BY <1>2, <1>3 DEF Log!NewestOf
  <1> QED
    BY <1>2, <1>4 DEF Log!LatestRun

LEMMA RowsStep == LogTyped /\ LogInv /\ [Log!Next]_logVars => RowsInv'
  <1> SUFFICES ASSUME LogTyped, LogInv, [Log!Next]_logVars PROVE RowsInv'
    OBVIOUS
  \* A step that ends no tick and pays for nothing.
  <1>0. ASSUME UNCHANGED <<totals, costs>>, sec' \in Nat, sec <= sec',
               \A t \in Tickers : Busy(t)' => \/ Busy(t) /\ ticker'[t].id = ticker[t].id
                                              \/ ticker'[t].id = sec
        PROVE  RowsInv'
    <2> SUFFICES ASSUME NEW n \in DOMAIN totals, totals[n].clean
                 PROVE  /\ totals[n].run = totals[n].id
                        /\ totals[n].calls = costs[totals[n].id]
                        /\ totals[n].id \in Nat /\ totals[n].id < sec'
                        /\ \A t \in Tickers : Busy(t)' => ticker'[t].id # totals[n].id
      BY <1>0 DEF RowsInv
    <2>1. /\ totals[n].run = totals[n].id /\ totals[n].calls = costs[totals[n].id]
          /\ totals[n].id \in Nat /\ totals[n].id < sec
          /\ \A t \in Tickers : Busy(t) => ticker[t].id # totals[n].id
      BY DEF LogInv, RowsInv
    <2> QED
      BY <1>0, <2>1 DEF LogTyped, Log!Ids
  <1>t. sec \in Nat /\ sec <= sec
    BY DEF LogTyped, Log!Ids
  <1>1. ASSUME NEW a \in Tickers, Log!Begin(a) PROVE RowsInv'
    BY <1>0, <1>1, <1>t, BeginIs DEF Frame, Busy
  <1>2. ASSUME NEW a \in Tickers, Log!Report(a) PROVE RowsInv'
    BY <1>0, <1>2, <1>t, ReportIs DEF Frame, Busy
  <1>3. ASSUME NEW a \in Tickers, Log!Scan(a) PROVE RowsInv'
    BY <1>0, <1>3, <1>t, ScanIs DEF Frame, Busy, MovesTo
  <1>4. ASSUME NEW a \in Tickers, Log!WriteTmp(a) PROVE RowsInv'
    BY <1>0, <1>4, <1>t, WriteTmpIs DEF Frame, Busy, MovesTo
  <1>5. ASSUME NEW a \in Tickers, Log!Rename(a) PROVE RowsInv'
    BY <1>0, <1>5, <1>t, RenameIs DEF Frame, Busy, MovesTo
  <1>6. ASSUME NEW a \in Tickers, Log!Prune(a) PROVE RowsInv'
    BY <1>0, <1>6, <1>t, PruneIs DEF Frame, Busy, MovesTo
  <1>7. ASSUME NEW a \in Tickers, Log!Fail(a) PROVE RowsInv'
    BY <1>0, <1>7, <1>t, FailIs DEF Frame, Busy, MovesTo, Persists, Log!Persisting
  <1>8. CASE Log!Second
    BY <1>0, <1>8, <1>t DEF Log!Second, Busy
  <1>9. CASE UNCHANGED logVars
    BY <1>0, <1>9, <1>t DEF logVars, Busy
  <1>10. ASSUME NEW a \in Tickers, Log!Call(a) PROVE RowsInv'
    <2>1. UNCHANGED <<totals, ticker, sec>> /\ Busy(a)
          /\ costs' = [costs EXCEPT ![ticker[a].id] = costs[ticker[a].id] + 1]
      BY <1>10 DEF Log!Call, Busy
    <2>2. \A i \in Log!Ids : i # ticker[a].id => costs'[i] = costs[i]
      BY <2>1 DEF LogTyped
    <2> SUFFICES ASSUME NEW n \in DOMAIN totals, totals[n].clean
                 PROVE  totals[n].calls = costs'[totals[n].id]
      BY <2>1 DEF LogInv, RowsInv, Busy
    <2>3. totals[n].id # ticker[a].id /\ totals[n].calls = costs[totals[n].id]
      BY <2>1 DEF LogInv, RowsInv
    <2> QED
      BY <2>1, <2>3 DEF LogTyped
  <1>11. ASSUME NEW a \in Tickers, Log!Total(a) PROVE RowsInv'
    <2> DEFINE row == [id |-> ticker[a].id, run |-> Log!LatestRun, calls |-> costs[ticker[a].id],
                       clean |-> ticker[a].listed /\ ~ticker[a].disturbed]
    <2>1. /\ ticker[a].pc = "rest" /\ ticker[a].id < sec /\ ticker'[a].pc = "idle"
          /\ \A u \in Tickers \ {a} : Frame(u)
          /\ totals' = Append(totals, row) /\ UNCHANGED <<costs, sec>>
      BY <1>11, TotalIs
    <2>2. \A u \in Tickers : Busy(u)' => u # a /\ Busy(u) /\ ticker'[u].id = ticker[u].id
      BY <2>1 DEF Frame, Busy
    <2>3. ASSUME row.clean
          PROVE  /\ row.run = row.id /\ row.calls = costs[row.id] /\ row.id \in Nat /\ row.id < sec
                 /\ \A t \in Tickers : Busy(t)' => ticker'[t].id # row.id
      <3>1. RelyOn(a) /\ ticker[a].listed
        BY <2>1, <2>3 DEF LogInv, UndisturbedInv, Busy
      <3>2. Log!LatestRun = ticker[a].id
        BY <3>1, LatestIsOwn DEF RelyOn
      <3>3. \A t \in Tickers : Busy(t)' => ticker'[t].id # ticker[a].id
        BY <2>2, <3>1 DEF RelyOn
      <3> QED
        BY <2>1, <3>2, <3>3, TickerIs
    <2> HIDE DEF row
    <2>4. PICK S : totals \in Seq(S)
      BY DEF LogTyped
    <2>5. ASSUME NEW n \in DOMAIN totals'
          PROVE  \/ n \in DOMAIN totals /\ totals'[n] = totals[n]
                 \/ totals'[n] = row
      BY <2>1, <2>4
    <2>6. ASSUME NEW n \in DOMAIN totals, totals[n].clean
          PROVE  /\ totals[n].run = totals[n].id /\ totals[n].calls = costs[totals[n].id]
                 /\ totals[n].id \in Nat /\ totals[n].id < sec
                 /\ \A t \in Tickers : Busy(t)' => ticker'[t].id # totals[n].id
      BY <2>2, <2>6 DEF LogInv, RowsInv
    <2> QED
      BY <2>1, <2>3, <2>5, <2>6 DEF RowsInv
  <1> QED
    BY <1>1, <1>2, <1>3, <1>4, <1>5, <1>6, <1>7, <1>8, <1>9, <1>10, <1>11
    DEF Log!Next, Log!Horizon, Log!vars, logVars

LEMMA RowsAreRight == LogTyped /\ RowsInv => CostIsOfItsRun
  <1> SUFFICES ASSUME LogTyped, RowsInv, NEW n \in DOMAIN totals, totals[n].clean
               PROVE  LET last == Log!Shown(totals[n].id)
                      IN  last.clean => last.calls = costs[last.id]
    BY DEF CostIsOfItsRun, Log!CostIsOfItsRun, RowsInv
  <1> DEFINE rows == {m \in DOMAIN totals : totals[m].run = totals[n].id}
  <1>1. PICK S : totals \in Seq(S)
    BY DEF LogTyped
  <1>2. rows \subseteq 1 .. Len(totals) /\ Len(totals) \in Nat /\ n \in rows
    BY <1>1 DEF RowsInv
  <1>3. \E x \in rows : \A y \in rows : y <= x
    BY <1>2, GreatestExists
  <1>4. PICK m \in rows : Log!Shown(totals[n].id) = totals[m]
    BY <1>3 DEF Log!Shown
  <1> QED
    BY <1>4 DEF RowsInv

-----------------------------------------------------------------------------
LoopVars == <<vars, logVars, logged>>

LEMMA LogIsSound == LoopSpec => [](LogTyped /\ LogInv)
  <1>1. LoopInit => LogTyped /\ LogInv
    BY LogTypedInit DEF LoopInit
  <1>2. (LogTyped /\ LogInv) /\ [LoopNext]_LoopVars => (LogTyped /\ LogInv)'
    <2>1. [LoopNext]_LoopVars => [Log!Next]_logVars
      BY DEF LoopNext, LoopVars
    <2> QED
      BY <2>1, LogTypedStep, IdsStep, StagesStep, UndisturbedStep, RowsStep, HealsStep DEF LogInv
  <1> QED
    BY <1>1, <1>2, PTL DEF LoopSpec, LoopVars

\* ops/recorder.py:79-80, "the manifest always matches what's actually persisted": after
\* any run that persisted alone it does, and no more than DESK_OPS_RETENTION reports are
\* left, whatever failures and overlapping runs went before.
THEOREM ManifestHealsAlways == LoopSpec => []ManifestHeals
  <1>1. LogTyped /\ LogInv => ManifestHeals
    BY DEF LogInv
  <1> QED
    BY <1>1, LogIsSound, PTL

\* The cost column of the dashboard, of any number of ticks side by side: the row of a tick
\* carries what that tick paid for and is the row shown of its run, if the tick's own
\* report reached the manifest and no other tick shared its id or its files meanwhile.
\* Nothing is said of the other ticks: the cost of one whose run failed is written to the
\* run before it.
THEOREM CostIsOfItsRunAlways == LoopSpec => []CostIsOfItsRun
  <1>1. LogTyped /\ LogInv => CostIsOfItsRun
    BY RowsAreRight DEF LogInv
  <1> QED
    BY <1>1, LogIsSound, PTL
=============================================================================
