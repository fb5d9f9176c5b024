---------------------------- MODULE UpkeepProofs ----------------------------
(* What runs around the desk's own loop: the daily mails and the switches of  *)
(* the loops (MailLoop), for any loops, requests, lengths of hours and days,  *)
(* and bounds; and the data caches that the analyses read (MCCaches), for any *)
(* teams, players, matches, vendors' answers, processes and bounds.           *)
EXTENDS MailLoop, MCCaches, FiniteSetTheorems, TLAPS


Sender == [pc : {"idle", "build", "mark"}, day : Days, since : 0 .. MaxTime]

\* MailTypeOK, and the types of what it leaves out.
MailTyped ==
    /\ now \in 0 .. MaxTime
    /\ sender \in [Senders -> Sender]
    /\ lastSent \in 0 .. MaxDay + 1
    /\ mails \in [Days -> Nat]
    /\ slips \in [Days -> Nat] /\ excused \subseteq Days /\ due \subseteq Days

-----------------------------------------------------------------------------
(* The calendar.                                                             *)

LEMMA DayLenPositive == DayLen \in Nat \ {0}
  <1>1. DayHours \in Nat \ {0} /\ HourLen \in Nat \ {0}
    BY MailAssumption
  <1>2. DayHours * HourLen = (DayHours - 1) * HourLen + HourLen
    BY <1>1
  <1>3. (DayHours - 1) * HourLen \in Nat
    BY <1>1
  <1> QED
    BY <1>1, <1>2, <1>3 DEF DayLen

LEMMA Division ==
    ASSUME NEW n \in Nat, NEW k \in Nat \ {0}
    PROVE  /\ n \div k \in Nat
           /\ k * (n \div k) <= n /\ n < k * (n \div k) + k
  OBVIOUS

LEMMA DivisionBelow ==
    ASSUME NEW n \in Nat, NEW k \in Nat \ {0}, NEW m \in Nat, n < (m + 1) * k
    PROVE  n \div k <= m
  <1> DEFINE q == n \div k
  <1>1. q \in Nat /\ k * q <= n
    BY Division
  <1> HIDE DEF q
  <1>2. ASSUME q >= m + 1
        PROVE  FALSE
    <2>1. k * q = k * (m + 1) + k * (q - (m + 1))
      BY <1>1
    <2>2. k * (q - (m + 1)) \in Nat
      BY <1>1, <1>2
    <2> QED
      BY <1>1, <2>1, <2>2
  <1> QED
    BY <1>1, <1>2 DEF q

LEMMA DivisionGrows ==
    ASSUME NEW n \in Nat, NEW k \in Nat \ {0}
    PROVE  n \div k <= (n + 1) \div k
  <1> DEFINE p == (n + 1) \div k
  <1>1. p \in Nat /\ n + 1 < k * p + k
    BY Division
  <1> HIDE DEF p
  <1>2. n < (p + 1) * k
    BY <1>1
  <1> QED
    BY <1>1, <1>2, DivisionBelow DEF p

LEMMA TimeEnds == MaxTime \in Nat
  <1>1. MaxDay \in Nat /\ DayLen \in Nat \ {0}
    BY MailAssumption, DayLenPositive
  <1> DEFINE k == DayLen
             m == MaxDay * k
  <1>2. k \in Nat \ {0} /\ m \in Nat
    BY <1>1
  <1>3. (MaxDay + 1) * k = m + k
    BY <1>1
  <1>4. MaxTime = (MaxDay + 1) * k - 1
    BY DEF MaxTime
  <1> HIDE DEF k, m
  <1> QED
    BY <1>2, <1>3, <1>4

LEMMA Calendar ==
    ASSUME MailTyped
    PROVE  now \in Nat /\ Today \in Days /\ MaxDay \in Nat
  <1>1. MaxDay \in Nat /\ DayLen \in Nat \ {0}
    BY MailAssumption, DayLenPositive
  <1>2. (MaxDay + 1) * DayLen \in Nat
    BY <1>1
  <1> DEFINE end == (MaxDay + 1) * DayLen
  <1>3. now \in Nat /\ now < end
    <2> HIDE DEF end
    <2>1. now \in 0 .. end - 1 /\ end \in Nat
      BY <1>2 DEF MailTyped, MaxTime, end
    <2> QED
      BY <2>1
  <1>4. now \div DayLen \in Nat /\ now \div DayLen <= MaxDay
    BY <1>1, <1>3, Division, DivisionBelow
  <1> QED
    BY <1>1, <1>3, <1>4 DEF Today, Days

LEMMA Tomorrow ==
    ASSUME MailTyped, Pass
    PROVE  Today <= Today' /\ Today' \in Nat
  <1>1. Today' = (now + 1) \div DayLen
    BY DEF Pass, Today, DayLen
  <1>2. now \in Nat /\ now + 1 \in Nat
    BY Calendar
  <1> QED
    BY <1>1, <1>2, DayLenPositive, Division, DivisionGrows DEF Today

-----------------------------------------------------------------------------
(* How the steps move a sender.                                              *)

LEMMA IdleSender == Idle \in Sender /\ Idle.pc = "idle"
  <1>1. 0 \in Days
    BY MailAssumption DEF Days
  <1>2. 0 \in 0 .. MaxTime
    BY TimeEnds
  <1> QED
    BY <1>1, <1>2 DEF Idle, Sender

LEMMA SenderUpdate ==
    ASSUME MailTyped, NEW s \in Senders, NEW g \in Sender, sender' = [sender EXCEPT ![s] = g]
    PROVE  /\ sender' \in [Senders -> Sender] /\ sender'[s] = g
           /\ \A u \in Senders \ {s} : sender'[u] = sender[u]
  BY DEF MailTyped

LEMMA SenderFields ==
    ASSUME MailTyped, NEW s \in Senders
    PROVE  /\ sender[s] \in Sender /\ sender[s].pc \in {"idle", "build", "mark"}
           /\ sender[s].day \in Days
  BY DEF MailTyped, Sender

Moves(s, pc, day) ==
    /\ sender' \in [Senders -> Sender]
    /\ sender'[s].pc = pc /\ (pc # "idle" => sender'[s].day = day)
    /\ \A u \in Senders \ {s} : sender'[u] = sender[u]

LEMMA StartMoves ==
    ASSUME MailTyped, NEW s \in Senders, StartMail(s)
    PROVE  Moves(s, "build", Today)
  <1> DEFINE g == [pc |-> "build", day |-> Today, since |-> now]
  <1>1. g \in Sender /\ g.pc = "build" /\ g.day = Today
    BY Calendar DEF MailTyped, Sender
  <1>2. sender' = [sender EXCEPT ![s] = g]
    BY DEF StartMail
  <1> HIDE DEF g
  <1> QED
    BY <1>1, <1>2, SenderUpdate DEF Moves

LEMMA SlipTyped ==
    ASSUME MailTyped, NEW d \in Days, Slipped(d)
    PROVE  slips' \in [Days -> Nat]
  BY DEF MailTyped, Slipped

LEMMA StartSlips ==
    ASSUME MailTyped, NEW s \in Senders, StartMail(s)
    PROVE  slips' \in [Days -> Nat]
  <1>1. slips' = slips \/ Slipped(Today)
    BY DEF StartMail, Slipped
  <1> QED
    BY <1>1, Calendar, SlipTyped DEF MailTyped

LEMMA SendMoves ==
    ASSUME MailTyped, NEW s \in Senders, Send(s)
    PROVE  Moves(s, "mark", sender[s].day)
  <1> DEFINE g == [sender[s] EXCEPT !.pc = "mark"]
  <1>1. g \in Sender /\ g.pc = "mark" /\ g.day = sender[s].day
    BY SenderFields DEF Sender
  <1>2. sender' = [sender EXCEPT ![s] = g]
    BY DEF Send
  <1> HIDE DEF g
  <1> QED
    BY <1>1, <1>2, SenderUpdate DEF Moves

LEMMA ReturnMoves ==
    ASSUME MailTyped, NEW s \in Senders, sender' = [sender EXCEPT ![s] = Idle]
    PROVE  Moves(s, "idle", 0)
  BY IdleSender, SenderUpdate DEF Moves

-----------------------------------------------------------------------------
(* Type correctness.                                                         *)

LEMMA MailTypedInit == MailInit => MailTyped
  <1> SUFFICES ASSUME MailInit PROVE MailTyped
    OBVIOUS
  <1>1. MaxDay \in Nat /\ HourLen \in Nat \ {0} /\ DayHours \in Nat \ {0}
    BY MailAssumption
  <1>2. now \in 0 .. MaxTime
    <2> DEFINE m == MaxDay * DayLen
               w == (DayHours - 1) * HourLen
    <2>1. m \in Nat /\ w \in Nat
      BY <1>1, DayLenPositive
    <2>2. DayLen = w + HourLen
      BY <1>1 DEF DayLen
    <2>3. MaxTime = m + DayLen - 1
      BY <1>1, DayLenPositive DEF MaxTime
    <2>4. now \in 0 .. HourLen - 1
      BY DEF MailInit
    <2> HIDE DEF m, w
    <2> QED
      BY <1>1, <2>1, <2>2, <2>3, <2>4
  <1>3. sender \in [Senders -> Sender]
    BY IdleSender DEF MailInit
  <1> QED
    BY <1>1, <1>2, <1>3 DEF MailInit, MailTyped

LEMMA MailTypedStep == MailTyped /\ [Next]_vars => MailTyped'
  <1> SUFFICES ASSUME MailTyped, [Next]_vars PROVE MailTyped'
    OBVIOUS
  <1>1. ASSUME UNCHANGED mailVars
        PROVE  MailTyped'
    BY <1>1 DEF mailVars, MailTyped
  <1>2. ASSUME Look
        PROVE  MailTyped'
    <2>1. Today \in Days
      BY Calendar
    <2>2. sender' \in [Senders -> Sender] /\ slips' \in [Days -> Nat]
      BY <1>2, <2>1, StartMoves, StartSlips DEF Look, Moves, MailTyped, Senders
    <2> QED
      BY <1>2, <2>1, <2>2 DEF Look, MailTyped
  <1>3. ASSUME Manual
        PROVE  MailTyped'
    <2>1. Today \in Days
      BY Calendar
    <2>2. sender' \in [Senders -> Sender] /\ slips' \in [Days -> Nat]
      BY <1>3, <2>1, StartMoves, StartSlips DEF Manual, Moves, MailTyped, Senders
    <2> QED
      BY <1>3, <2>1, <2>2 DEF Manual, MailTyped
  <1>4. ASSUME NEW s \in Senders, MailFails(s)
        PROVE  MailTyped'
    BY <1>4, ReturnMoves, SenderFields DEF MailFails, Return, Moves, MailTyped
  <1>5. ASSUME NEW s \in Senders, Send(s)
        PROVE  MailTyped'
    <2>1. mails' \in [Days -> Nat]
      BY <1>5, SenderFields DEF Send, MailTyped
    <2> QED
      BY <1>5, <2>1, SendMoves DEF Send, Moves, MailTyped
  <1>6. ASSUME NEW s \in Senders, MarkSent(s)
        PROVE  MailTyped'
    <2>1. lastSent' \in 0 .. MaxDay + 1
      BY <1>6, SenderFields, MailAssumption DEF MarkSent, Days
    <2> QED
      BY <1>6, <2>1, ReturnMoves DEF MarkSent, Return, Moves, MailTyped
  <1>7. ASSUME Deploy
        PROVE  MailTyped'
    <2>1. "loop" \in Senders
      BY DEF Senders
    <2>2. sender["loop"].day \in Days
      BY <2>1, SenderFields
    <2>3. sender' \in [Senders -> Sender]
      BY <1>7, <2>1, ReturnMoves DEF Deploy, Moves
    <2>4. lastSent' \in 0 .. MaxDay + 1 /\ slips' \in [Days -> Nat]
      BY <1>7, <2>2, SlipTyped, MailAssumption DEF Deploy, CutShort, MailTyped
    <2> QED
      BY <1>7, <2>2, <2>3, <2>4 DEF Deploy, MailTyped
  <1>8. ASSUME Pass
        PROVE  MailTyped'
    <2>1. now' \in 0 .. MaxTime
      BY <1>8, Calendar, TimeEnds DEF Pass
    <2> QED
      BY <1>8, <2>1 DEF Pass, MailTyped
  <1>9. ASSUME NEW s \in Senders, MarkFails(s)
        PROVE  MailTyped'
    <2>1. lastSent' \in 0 .. MaxDay + 1 /\ slips' \in [Days -> Nat]
      BY <1>9, SenderFields, SlipTyped, MailAssumption DEF MarkFails, CutShort, MailTyped
    <2> QED
      BY <1>9, <2>1, ReturnMoves DEF MarkFails, Return, Moves, MailTyped
  <1> QED
    BY <1>1, <1>2, <1>3, <1>4, <1>5, <1>6, <1>7, <1>8, <1>9 DEF Next, Horizon, vars

-----------------------------------------------------------------------------
(* One mail a day. A day has as many mails begun as it has slips and one more *)
(* at most; when it has them all, nobody is at an earlier day, and its mark   *)
(* is there, or a sender of it is still under way, or the day is over.        *)

Building(s, d) == IF sender[s].pc = "build" /\ sender[s].day = d THEN 1 ELSE 0
Begun(d) == mails[d] + Building("loop", d) + Building("cli", d)
Active(s) == sender[s].pc # "idle"

Full(d) == Begun(d) = 1 + slips[d]

OneInv ==
    /\ \A s \in Senders : Active(s) => sender[s].day <= Today
    /\ \A d \in Days : d > Today => mails[d] = 0
    /\ \A d \in Days : Begun(d) <= 1 + slips[d]
    /\ \A d \in Days : Full(d) =>
         /\ \A s \in Senders : Active(s) => sender[s].day >= d
         /\ \/ Today > d
            \/ lastSent = d + 1
            \/ \E s \in Senders : Active(s) /\ sender[s].day = d

LEMMA BegunTyped ==
    ASSUME MailTyped, NEW d \in Days
    PROVE  /\ d \in Nat /\ mails[d] \in Nat /\ slips[d] \in Nat /\ Begun(d) \in Nat
           /\ mails[d] <= Begun(d)
           /\ \A s \in Senders : Building(s, d) \in {0, 1}
  BY DEF MailTyped, Days, Begun, Building, Senders

LEMMA BegunMoves ==
    ASSUME MailTyped, NEW s \in Senders, NEW pc, NEW e, Moves(s, pc, e), mails' = mails,
           NEW d \in Days
    PROVE  Begun(d)' = Begun(d) - Building(s, d) + (IF pc = "build" /\ e = d THEN 1 ELSE 0)
  <1>1. Building(s, d)' = IF pc = "build" /\ e = d THEN 1 ELSE 0
    BY DEF Moves, Building
  <1>2. \A u \in Senders \ {s} : Building(u, d)' = Building(u, d)
    BY DEF Moves, Building
  <1>3. mails[d] \in Nat /\ \A u \in Senders : Building(u, d) \in Nat /\ Building(u, d)' \in Nat
    BY BegunTyped DEF Building
  <1>4. CASE s = "loop"
    BY <1>1, <1>2, <1>3, <1>4 DEF Begun, Senders
  <1>5. CASE s = "cli"
    BY <1>1, <1>2, <1>3, <1>5 DEF Begun, Senders
  <1> QED
    BY <1>4, <1>5 DEF Senders

LEMMA OneInit == Init => OneInv
  <1> SUFFICES ASSUME Init PROVE OneInv
    OBVIOUS
  <1>1. \A s \in Senders : ~Active(s)
    BY DEF Init, MailInit, Idle, Active
  <1>2. \A d \in Days : mails[d] = 0 /\ slips[d] = 0 /\ Begun(d) = 0
    BY DEF Init, MailInit, Idle, Begun, Building, Senders
  <1> QED
    BY <1>1, <1>2 DEF OneInv, Full

\* A sender begins: beside another one, or when the mark says that the day has no mail.
LEMMA OneStart ==
    ASSUME MailTyped, OneInv, NEW s \in Senders, sender[s].pc = "idle",
           \E read \in Reads(s) : ~AlreadySent(Today, read),
           StartMail(s), UNCHANGED <<now, lastSent, mails>>
    PROVE  OneInv'
  <1> DEFINE others == \E u \in Senders \ {s} : Active(u)
  <1>1. Moves(s, "build", Today) /\ Today' = Today /\ Today \in Days /\ Today \in Nat
    BY StartMoves, Calendar DEF Today, Days
  <1>2. slips' = IF others THEN [slips EXCEPT ![Today] = @ + 1] ELSE slips
    BY DEF StartMail, Active
  <1>3. others \/ lastSent # Today + 1
    BY DEF Reads, AlreadySent, Active
  <1>4. /\ \A u \in Senders : Active(u)' <=> u = s \/ Active(u)
        /\ sender'[s].day = Today
        /\ \A u \in Senders \ {s} : sender'[u] = sender[u]
    BY <1>1 DEF Moves, Active
  <1> HIDE DEF others
  <1>5. ASSUME NEW d \in Days
        PROVE  Begun(d)' = Begun(d) + (IF d = Today THEN 1 ELSE 0)
    <2>1. Building(s, d) = 0
      BY DEF Building
    <2> QED
      BY <1>1, <2>1, BegunMoves, BegunTyped
  <1>6. ASSUME NEW d \in Days
        PROVE  /\ Begun(d)' <= 1 + slips'[d]
               /\ Full(d)' =>
                    /\ \A u \in Senders : Active(u)' => sender'[u].day >= d
                    /\ \/ Today > d
                       \/ lastSent' = d + 1
                       \/ \E u \in Senders : Active(u)' /\ sender'[u].day = d
    <2>1. d \in Nat /\ Begun(d) \in Nat /\ slips[d] \in Nat /\ Begun(d) <= 1 + slips[d]
      BY BegunTyped DEF OneInv
    <2>2. CASE d # Today
      <3>1. Begun(d)' = Begun(d) /\ slips'[d] = slips[d]
        BY <1>1, <1>2, <1>5, <2>1, <2>2 DEF MailTyped
      <3>2. ASSUME Full(d)
            PROVE  Today > d /\ \A u \in Senders : Active(u) => sender[u].day >= d
        <4>1. \A u \in Senders : Active(u) => sender[u].day >= d
          BY <3>2 DEF OneInv
        <4>2. ASSUME d > Today
              PROVE  FALSE
          <5>1. mails[d] = 0 /\ \A u \in Senders : Building(u, d) = 0
            BY <1>1, <4>2, <2>1, SenderFields DEF OneInv, Building, Active, Days
          <5>2. Begun(d) = 0
            BY <5>1 DEF Begun, Senders
          <5> QED
            BY <2>1, <3>2, <5>2 DEF Full
        <4> QED
          BY <1>1, <2>1, <2>2, <4>1, <4>2
      <3>3. Full(d)' <=> Full(d)
        BY <3>1 DEF Full
      <3> QED
        BY <1>1, <1>4, <2>1, <3>1, <3>2, <3>3
    <2>3. CASE d = Today
      <3>1. Begun(d)' = Begun(d) + 1
        BY <1>5, <2>3
      <3>2. CASE others
        <4>1. slips'[d] = slips[d] + 1
          BY <1>2, <2>3, <3>2 DEF MailTyped
        <4>2. Full(d)' <=> Full(d)
          BY <2>1, <3>1, <4>1 DEF Full
        <4>3. Full(d) => \A u \in Senders : Active(u) => sender[u].day >= d
          BY DEF OneInv
        <4> QED
          BY <1>4, <2>1, <2>3, <3>1, <4>1, <4>2, <4>3
      <3>3. CASE ~others
        <4>1. slips' = slips /\ \A u \in Senders : ~Active(u)
          BY <1>2, <3>3 DEF others, Active
        <4>2. ~Full(d)
          BY <1>1, <1>3, <2>3, <3>3, <4>1 DEF OneInv
        <4> QED
          BY <1>4, <2>1, <2>3, <3>1, <4>1, <4>2 DEF Full
      <3> QED
        BY <3>2, <3>3
    <2> QED
      BY <2>2, <2>3
  <1>7. \A u \in Senders : Active(u)' => sender'[u].day <= Today
    BY <1>1, <1>4 DEF OneInv
  <1> QED
    BY <1>1, <1>6, <1>7 DEF OneInv

\* A sender ends: before its mail, with its mark, or with a slip between the two.
LEMMA OneEnd ==
    ASSUME MailTyped, OneInv, NEW s \in Senders, Moves(s, "idle", 0), UNCHANGED <<now, mails>>,
           \/ sender[s].pc # "mark" /\ UNCHANGED <<lastSent, slips>>
           \/ sender[s].pc = "mark" /\ lastSent' = sender[s].day + 1 /\ slips' = slips
           \/ sender[s].pc = "mark" /\ CutShort /\ Slipped(sender[s].day)
    PROVE  OneInv'
  <1> DEFINE e == sender[s].day
  <1>1. Today' = Today /\ Today \in Nat /\ e \in Days /\ e \in Nat
    BY Calendar, SenderFields DEF Today, Days
  <1>2. /\ ~Active(s)'
        /\ \A u \in Senders \ {s} : sender'[u] = sender[u] /\ (Active(u)' <=> Active(u))
    BY DEF Moves, Active
  <1>3. ASSUME NEW d \in Days
        PROVE  /\ Begun(d)' = Begun(d) - Building(s, d) /\ Begun(d) \in Nat /\ d \in Nat
               /\ slips[d] \in Nat /\ Building(s, d) \in {0, 1} /\ Begun(d) <= 1 + slips[d]
               /\ slips'[d] = slips[d] \/ slips'[d] = slips[d] + 1
    <2>1. Begun(d)' = Begun(d) - Building(s, d)
      BY BegunMoves, BegunTyped
    <2>2. slips'[d] = slips[d] \/ slips'[d] = slips[d] + 1
      BY <1>1 DEF Slipped, MailTyped
    <2> QED
      BY <2>1, <2>2, BegunTyped DEF OneInv
  <1>4. ASSUME NEW d \in Days, Full(d)'
        PROVE  /\ \A u \in Senders : Active(u)' => sender'[u].day >= d
               /\ \/ Today > d
                  \/ lastSent' = d + 1
                  \/ \E u \in Senders : Active(u)' /\ sender'[u].day = d
    <2>1. Full(d) /\ Building(s, d) = 0 /\ slips'[d] = slips[d]
      BY <1>3, <1>4 DEF Full
    <2>2. /\ \A u \in Senders : Active(u) => sender[u].day >= d
          /\ \/ Today > d
             \/ lastSent = d + 1
             \/ \E u \in Senders : Active(u) /\ sender[u].day = d
      BY <2>1 DEF OneInv
    <2>3. sender[s].pc # "build" \/ e # d
      BY <2>1 DEF Building
    <2>4. Active(s) => e <= Today
      BY DEF OneInv
    <2>5. CASE sender[s].pc # "mark" /\ UNCHANGED <<lastSent, slips>>
      <3>1. ~(Active(s) /\ e = d)
        BY <2>3, <2>5, SenderFields DEF Active
      <3> QED
        BY <1>2, <2>2, <2>5, <3>1
    <2>6. CASE sender[s].pc = "mark" /\ lastSent' = e + 1
      <3>1. Active(s)
        BY <2>6 DEF Active
      <3>2. e >= d /\ e <= Today
        BY <2>2, <2>4, <3>1
      <3>3. Today > d \/ lastSent' = d + 1
        BY <1>1, <1>3, <2>6, <3>2
      <3> QED
        BY <1>2, <2>2, <3>3
    <2>7. CASE sender[s].pc = "mark" /\ Slipped(e)
      <3>1. Active(s) /\ d # e
        BY <1>1, <1>3, <2>1, <2>7 DEF Active, Slipped, MailTyped
      <3>2. e >= d /\ e <= Today
        BY <2>2, <2>4, <3>1
      <3> QED
        BY <1>1, <1>2, <1>3, <2>2, <3>1, <3>2
    <2> QED
      BY <2>5, <2>6, <2>7
  <1>5. \A d \in Days : Begun(d)' <= 1 + slips'[d]
    BY <1>3
  <1>6. \A u \in Senders : Active(u)' => sender'[u].day <= Today
    BY <1>2 DEF OneInv
  <1> QED
    BY <1>1, <1>4, <1>5, <1>6 DEF OneInv

\* What was begun is mailed.
LEMMA OneSend ==
    ASSUME MailTyped, OneInv, NEW s \in Senders, Send(s)
    PROVE  OneInv'
  <1> DEFINE e == sender[s].day
  <1>1. /\ Moves(s, "mark", e) /\ e \in Days /\ sender[s].pc = "build"
        /\ Today' = Today /\ UNCHANGED <<lastSent, slips>>
    BY SendMoves, SenderFields DEF Send, Today
  <1>2. \A u \in Senders : (Active(u)' <=> Active(u)) /\ sender'[u].day = sender[u].day
    BY <1>1 DEF Moves, Active
  <1>3. \A d \in Days : mails'[d] = mails[d] + (IF d = e THEN 1 ELSE 0)
    BY <1>1, BegunTyped DEF Send, MailTyped
  <1>4. /\ \A d \in Days : Building(s, d) = (IF d = e THEN 1 ELSE 0) /\ Building(s, d)' = 0
        /\ \A d \in Days, u \in Senders \ {s} : Building(u, d)' = Building(u, d)
    BY <1>1 DEF Moves, Building
  <1>5. ASSUME NEW d \in Days
        PROVE  Begun(d)' = Begun(d)
    <2>1. mails[d] \in Nat /\ \A u \in Senders : Building(u, d) \in {0, 1}
      BY BegunTyped
    <2>2. CASE s = "loop"
      BY <1>3, <1>4, <2>1, <2>2 DEF Begun, Senders
    <2>3. CASE s = "cli"
      BY <1>3, <1>4, <2>1, <2>3 DEF Begun, Senders
    <2> QED
      BY <2>2, <2>3 DEF Senders
  <1>6. ASSUME NEW d \in Days, d > Today
        PROVE  mails'[d] = 0
    <2>1. e <= Today /\ e \in Nat /\ Today \in Nat
      BY <1>1, Calendar DEF OneInv, Active, Days
    <2>2. d # e /\ mails[d] = 0
      BY <1>6, <2>1 DEF OneInv, Days
    <2> QED
      BY <1>3, <2>2
  <1>7. \A d \in Days : Full(d)' <=> Full(d)
    BY <1>1, <1>5 DEF Full
  <1> QED
    BY <1>1, <1>2, <1>5, <1>6, <1>7 DEF OneInv

LEMMA OneStep == MailTyped /\ OneInv /\ [Next]_vars => OneInv'
  <1> SUFFICES ASSUME MailTyped, OneInv, [Next]_vars PROVE OneInv'
    OBVIOUS
  <1>1. ASSUME UNCHANGED <<now, sender, lastSent, mails, slips>>
        PROVE  OneInv'
    BY <1>1 DEF OneInv, Today, Full, Begun, Building, Active
  <1>2. "loop" \in Senders /\ "cli" \in Senders
    BY DEF Senders
  <1>3. ASSUME Look
        PROVE  OneInv'
    BY <1>1, <1>2, <1>3, OneStart DEF Look
  <1>4. ASSUME Manual
        PROVE  OneInv'
    BY <1>2, <1>4, OneStart DEF Manual
  <1>5. ASSUME NEW s \in Senders, MailFails(s)
        PROVE  OneInv'
    BY <1>5, ReturnMoves, OneEnd DEF MailFails, Return
  <1>6. ASSUME NEW s \in Senders, Send(s)
        PROVE  OneInv'
    BY <1>6, OneSend
  <1>7. ASSUME NEW s \in Senders, MarkSent(s)
        PROVE  OneInv'
    BY <1>7, ReturnMoves, OneEnd DEF MarkSent, Return
  <1>8. ASSUME NEW s \in Senders, MarkFails(s)
        PROVE  OneInv'
    BY <1>8, ReturnMoves, OneEnd DEF MarkFails, Return
  <1>9. ASSUME Deploy
        PROVE  OneInv'
    <2>1. Moves("loop", "idle", 0)
      BY <1>2, <1>9, ReturnMoves DEF Deploy
    <2> QED
      BY <1>2, <1>9, <2>1, OneEnd DEF Deploy
  <1>10. ASSUME Pass
         PROVE  OneInv'
    <2>1. Today <= Today' /\ Today \in Nat /\ Today' \in Nat
      BY <1>10, Tomorrow, Calendar DEF Days
    <2>2. UNCHANGED <<sender, lastSent, mails, slips>>
      BY <1>10 DEF Pass
    <2>3. \A d \in Days : Begun(d)' = Begun(d) /\ (Full(d)' <=> Full(d)) /\ d \in Nat
      BY <2>2 DEF Full, Begun, Building, Days
    <2>4. \A s \in Senders : (Active(s)' <=> Active(s)) /\ sender[s].day \in Nat
      BY <2>2, SenderFields DEF Active, Days
    <2>5. \A s \in Senders : Active(s)' => sender'[s].day <= Today'
      BY <2>1, <2>2, <2>4 DEF OneInv
    <2>6. \A d \in Days : d > Today' => mails'[d] = 0
      BY <2>1, <2>2, <2>3 DEF OneInv
    <2>7. ASSUME NEW d \in Days, Full(d)'
          PROVE  /\ \A s \in Senders : Active(s)' => sender'[s].day >= d
                 /\ \/ Today' > d
                    \/ lastSent' = d + 1
                    \/ \E s \in Senders : Active(s)' /\ sender'[s].day = d
      <3>1. Full(d) /\ (Today > d => Today' > d)
        BY <2>1, <2>3, <2>7
      <3> QED
        BY <2>2, <2>4, <3>1 DEF OneInv
    <2> QED
      BY <2>2, <2>3, <2>5, <2>6, <2>7 DEF OneInv
  <1> QED
    BY <1>1, <1>3, <1>4, <1>5, <1>6, <1>7, <1>8, <1>9, <1>10 DEF Next, Horizon, vars, mailVars

\* "one per day": however looks, operators, failures and deploys interleave, a day has one
\* mail and at most one more for each start beside another sender and each mail left
\* without its mark, by a deploy or a failed write.
THEOREM MailedOnce == Spec => []OneMailPerDay
  <1>1. Init => MailTyped /\ OneInv
    BY MailTypedInit, OneInit DEF Init
  <1>2. MailTyped /\ OneInv /\ [Next]_vars => (MailTyped /\ OneInv)'
    BY MailTypedStep, OneStep
  <1>3. MailTyped /\ OneInv => OneMailPerDay
    <2>1. ASSUME MailTyped, OneInv, NEW d \in Days
          PROVE  mails[d] <= 1 + slips[d]
      BY <2>1, BegunTyped DEF OneInv
    <2> QED
      BY <2>1 DEF OneMailPerDay
  <1> QED
    BY <1>1, <1>2, <1>3, PTL DEF Spec

-----------------------------------------------------------------------------
(* The mail of a day the loop has looked at. The mark stands for a mail.     *)

DayInv ==
    /\ \A d \in Days : lastSent = d + 1 => mails[d] >= 1
    /\ \A s \in Senders : sender[s].pc = "mark" => mails[sender[s].day] >= 1
    /\ \A d \in due \ excused :
         mails[d] >= 1 \/ (sender["loop"].pc = "build" /\ sender["loop"].day = d)

LEMMA DayInit == Init => DayInv
  BY DEF Init, MailInit, DayInv, Idle, Days

LEMMA DayStep == MailTyped /\ DayInv /\ [Next]_vars => DayInv'
  <1> SUFFICES ASSUME MailTyped, DayInv, [Next]_vars PROVE DayInv'
    OBVIOUS
  <1>1. ASSUME UNCHANGED <<sender, lastSent, mails, due, excused>>
        PROVE  DayInv'
    BY <1>1 DEF DayInv
  <1>2. "loop" \in Senders /\ "cli" \in Senders /\ Today \in Days
    BY Calendar DEF Senders
  <1>3. ASSUME Look
        PROVE  DayInv'
    <2>1. UNCHANGED <<lastSent, mails, excused>> /\ sender["loop"].pc = "idle"
      BY <1>3 DEF Look
    <2>2. CASE StartMail("loop") /\ (due' = due \/ due' = due \cup {Today})
      <3>1. Moves("loop", "build", Today)
        BY <1>2, <2>2, StartMoves
      <3> QED
        BY <2>1, <2>2, <3>1 DEF Moves, DayInv
    <2>3. CASE sender' = sender /\ due' = due \cup {Today}
               /\ \E read \in Reads("loop") : AlreadySent(Today, read)
      <3>1. AlreadySent(Today, lastSent)
        BY <1>2, <2>3 DEF Reads, AlreadySent, Days
      <3> QED
        BY <1>2, <2>1, <2>3, <3>1 DEF DayInv, AlreadySent
    <2> QED
      BY <1>1, <1>3, <2>1, <2>2, <2>3 DEF Look
  <1>4. ASSUME Manual
        PROVE  DayInv'
    <2>1. Moves("cli", "build", Today)
      BY <1>2, <1>4, StartMoves DEF Manual
    <2> QED
      BY <1>2, <1>4, <2>1 DEF Manual, Moves, DayInv
  <1>5. ASSUME NEW s \in Senders, MailFails(s)
        PROVE  DayInv'
    <2>1. Moves(s, "idle", 0)
      BY <1>5, ReturnMoves DEF MailFails, Return
    <2> QED
      BY <1>2, <1>5, <2>1 DEF MailFails, Moves, DayInv
  <1>6. ASSUME NEW s \in Senders, Send(s)
        PROVE  DayInv'
    <2> DEFINE e == sender[s].day
    <2>1. Moves(s, "mark", e) /\ e \in Days
      BY <1>6, SendMoves, SenderFields
    <2>2. /\ mails'[e] >= 1
          /\ \A d \in Days : mails[d] >= 1 => mails'[d] >= 1
      BY <1>6, <2>1 DEF Send, MailTyped
    <2>3. UNCHANGED <<lastSent, due, excused>>
      BY <1>6 DEF Send
    <2>4. \A u \in Senders : sender'[u].pc = "mark" => mails'[sender'[u].day] >= 1
      BY <2>1, <2>2, SenderFields DEF Moves, DayInv
    <2>5. ASSUME NEW d \in due \ excused
          PROVE  mails'[d] >= 1 \/ (sender'["loop"].pc = "build" /\ sender'["loop"].day = d)
      <3>1. d \in Days
        BY DEF MailTyped
      <3>2. CASE mails[d] >= 1
        BY <2>2, <3>1, <3>2
      <3>3. CASE sender["loop"].pc = "build" /\ sender["loop"].day = d
        BY <1>2, <2>1, <2>2, <3>3 DEF Moves
      <3> QED
        BY <3>2, <3>3 DEF DayInv
    <2> QED
      BY <2>2, <2>3, <2>4, <2>5 DEF DayInv
  <1>7. ASSUME NEW s \in Senders, MarkSent(s)
        PROVE  DayInv'
    <2>1. Moves(s, "idle", 0) /\ sender[s].pc = "mark" /\ sender[s].day \in Days
      BY <1>7, ReturnMoves, SenderFields DEF MarkSent, Return
    <2>2. UNCHANGED <<mails, due, excused>> /\ lastSent' = sender[s].day + 1
      BY <1>7 DEF MarkSent
    <2>3. \A d \in Days : lastSent' = d + 1 => mails'[d] >= 1
      <3>1. mails[sender[s].day] >= 1 /\ sender[s].day \in Nat
        BY <2>1 DEF DayInv, Days
      <3> QED
        BY <2>2, <3>1 DEF Days
    <2> QED
      BY <1>2, <2>1, <2>2, <2>3 DEF Moves, DayInv
  <1>8. ASSUME NEW s \in Senders, Moves(s, "idle", 0), CutShort, UNCHANGED <<mails, due>>,
               excused \subseteq excused',
               s = "loop" /\ sender[s].pc = "build" => sender[s].day \in excused'
        PROVE  DayInv'
    <2>1. \A d \in Days : lastSent' = d + 1 => mails[d] >= 1
      BY <1>8 DEF CutShort, DayInv, Days
    <2> QED
      BY <1>2, <1>8, <2>1 DEF Moves, DayInv
  <1>9. ASSUME NEW s \in Senders, MarkFails(s)
        PROVE  DayInv'
    BY <1>8, <1>9, ReturnMoves DEF MarkFails, Return
  <1>10. ASSUME Deploy
         PROVE  DayInv'
    <2>1. Moves("loop", "idle", 0) /\ CutShort
      BY <1>2, <1>10, ReturnMoves DEF Deploy, CutShort
    <2> QED
      BY <1>2, <1>8, <1>10, <2>1 DEF Deploy
  <1> QED
    BY <1>1, <1>3, <1>4, <1>5, <1>6, <1>7, <1>9, <1>10 DEF Next, Horizon, Pass, vars, mailVars

\* "emailed once per day": a day the loop has looked at in its hour has its mail by the
\* time the loop sleeps again, unless sending failed or a deploy cut it short.
THEOREM DueDaysAreMailed == Spec => []DayIsMailed
  <1>1. Init => MailTyped /\ DayInv
    BY MailTypedInit, DayInit DEF Init
  <1>2. MailTyped /\ DayInv /\ [Next]_vars => (MailTyped /\ DayInv)'
    BY MailTypedStep, DayStep
  <1>3. DayInv => DayIsMailed
    BY DEF DayInv, DayIsMailed
  <1> QED
    BY <1>1, <1>2, <1>3, PTL DEF Spec

-----------------------------------------------------------------------------
(* The switches.                                                             *)

LEMMA NoInode == None \notin Inodes
  BY DEF None, Inodes

LEMMA Documents ==
    /\ Default \in Flags /\ Truncated \in Document /\ ~Truncated.json
    /\ \A f \in Flags : Json(f) \in Document /\ Json(f).json /\ Json(f).flags = f
  BY RegistryAssumption DEF Flags, Truncated, Document, Json

LEMMA SchedulesTyped == RegistryTypeOK => Schedules \in Flags
  BY Documents DEF RegistryTypeOK, Schedules, Document

LEMMA RequestFields ==
    ASSUME RegistryTypeOK, NEW r \in Requests
    PROVE  /\ request[r] \in Request /\ request[r].flags \in Flags /\ request[r].loop \in Loops
           /\ request[r].on \in BOOLEAN /\ request[r].inode \in Inodes \cup {None}
           /\ request[r].pc \in {"idle", "read", "opened", "filled"}
  BY DEF RegistryTypeOK, Request

\* What a step does to the request it is about.
Becomes(r, pc, inode) ==
    /\ request' \in [Requests -> Request]
    /\ request'[r].pc = pc /\ request'[r].inode = inode
    /\ request'[r].flags = request[r].flags /\ request'[r].loop = request[r].loop
    /\ request'[r].on = request[r].on
    /\ \A s \in Requests \ {r} : request'[s] = request[s]

LEMMA RequestBecomes ==
    ASSUME RegistryTypeOK, NEW r \in Requests,
           NEW pc \in {"idle", "read", "opened", "filled"}, NEW inode \in Inodes \cup {None},
           request' = [request EXCEPT ![r] = [request[r] EXCEPT !.pc = pc, !.inode = inode]]
    PROVE  Becomes(r, pc, inode)
  <1> DEFINE g == [request[r] EXCEPT !.pc = pc, !.inode = inode]
  <1>1. g \in Request /\ g.pc = pc /\ g.inode = inode
    BY RequestFields DEF Request
  <1>2. g.flags = request[r].flags /\ g.loop = request[r].loop /\ g.on = request[r].on
    BY RequestFields DEF Request
  <1>3. request' = [request EXCEPT ![r] = g] /\ request \in [Requests -> Request]
    BY DEF RegistryTypeOK
  <1> HIDE DEF g
  <1> QED
    BY <1>1, <1>2, <1>3 DEF Becomes

LEMMA OpenBecomes ==
    ASSUME RegistryTypeOK, NEW r \in Requests, Open(r)
    PROVE  \E i \in Inodes :
             /\ Becomes(r, "opened", i) /\ tmp' = i /\ content' = [content EXCEPT ![i] = Truncated]
             /\ IF tmp # None THEN i = tmp ELSE Free(i)
  <1>1. PICK i \in Inodes :
          /\ IF tmp # None THEN i = tmp ELSE Free(i)
          /\ tmp' = i /\ content' = [content EXCEPT ![i] = Truncated]
          /\ request' = [request EXCEPT ![r].pc = "opened", ![r].inode = i]
    BY DEF Open, Target
  <1>2. request' = [request EXCEPT ![r] = [request[r] EXCEPT !.pc = "opened", !.inode = i]]
    BY <1>1 DEF RegistryTypeOK
  <1> QED
    BY <1>1, <1>2, RequestBecomes

LEMMA FillBecomes ==
    ASSUME RegistryTypeOK, NEW r \in Requests, Fill(r)
    PROVE  Becomes(r, "filled", request[r].inode)
  <1> DEFINE g == [request[r] EXCEPT !.pc = "filled"]
  <1>1. g \in Request /\ g.pc = "filled" /\ g.inode = request[r].inode
    BY RequestFields DEF Request
  <1>2. g.flags = request[r].flags /\ g.loop = request[r].loop /\ g.on = request[r].on
    BY RequestFields DEF Request
  <1>3. request' = [request EXCEPT ![r] = g] /\ request \in [Requests -> Request]
    BY DEF Fill, RegistryTypeOK
  <1> HIDE DEF g
  <1> QED
    BY <1>1, <1>2, <1>3 DEF Becomes

LEMMA AnsweredBecomes ==
    ASSUME RegistryTypeOK, NEW r \in Requests, Answered(r)
    PROVE  Becomes(r, "idle", None)
  <1>1. request' = [request EXCEPT ![r] = [request[r] EXCEPT !.pc = "idle", !.inode = None]]
    BY DEF Answered, RegistryTypeOK
  <1> QED
    BY <1>1, RequestBecomes

ReadTo(r, l, on) ==
    /\ request' \in [Requests -> Request]
    /\ request'[r].pc = "read" /\ request'[r].flags = Toggled(l, on)
    /\ request'[r].loop = l /\ request'[r].on = on /\ request'[r].inode = None
    /\ \A s \in Requests \ {r} : request'[s] = request[s]

LEMMA ReadBecomes ==
    ASSUME RegistryTypeOK, NEW r \in Requests, NEW l \in Loops, NEW on \in BOOLEAN,
           ReadSchedules(r, l, on)
    PROVE  ReadTo(r, l, on)
  <1> DEFINE g == [pc |-> "read", loop |-> l, on |-> on, flags |-> Toggled(l, on), inode |-> None]
  <1>1. Toggled(l, on) \in Flags
    BY SchedulesTyped DEF Toggled, Flags
  <1>2. g \in Request /\ g.pc = "read" /\ g.flags = Toggled(l, on) /\ g.loop = l /\ g.on = on
        /\ g.inode = None
    BY <1>1 DEF Request
  <1>3. request' = [request EXCEPT ![r] = g] /\ request \in [Requests -> Request]
    BY DEF ReadSchedules, RegistryTypeOK
  <1> HIDE DEF g
  <1> QED
    BY <1>2, <1>3 DEF ReadTo

LEMMA KillBecomes ==
    ASSUME RegistryTypeOK, KillRequests
    PROVE  request' \in [Requests -> Request] /\ \A r \in Requests : request'[r].pc = "idle"
  <1>1. ASSUME NEW r \in Requests
        PROVE  [request[r] EXCEPT !.pc = "idle", !.inode = None] \in Request
    BY RequestFields DEF Request
  <1>2. ASSUME NEW r \in Requests
        PROVE  [request[r] EXCEPT !.pc = "idle", !.inode = None].pc = "idle"
    BY RequestFields DEF Request
  <1> QED
    BY <1>1, <1>2 DEF KillRequests

LEMMA RegistryTypeInit == RegistryInit => RegistryTypeOK
  <1> SUFFICES ASSUME RegistryInit PROVE RegistryTypeOK
    OBVIOUS
  <1>1. (CHOOSE l \in Loops : TRUE) \in Loops
    BY MailAssumption
  <1>2. request \in [Requests -> Request]
    BY <1>1, Documents DEF RegistryInit, Request
  <1> QED
    BY <1>2, Documents, RegistryAssumption DEF RegistryInit, RegistryTypeOK

LEMMA RegistryTypeStep == RegistryTypeOK /\ [Next]_vars => RegistryTypeOK'
  <1> SUFFICES ASSUME RegistryTypeOK, [Next]_vars PROVE RegistryTypeOK'
    OBVIOUS
  <1>1. ASSUME UNCHANGED registryVars
        PROVE  RegistryTypeOK'
    BY <1>1 DEF registryVars, RegistryTypeOK
  <1>2. ASSUME NEW r \in Requests, NEW l \in Loops, NEW on \in BOOLEAN, ReadSchedules(r, l, on)
        PROVE  RegistryTypeOK'
    <2>1. request' \in [Requests -> Request]
      BY <1>2, ReadBecomes DEF ReadTo
    <2>2. toggles' \in 0 .. MaxToggles
      BY <1>2, RegistryAssumption DEF ReadSchedules, RegistryTypeOK
    <2> QED
      BY <1>2, <2>1, <2>2 DEF ReadSchedules, RegistryTypeOK
  <1>3. ASSUME NEW r \in Requests, Open(r)
        PROVE  RegistryTypeOK'
    <2>1. PICK i \in Inodes : /\ Becomes(r, "opened", i) /\ tmp' = i
                              /\ content' = [content EXCEPT ![i] = Truncated]
      BY <1>3, OpenBecomes
    <2> QED
      BY <1>3, <2>1, Documents DEF Open, Becomes, RegistryTypeOK
  <1>4. ASSUME NEW r \in Requests, Fill(r)
        PROVE  RegistryTypeOK'
    <2>1. request' \in [Requests -> Request]
      BY <1>4, FillBecomes DEF Becomes
    <2>2. PICK c \in {Json(request[r].flags), Truncated} : content' = [content EXCEPT ![request[r].inode] = c]
      BY <1>4 DEF Fill
    <2>3. content' \in [Inodes -> Document]
      BY <2>2, Documents, RequestFields DEF RegistryTypeOK
    <2> QED
      BY <1>4, <2>1, <2>3 DEF Fill, RegistryTypeOK
  <1>5. ASSUME NEW r \in Requests, Replace(r)
        PROVE  RegistryTypeOK'
    <2>1. request' \in [Requests -> Request]
      BY <1>5, AnsweredBecomes DEF Replace, Becomes
    <2>2. wanted' \in Flags /\ sure' \subseteq Loops
      BY <1>5, RequestFields DEF Replace, RegistryTypeOK, Flags
    <2>3. {doc', tmp'} \subseteq Inodes \cup {None}
      BY <1>5 DEF Replace, RegistryTypeOK
    <2> QED
      BY <1>5, <2>1, <2>2, <2>3 DEF Replace, RegistryTypeOK
  <1>6. ASSUME KillRequests
        PROVE  RegistryTypeOK'
    BY <1>6, KillBecomes DEF KillRequests, RegistryTypeOK
  <1>7. ASSUME RegistryNext
        PROVE  RegistryTypeOK'
    BY <1>2, <1>3, <1>4, <1>5, <1>7 DEF RegistryNext
  <1> QED
    BY <1>1, <1>6, <1>7 DEF Next, Horizon, vars, Look, Manual, MailFails, Send, MarkSent, MarkFails, Deploy, Pass

\* Every variable of the registry and of the mail loop keeps its type.
THEOREM TypesCorrect == Spec => [](RegistryTypeOK /\ MailTypeOK)
  <1>1. Init => RegistryTypeOK /\ MailTyped
    BY RegistryTypeInit, MailTypedInit DEF Init
  <1>2. RegistryTypeOK /\ MailTyped /\ [Next]_vars => (RegistryTypeOK /\ MailTyped)'
    BY RegistryTypeStep, MailTypedStep
  <1>3. MailTyped => MailTypeOK
    BY DEF MailTyped, MailTypeOK, Sender
  <1> QED
    BY <1>1, <1>2, <1>3, PTL DEF Spec

-----------------------------------------------------------------------------
(* A request that is alone writes what it read, changed by its toggle: the   *)
(* temporary file is its own, whatever crossed before it.                    *)

Opener(r) == request[r].pc \in {"opened", "filled"}

\* Another writer than r has the temporary file open.
Shared(r) == \E s \in Requests \ {r} : Opener(s) /\ request[s].inode = tmp

SwitchInv ==
    /\ doc # None => doc # tmp
    /\ \A r, s \in InFlight : r # s => sure = {}
    /\ \A r \in InFlight : /\ request[r].flags[request[r].loop] = request[r].on
                           /\ \A l \in sure \ {request[r].loop} : request[r].flags[l] = wanted[l]
    /\ \A r \in Requests : Opener(r) =>
         /\ request[r].inode # None
         /\ request[r].inode = doc => sure = {}
         /\ tmp # None => request[r].inode = tmp \/ Shared(r)
         /\ tmp = request[r].inode /\ content[tmp].json /\ request[r].pc = "opened" => Shared(r)
         /\ tmp = request[r].inode /\ request[r].pc = "filled" =>
              content[tmp] = Json(request[r].flags) \/ Shared(r)
    /\ SwitchesHold

LEMMA SwitchInit == Init => SwitchInv
  BY DEF Init, RegistryInit, SwitchInv, InFlight, Opener, SwitchesHold, IsEnabled, Schedules

LEMMA SwitchRead ==
    ASSUME RegistryTypeOK, SwitchInv, NEW r \in Requests, NEW l \in Loops, NEW on \in BOOLEAN,
           ReadSchedules(r, l, on)
    PROVE  SwitchInv'
  <1>1. ReadTo(r, l, on) /\ request[r].pc = "idle" /\ UNCHANGED <<doc, tmp, content, wanted>>
    BY ReadBecomes DEF ReadSchedules
  <1>2. sure' = IF InFlight = {} THEN sure ELSE {}
    BY DEF ReadSchedules
  <1>3. InFlight' = InFlight \cup {r} /\ r \notin InFlight
    BY <1>1 DEF ReadTo, InFlight
  <1>4. Toggled(l, on)[l] = on /\ \A m \in Loops \ {l} : Toggled(l, on)[m] = Schedules[m]
    BY SchedulesTyped DEF Toggled, Flags
  <1>5. \A m \in sure : Schedules[m] = wanted[m] /\ m \in Loops
    BY DEF SwitchInv, SwitchesHold, IsEnabled, RegistryTypeOK
  <1>6. \A s \in InFlight' : /\ request'[s].flags[request'[s].loop] = request'[s].on
                             /\ \A m \in sure' \ {request'[s].loop} : request'[s].flags[m] = wanted'[m]
    <2>1. ASSUME NEW s \in InFlight', s = r
          PROVE  /\ request'[s].flags[request'[s].loop] = request'[s].on
                 /\ \A m \in sure' \ {request'[s].loop} : request'[s].flags[m] = wanted'[m]
      BY <1>1, <1>2, <1>4, <1>5, <2>1 DEF ReadTo
    <2>2. ASSUME NEW s \in InFlight', s # r
          PROVE  /\ request'[s].flags[request'[s].loop] = request'[s].on
                 /\ \A m \in sure' \ {request'[s].loop} : request'[s].flags[m] = wanted'[m]
      BY <1>1, <1>2, <1>3, <2>2 DEF ReadTo, SwitchInv, InFlight
    <2> QED
      BY <2>1, <2>2
  <1>7. \A s \in Requests : Opener(s)' => Opener(s) /\ request'[s] = request[s]
    BY <1>1 DEF ReadTo, Opener
  <1>8. \A s \in Requests : Opener(s) => Opener(s)' /\ request'[s] = request[s] /\ s # r
    BY <1>1 DEF ReadTo, Opener
  <1>9. \A s \in Requests : Shared(s) => Shared(s)'
    BY <1>1, <1>8 DEF Shared
  <1>10. SwitchesHold'
    BY <1>1, <1>2 DEF SwitchInv, SwitchesHold, IsEnabled, Schedules
  <1> QED
    BY <1>1, <1>2, <1>3, <1>6, <1>7, <1>9, <1>10 DEF SwitchInv

\* What opening and filling the file have in common.
LEMMA SwitchWrite ==
    ASSUME RegistryTypeOK, SwitchInv, NEW r \in Requests, r \in InFlight,
           NEW pc \in {"opened", "filled"}, NEW i \in Inodes, Becomes(r, pc, i),
           i = doc => sure = {}, UNCHANGED <<doc, wanted, sure>>,
           \A j \in Inodes \ {i} : content'[j] = content[j]
    PROVE  /\ \A s, t \in InFlight' : s # t => sure' = {}
           /\ \A s \in InFlight' :
                /\ request'[s].flags[request'[s].loop] = request'[s].on
                /\ \A l \in sure' \ {request'[s].loop} : request'[s].flags[l] = wanted'[l]
           /\ SwitchesHold'
  <1>1. InFlight' = InFlight
    BY DEF Becomes, InFlight
  <1>2. \A s \in Requests : /\ request'[s].flags = request[s].flags
                            /\ request'[s].loop = request[s].loop /\ request'[s].on = request[s].on
    BY DEF Becomes
  <1>3. SwitchesHold'
    <2>1. CASE sure = {}
      BY <2>1 DEF SwitchesHold
    <2>2. CASE doc # i
      <3>1. Schedules' = Schedules
        BY <2>2 DEF Schedules, RegistryTypeOK
      <3> QED
        BY <3>1 DEF SwitchInv, SwitchesHold, IsEnabled
    <2> QED
      BY <2>1, <2>2
  <1> QED
    BY <1>1, <1>2, <1>3 DEF SwitchInv, InFlight

LEMMA SwitchOpen ==
    ASSUME RegistryTypeOK, SwitchInv, NEW r \in Requests, Open(r)
    PROVE  SwitchInv'
  <1>1. PICK i \in Inodes :
          /\ Becomes(r, "opened", i) /\ tmp' = i /\ content' = [content EXCEPT ![i] = Truncated]
          /\ IF tmp # None THEN i = tmp ELSE Free(i)
    BY OpenBecomes
  <1>2. request[r].pc = "read" /\ r \in InFlight /\ UNCHANGED <<doc, wanted, sure>>
    BY DEF Open, InFlight
  <1>3. i # None /\ i # doc
    BY <1>1, NoInode DEF SwitchInv, Free
  <1>4. /\ content'[i] = Truncated /\ \A j \in Inodes \ {i} : content'[j] = content[j]
    BY <1>1 DEF RegistryTypeOK
  <1>5. ASSUME NEW s \in Requests \ {r}, Opener(s)'
        PROVE  Shared(s)' /\ request'[s] = request[s] /\ Opener(s)
    BY <1>1, <1>5 DEF Becomes, Opener, Shared
  <1>6. ASSUME NEW s \in Requests, Opener(s)'
        PROVE  /\ request'[s].inode # None
               /\ request'[s].inode = doc' => sure' = {}
               /\ tmp' # None => request'[s].inode = tmp' \/ Shared(s)'
               /\ tmp' = request'[s].inode /\ content'[tmp'].json /\ request'[s].pc = "opened" =>
                    Shared(s)'
               /\ tmp' = request'[s].inode /\ request'[s].pc = "filled" =>
                    content'[tmp'] = Json(request'[s].flags) \/ Shared(s)'
    <2>1. CASE s = r
      BY <1>1, <1>2, <1>3, <1>4, <2>1, Documents DEF Becomes
    <2>2. CASE s # r
      BY <1>2, <1>5, <1>6, <2>2 DEF SwitchInv
    <2> QED
      BY <2>1, <2>2
  <1>7. /\ \A s, t \in InFlight' : s # t => sure' = {}
        /\ \A s \in InFlight' :
             /\ request'[s].flags[request'[s].loop] = request'[s].on
             /\ \A l \in sure' \ {request'[s].loop} : request'[s].flags[l] = wanted'[l]
        /\ SwitchesHold'
    BY <1>1, <1>2, <1>3, <1>4, SwitchWrite
  <1>8. doc' # None => doc' # tmp'
    BY <1>1, <1>2, <1>3
  <1> QED
    BY <1>6, <1>7, <1>8 DEF SwitchInv

LEMMA SwitchFill ==
    ASSUME RegistryTypeOK, SwitchInv, NEW r \in Requests, Fill(r)
    PROVE  SwitchInv'
  <1> DEFINE i == request[r].inode
  <1>1. /\ Becomes(r, "filled", i) /\ request[r].pc = "opened" /\ r \in InFlight /\ Opener(r)
        /\ UNCHANGED <<doc, tmp, wanted, sure>>
    BY FillBecomes DEF Fill, InFlight, Opener
  <1>2. i \in Inodes /\ (i = doc => sure = {})
    BY <1>1, RequestFields DEF SwitchInv
  <1>3. PICK c \in {Json(request[r].flags)} \cup (IF content[i].json THEN {Truncated} ELSE {}) :
          content' = [content EXCEPT ![i] = c]
    BY DEF Fill
  <1>4. content'[i] = c /\ \A j \in Inodes \ {i} : content'[j] = content[j]
    BY <1>2, <1>3 DEF RegistryTypeOK
  <1>5. \A s \in Requests : /\ Opener(s)' <=> Opener(s)
                            /\ request'[s].inode = request[s].inode
                            /\ request'[s].flags = request[s].flags
                            /\ s # r => request'[s].pc = request[s].pc
    BY <1>1 DEF Becomes, Opener
  <1>6. \A s \in Requests : Shared(s)' <=> Shared(s)
    BY <1>1, <1>5 DEF Shared
  <1> HIDE DEF i
  <1>7. ASSUME NEW s \in Requests, Opener(s)'
        PROVE  /\ request'[s].inode # None
               /\ request'[s].inode = doc' => sure' = {}
               /\ tmp' # None => request'[s].inode = tmp' \/ Shared(s)'
               /\ tmp' = request'[s].inode /\ content'[tmp'].json /\ request'[s].pc = "opened" =>
                    Shared(s)'
               /\ tmp' = request'[s].inode /\ request'[s].pc = "filled" =>
                    content'[tmp'] = Json(request'[s].flags) \/ Shared(s)'
    <2>1. /\ request'[s].inode # None
          /\ request'[s].inode = doc' => sure' = {}
          /\ tmp' # None => request'[s].inode = tmp' \/ Shared(s)'
      BY <1>1, <1>5, <1>6, <1>7 DEF SwitchInv
    <2>2. CASE s = r
      <3>1. request'[s].pc = "filled"
        BY <1>1, <2>2 DEF Becomes
      <3>2. ASSUME tmp' = request'[s].inode
            PROVE  content'[tmp'] = Json(request'[s].flags) \/ Shared(s)'
        <4>1. tmp = i /\ tmp' = i
          BY <1>1, <1>5, <2>2, <3>2 DEF i
        <4>2. CASE content[i].json
          BY <1>1, <1>6, <2>2, <4>1, <4>2 DEF SwitchInv, i
        <4>3. CASE ~content[i].json
          BY <1>3, <1>4, <1>5, <2>2, <4>1, <4>3
        <4> QED
          BY <4>2, <4>3
      <3> QED
        BY <2>1, <3>1, <3>2
    <2>3. CASE s # r
      <3>1. CASE tmp = i
        <4>1. Shared(s)
          BY <1>1, <2>3, <3>1 DEF Shared, i
        <4> QED
          BY <1>6, <2>1, <4>1
      <3>2. CASE tmp # i
        <4>1. tmp = request[s].inode => content'[tmp] = content[tmp]
          BY <1>4, <1>5, <1>7, <3>2, RequestFields DEF SwitchInv
        <4> QED
          BY <1>1, <1>5, <1>6, <1>7, <2>1, <2>3, <4>1 DEF SwitchInv
      <3> QED
        BY <3>1, <3>2
    <2> QED
      BY <2>2, <2>3
  <1>8. /\ \A s, t \in InFlight' : s # t => sure' = {}
        /\ \A s \in InFlight' :
             /\ request'[s].flags[request'[s].loop] = request'[s].on
             /\ \A l \in sure' \ {request'[s].loop} : request'[s].flags[l] = wanted'[l]
        /\ SwitchesHold'
    BY <1>1, <1>2, <1>4, SwitchWrite
  <1>9. doc' # None => doc' # tmp'
    BY <1>1 DEF SwitchInv
  <1> QED
    BY <1>7, <1>8, <1>9 DEF SwitchInv

LEMMA SwitchReplace ==
    ASSUME RegistryTypeOK, SwitchInv, NEW r \in Requests, Replace(r)
    PROVE  SwitchInv'
  <1>1. /\ Becomes(r, "idle", None) /\ request[r].pc = "filled" /\ content' = content
        /\ r \in InFlight /\ Opener(r)
    BY AnsweredBecomes DEF Replace, InFlight, Opener
  <1>2. InFlight' = InFlight \ {r}
    BY <1>1 DEF Becomes, InFlight
  <1>3. \A s \in Requests : /\ Opener(s)' <=> Opener(s) /\ s # r
                            /\ s # r => request'[s] = request[s]
    BY <1>1 DEF Becomes, Opener
  <1>4. \A s \in InFlight' : s \in InFlight /\ s # r /\ request'[s] = request[s] /\ sure = {}
    BY <1>1, <1>2, <1>3 DEF SwitchInv, InFlight
  <1>5. CASE tmp = None
    <2>1. UNCHANGED <<doc, tmp, wanted, sure>>
      BY <1>5 DEF Replace
    <2>2. ASSUME NEW s \in Requests, Opener(s)'
          PROVE  /\ request'[s] = request[s] /\ request[s].inode # None
                 /\ request[s].inode = doc => sure = {}
      BY <1>3, <2>2 DEF SwitchInv
    <2>3. SwitchesHold'
      BY <1>1, <2>1 DEF SwitchInv, SwitchesHold, IsEnabled, Schedules
    <2> QED
      BY <1>4, <1>5, <2>1, <2>2, <2>3 DEF SwitchInv
  <1>6. CASE tmp # None
    <2>1. /\ doc' = tmp /\ tmp' = None
          /\ wanted' = [wanted EXCEPT ![request[r].loop] = request[r].on]
          /\ sure' = IF InFlight = {r} THEN sure \cup {request[r].loop} ELSE sure
      BY <1>6 DEF Replace
    <2>2. CASE InFlight = {r}
      <3>1. \A s \in Requests : ~Opener(s)'
        BY <1>3, <2>2 DEF InFlight, Opener
      <3>2. ~Shared(r)
        BY <2>2 DEF Shared, InFlight, Opener
      <3>3. content[tmp] = Json(request[r].flags) /\ tmp \in Inodes
        BY <1>1, <1>6, <3>2, RequestFields DEF SwitchInv
      <3>4. Schedules' = request[r].flags
        BY <1>1, <1>6, <2>1, <3>3, Documents, RequestFields DEF Schedules
      <3>5. request[r].loop \in Loops /\ wanted \in Flags
        BY RequestFields DEF RegistryTypeOK
      <3>6. ASSUME NEW l \in sure'
            PROVE  Schedules'[l] = wanted'[l]
        <4>1. CASE l = request[r].loop
          BY <1>1, <2>1, <3>4, <3>5, <4>1 DEF SwitchInv, Flags
        <4>2. CASE l # request[r].loop
          <5>1. l \in sure \ {request[r].loop} /\ l \in Loops
            BY <2>1, <2>2, <3>6, <4>2 DEF RegistryTypeOK
          <5>2. wanted'[l] = wanted[l]
            BY <2>1, <3>5, <5>1 DEF Flags
          <5> QED
            BY <1>1, <3>4, <5>1, <5>2 DEF SwitchInv
        <4> QED
          BY <4>1, <4>2
      <3>7. SwitchesHold'
        BY <3>6 DEF SwitchesHold, IsEnabled
      <3>8. InFlight' = {}
        BY <1>2, <2>2
      <3> QED
        BY <2>1, <3>1, <3>7, <3>8 DEF SwitchInv
    <2>3. CASE InFlight # {r}
      <3>1. sure' = {}
        BY <1>1, <2>1, <2>3 DEF SwitchInv
      <3>2. \A s \in InFlight' : request'[s].flags[request'[s].loop] = request'[s].on
        BY <1>4 DEF SwitchInv
      <3>3. ASSUME NEW s \in Requests, Opener(s)'
            PROVE  request'[s].inode # None
        BY <1>3, <3>3 DEF SwitchInv
      <3>4. doc' # None => doc' # tmp'
        BY <2>1
      <3> QED
        BY <2>1, <3>1, <3>2, <3>3, <3>4 DEF SwitchInv, SwitchesHold
    <2> QED
      BY <2>2, <2>3
  <1> QED
    BY <1>5, <1>6

LEMMA SwitchStep == RegistryTypeOK /\ SwitchInv /\ [Next]_vars => SwitchInv'
  <1> SUFFICES ASSUME RegistryTypeOK, SwitchInv, [Next]_vars PROVE SwitchInv'
    OBVIOUS
  <1>1. ASSUME UNCHANGED registryVars
        PROVE  SwitchInv'
    BY <1>1 DEF registryVars, SwitchInv, InFlight, Opener, Shared, SwitchesHold, IsEnabled, Schedules
  <1>2. ASSUME RegistryNext
        PROVE  SwitchInv'
    BY <1>2, SwitchRead, SwitchOpen, SwitchFill, SwitchReplace DEF RegistryNext
  <1>3. ASSUME KillRequests
        PROVE  SwitchInv'
    <2>1. InFlight' = {} /\ \A r \in Requests : ~Opener(r)'
      BY <1>3, KillBecomes DEF InFlight, Opener
    <2> QED
      BY <1>3, <2>1 DEF KillRequests, SwitchInv, SwitchesHold, IsEnabled, Schedules
  <1> QED
    BY <1>1, <1>2, <1>3 DEF Next, Horizon, vars, Look, Manual, MailFails, Send, MarkSent, MarkFails, Deploy, Pass

\* A loop's switch is what the last answered request made it, for any number of loops
\* and of requests under way, unless two of them crossed since a request of that loop
\* that met no other.
THEOREM TheSwitchesHold == Spec => []SwitchesHold
  <1>1. Init => RegistryTypeOK /\ SwitchInv
    BY RegistryTypeInit, SwitchInit DEF Init
  <1>2. RegistryTypeOK /\ SwitchInv /\ [Next]_vars => (RegistryTypeOK /\ SwitchInv)'
    BY RegistryTypeStep, SwitchStep
  <1>3. SwitchInv => SwitchesHold
    BY DEF SwitchInv
  <1> QED
    BY <1>1, <1>2, <1>3, PTL DEF Spec

-----------------------------------------------------------------------------
(* The squads: what the commands of SquadData are at, stage by stage.        *)

Absence == [player : Players, type : Types]
Booking == [player : Players, yellows : Nat]
CardRow == [player : Players, sure : BOOLEAN, risk : BOOLEAN]
Fields == {"cmd", "pc", "left", "at", "rows", "number", "found", "landed"}

OfInjuries(r) ==
    /\ r.cmd = "injuries" /\ r.left \subseteq Teams
    /\ \/ r.pc = "next"
       \/ r.pc = "fetch" /\ r.at \in Teams
       \/ r.pc \in {"delete", "insert", "score"} /\ r.at \in Teams /\ r.rows \subseteq Absence

OfCards(r) ==
    /\ r.cmd = "cards" /\ r.left \subseteq Teams
    /\ \/ r.pc = "next"
       \/ r.pc = "fetch" /\ r.at \in Teams
       \/ r.pc = "reconcile" /\ r.at \in Teams /\ r.rows \subseteq Booking
       \/ r.pc \in {"delete", "insert"} /\ r.at \in Teams /\ r.rows \subseteq CardRow

OfLineups(r) ==
    /\ r.cmd = "lineups" /\ r.left \subseteq Matches
    /\ \/ r.pc = "next"
       \/ r.pc = "fetch" /\ r.at \in Matches
       \/ r.pc = "insert" /\ r.at \in Matches /\ r.rows \subseteq Sides[r.at]
          /\ r.number \in Nat \ {Never}

OfRun(r) ==
    /\ r.cmd = "run" /\ r.left \subseteq Slots
    /\ \/ r.pc = "next"
       \/ r.pc = "show" /\ r.at \in Slots

Staged(r) ==
    /\ DOMAIN r = Fields
    /\ \/ r.cmd = "none" /\ r.pc = "idle"
       \/ OfInjuries(r) \/ OfCards(r) \/ OfLineups(r) \/ OfRun(r)

SquadTyped ==
    /\ known \subseteq Teams /\ resolved \subseteq Matches
    /\ injury \in [Teams -> SUBSET Absence]
    /\ DOMAIN penalty = Teams
    /\ card \in [Teams -> SUBSET CardRow]
    /\ lineup \in [Slots -> Nat] /\ fetches \in Nat
    /\ DOMAIN news = Slots
    /\ DOMAIN proc = Procs /\ \A p \in Procs : Staged(proc[p])

LEMMA NoCommandStaged == Staged(NoCommand)
  BY DEF Staged, NoCommand, Fields

LEMMA SquadTypedInit == SquadInit => SquadTyped
  <1> SUFFICES ASSUME SquadInit PROVE SquadTyped
    OBVIOUS
  <1>1. \A p \in Procs : Staged(proc[p])
    BY NoCommandStaged DEF SquadInit
  <1> QED
    BY <1>1 DEF SquadInit, SquadTyped, Never

\* What the end of a stage leaves of the command.
LEMMA SkipStaged ==
    ASSUME SquadTyped, NEW p \in Procs, NEW x, Skip(p, x), proc[p].pc # "idle"
    PROVE  /\ DOMAIN proc' = Procs /\ \A q \in Procs \ {p} : proc'[q] = proc[q]
           /\ Staged(proc'[p])
           /\ \/ proc'[p] = NoCommand
              \/ /\ proc'[p].cmd = proc[p].cmd /\ proc'[p].pc = "next"
                 /\ proc'[p].found = proc[p].found /\ proc'[p].landed = proc[p].landed
  <1> DEFINE left == proc[p].left \ {x}
  <1>1. Staged(proc[p]) /\ DOMAIN proc = Procs
    BY DEF SquadTyped
  <1>2. CASE left = {}
    <2>1. proc' = [proc EXCEPT ![p] = NoCommand]
      BY <1>2 DEF Skip
    <2> QED
      BY <2>1, <1>1, NoCommandStaged
  <1>3. CASE left # {}
    <2> DEFINE s == [proc[p] EXCEPT !.pc = "next", !.at = NoMatch, !.rows = {}, !.number = 0,
                                    !.left = left]
    <2>1. proc' = [proc EXCEPT ![p] = s]
      BY <1>3 DEF Skip
    <2>2. /\ DOMAIN s = Fields /\ s.cmd = proc[p].cmd /\ s.pc = "next" /\ s.left = left
          /\ s.found = proc[p].found /\ s.landed = proc[p].landed
      BY <1>1 DEF Staged, Fields
    <2> HIDE DEF s
    <2>3. Staged(s)
      <3>1. OfInjuries(proc[p]) => OfInjuries(s)
        BY <2>2 DEF OfInjuries
      <3>2. OfCards(proc[p]) => OfCards(s)
        BY <2>2 DEF OfCards
      <3>3. OfLineups(proc[p]) => OfLineups(s)
        BY <2>2 DEF OfLineups
      <3>4. OfRun(proc[p]) => OfRun(s)
        BY <2>2 DEF OfRun
      <3> QED
        BY <3>1, <3>2, <3>3, <3>4, <2>2, <1>1 DEF Staged
    <2> QED
      BY <2>1, <2>2, <2>3, <1>1
  <1> QED
    BY <1>2, <1>3

LEMMA AbortStaged ==
    ASSUME SquadTyped, NEW p \in Procs, Abort(p)
    PROVE  /\ DOMAIN proc' = Procs /\ \A q \in Procs \ {p} : proc'[q] = proc[q]
           /\ proc'[p] = NoCommand /\ Staged(proc'[p])
  BY NoCommandStaged DEF SquadTyped, Abort

\* What an action leaves of every command but p, and of what p walks over.
Others(p) ==
    /\ DOMAIN proc' = Procs /\ \A q \in Procs \ {p} : proc'[q] = proc[q]

\* p goes on within its walk: to a stage, with what the stage has in hand.
GoesOn(p) ==
    /\ Others(p) /\ DOMAIN proc'[p] = Fields
    /\ proc'[p].cmd = proc[p].cmd /\ proc'[p].left = proc[p].left
    /\ proc'[p].found = proc[p].found /\ proc'[p].landed = proc[p].landed

LEMMA SquadStartMoves ==
    ASSUME SquadTyped, NEW p \in Procs, NEW cmd \in {"injuries", "cards", "lineups", "run"},
           Start(p, cmd)
    PROVE  /\ Others(p) /\ proc'[p].cmd = cmd /\ proc'[p].pc = "next" /\ Staged(proc'[p])
           /\ proc'[p].found = resolved /\ proc'[p].landed = {x \in Slots : lineup[x] # Never}
  <1> DEFINE s(walk) == [NoCommand EXCEPT !.cmd = cmd, !.pc = "next", !.left = walk,
                           !.found = resolved, !.landed = {x \in Slots : lineup[x] # Never}]
  <1>1. PICK walk \in Walks(cmd) : proc' = [proc EXCEPT ![p] = s(walk)]
    BY DEF Start
  <1>2. /\ DOMAIN s(walk) = Fields /\ s(walk).cmd = cmd /\ s(walk).pc = "next"
        /\ s(walk).left = walk /\ s(walk).found = resolved
        /\ s(walk).landed = {x \in Slots : lineup[x] # Never}
    BY DEF NoCommand, Fields
  <1> HIDE DEF s
  <1>3. Staged(s(walk))
    BY <1>1, <1>2 DEF Staged, Walks, OfInjuries, OfCards, OfLineups, OfRun
  <1> QED
    BY <1>1, <1>2, <1>3 DEF Others, SquadTyped

LEMMA ResolveTeamMoves ==
    ASSUME SquadTyped, NEW p \in Procs, NEW t \in Teams, ResolveTeam(p, t)
    PROVE  /\ known' \subseteq Teams
           /\ \/ Skip(p, t) \/ Abort(p)
              \/ GoesOn(p) /\ Staged(proc'[p]) /\ proc'[p].pc = "fetch"
  <1>1. CASE proc' = [proc EXCEPT ![p].pc = "fetch", ![p].at = t] /\ known' = known \cup {t}
    <2>1. GoesOn(p) /\ proc'[p].pc = "fetch" /\ proc'[p].at = t
      BY <1>1 DEF GoesOn, Others, SquadTyped, Staged, Fields
    <2>2. Staged(proc'[p])
      BY <2>1 DEF GoesOn, SquadTyped, Staged, ResolveTeam, OfInjuries, OfCards, OfLineups, OfRun
    <2> QED
      BY <1>1, <2>1, <2>2 DEF SquadTyped
  <1> QED
    BY <1>1 DEF ResolveTeam, SquadTyped

LEMMA FetchInjuriesMoves ==
    ASSUME SquadTyped, SquadAssumption, NEW p \in Procs, FetchInjuries(p)
    PROVE  /\ GoesOn(p) /\ Staged(proc'[p])
           /\ proc'[p].pc = "delete" /\ proc'[p].at = proc[p].at
           /\ proc'[p].number = Charge(proc'[p].rows)
  <1>1. PICK answer \in InjuryAnswers :
          proc' = [proc EXCEPT ![p].pc = "delete", ![p].rows = answer,
                               ![p].number = Charge(answer)]
    BY DEF FetchInjuries
  <1>2. /\ GoesOn(p) /\ proc'[p].pc = "delete" /\ proc'[p].at = proc[p].at
        /\ proc'[p].rows = answer /\ proc'[p].number = Charge(answer)
    BY <1>1 DEF GoesOn, Others, SquadTyped, Staged, Fields
  <1>3. answer \subseteq Absence
    BY DEF SquadAssumption, Absence
  <1>4. Staged(proc'[p])
    BY <1>2, <1>3 DEF GoesOn, SquadTyped, Staged, FetchInjuries, OfInjuries, OfCards, OfLineups,
       OfRun
  <1> QED
    BY <1>2, <1>4

LEMMA DeleteInjuriesMoves ==
    ASSUME SquadTyped, NEW p \in Procs, DeleteInjuries(p)
    PROVE  /\ GoesOn(p) /\ Staged(proc'[p])
           /\ proc'[p].pc = IF proc[p].rows = {} THEN "score" ELSE "insert"
           /\ proc'[p].at = proc[p].at /\ proc[p].at \in Teams
           /\ proc'[p].rows = proc[p].rows /\ proc'[p].number = proc[p].number
  <1>1. /\ GoesOn(p) /\ proc'[p].pc = IF proc[p].rows = {} THEN "score" ELSE "insert"
        /\ proc'[p].at = proc[p].at
        /\ proc'[p].rows = proc[p].rows /\ proc'[p].number = proc[p].number
    BY DEF DeleteInjuries, GoesOn, Others, SquadTyped, Staged, Fields
  <1> QED
    BY <1>1 DEF GoesOn, SquadTyped, Staged, DeleteInjuries, OfInjuries, OfCards, OfLineups, OfRun

LEMMA FetchCardsMoves ==
    ASSUME SquadTyped, SquadAssumption, NEW p \in Procs, FetchCards(p)
    PROVE  GoesOn(p) /\ Staged(proc'[p]) /\ proc'[p].pc = "reconcile"
  <1>1. PICK answer \in CardAnswers :
          proc' = [proc EXCEPT ![p].pc = "reconcile", ![p].rows = answer]
    BY DEF FetchCards
  <1>2. /\ GoesOn(p) /\ proc'[p].pc = "reconcile" /\ proc'[p].at = proc[p].at
        /\ proc'[p].rows = answer
    BY <1>1 DEF GoesOn, Others, SquadTyped, Staged, Fields
  <1>3. answer \subseteq Booking
    BY DEF SquadAssumption, Booking
  <1> QED
    BY <1>2, <1>3 DEF GoesOn, SquadTyped, Staged, FetchCards, OfInjuries, OfCards, OfLineups,
       OfRun

LEMMA ReconcileMoves ==
    ASSUME SquadTyped, NEW p \in Procs, Reconcile(p)
    PROVE  /\ GoesOn(p) /\ Staged(proc'[p]) /\ proc'[p].pc = "delete"
           /\ proc'[p].at = proc[p].at /\ proc'[p].rows = Reconciled(proc[p].rows, proc[p].at)
  <1>1. /\ GoesOn(p) /\ proc'[p].pc = "delete" /\ proc'[p].at = proc[p].at
        /\ proc'[p].rows = Reconciled(proc[p].rows, proc[p].at)
    BY DEF Reconcile, GoesOn, Others, SquadTyped, Staged, Fields
  <1>2. OfCards(proc[p]) /\ proc[p].rows \subseteq Booking
    BY DEF Reconcile, SquadTyped, Staged, OfInjuries, OfCards, OfLineups, OfRun
  <1>3. ASSUME NEW r \in proc[p].rows, NEW b \in BOOLEAN
        PROVE  [player |-> r.player, sure |-> TRUE, risk |-> b] \in CardRow
    BY <1>2 DEF Booking, CardRow
  <1>4. \A r \in proc[p].rows :
          (r.yellows = Threshold - 1 /\ r.player \notin Suspended(proc[p].at)) \in BOOLEAN
    OBVIOUS
  <1>5. Reconciled(proc[p].rows, proc[p].at) \subseteq CardRow
    BY <1>3, <1>4, Zenon DEF Reconciled
  <1> QED
    BY <1>1, <1>2, <1>5 DEF GoesOn, Staged, Reconcile, OfCards

LEMMA ToInsert ==
    ASSUME SquadTyped, NEW p \in Procs, DeleteCards(p), proc' = [proc EXCEPT ![p].pc = "insert"]
    PROVE  /\ GoesOn(p) /\ Staged(proc'[p]) /\ proc'[p].pc = "insert"
           /\ proc'[p].at = proc[p].at /\ proc'[p].rows = proc[p].rows
  <1>1. /\ GoesOn(p) /\ proc'[p].pc = "insert"
        /\ proc'[p].at = proc[p].at /\ proc'[p].rows = proc[p].rows
    BY DEF GoesOn, Others, SquadTyped, Staged, Fields
  <1> QED
    BY <1>1 DEF GoesOn, SquadTyped, Staged, DeleteCards, OfInjuries, OfCards, OfLineups, OfRun

LEMMA InsertMore ==
    ASSUME SquadTyped, NEW p \in Procs, proc[p].pc = "insert", NEW r,
           proc' = [proc EXCEPT ![p].rows = @ \ {r}]
    PROVE  /\ GoesOn(p) /\ Staged(proc'[p]) /\ proc'[p].pc = "insert"
           /\ proc'[p].at = proc[p].at /\ proc'[p].rows = proc[p].rows \ {r}
           /\ proc'[p].number = proc[p].number
  <1>1. /\ GoesOn(p) /\ proc'[p].pc = "insert"
        /\ proc'[p].at = proc[p].at /\ proc'[p].rows = proc[p].rows \ {r}
        /\ proc'[p].number = proc[p].number
    BY DEF GoesOn, Others, SquadTyped, Staged, Fields
  <1> QED
    BY <1>1 DEF GoesOn, SquadTyped, Staged, OfInjuries, OfCards, OfLineups, OfRun

LEMMA DoubtedRows ==
    ASSUME NEW rows \in SUBSET CardRow, NEW q
    PROVE  /\ Doubted(rows, q) \subseteq CardRow
           /\ \A x \in Doubted(rows, q) : IF x.player = q THEN ~x.sure ELSE x \in rows
  <1>1. ASSUME NEW x \in Doubted(rows, q)
        PROVE  x \in CardRow /\ (IF x.player = q THEN ~x.sure ELSE x \in rows)
    <2>1. PICK r \in rows : x = IF r.player = q THEN [r EXCEPT !.sure = FALSE] ELSE r
      BY <1>1 DEF Doubted
    <2>2. CASE r.player = q
      BY <2>1, <2>2 DEF CardRow
    <2>3. CASE r.player # q
      BY <2>1, <2>3 DEF CardRow
    <2> QED
      BY <2>2, <2>3
  <1> QED
    BY <1>1

\* The commands that hold rows of t reconciled already.
Holding(q, t) == proc[q].cmd = "cards" /\ proc[q].at = t /\ proc[q].pc \in {"delete", "insert"}

\* The INSERT of r by p, as SquadData has it.
Inserts(p, r) ==
    /\ r \in proc[p].rows /\ r \in Absence /\ proc[p].at \in Teams
    /\ injury' = [injury EXCEPT ![proc[p].at] = @ \cup {r}]
    /\ card' = IF r.type = "Suspended"
               THEN [card EXCEPT ![proc[p].at] = Doubted(@, r.player)] ELSE card
    /\ DOMAIN proc' = Procs
    /\ proc'[p].cmd = proc[p].cmd /\ proc'[p].at = proc[p].at /\ proc'[p].number = proc[p].number
    /\ proc'[p].rows = proc[p].rows \ {r}
    /\ proc'[p].pc = IF proc[p].rows = {r} THEN "score" ELSE "insert"
    /\ \A q \in Procs \ {p} :
         IF Holding(q, proc[p].at) /\ r.type = "Suspended"
         THEN /\ proc'[q].cmd = "cards" /\ proc'[q].at = proc[q].at /\ proc'[q].pc = proc[q].pc
              /\ proc'[q].rows = Doubted(proc[q].rows, r.player)
         ELSE proc'[q] = proc[q]
    /\ \A q \in Procs : Staged(proc'[q])

LEMMA InsertInjuryMoves ==
    ASSUME SquadTyped, NEW p \in Procs, InsertInjury(p)
    PROVE  \E r : Inserts(p, r)
  <1> DEFINE t == proc[p].at
             mine(r) == [proc[p] EXCEPT !.rows = @ \ {r},
                           !.pc = IF proc[p].rows = {r} THEN "score" ELSE "insert"]
             other(q, r) == [proc[q] EXCEPT !.rows = Doubted(@, r.player)]
             after(q, r) ==
               CASE q = p -> mine(r)
                 [] /\ proc[q].cmd = "cards" /\ proc[q].at = t
                    /\ proc[q].pc \in {"delete", "insert"} /\ r.type = "Suspended"
                      -> other(q, r)
                 [] OTHER -> proc[q]
  <1>1. PICK r \in proc[p].rows :
          /\ injury' = [injury EXCEPT ![t] = @ \cup {r}]
          /\ card' = IF r.type = "Suspended"
                     THEN [card EXCEPT ![t] = Doubted(@, r.player)] ELSE card
          /\ proc' = [q \in Procs |-> after(q, r)]
    BY DEF InsertInjury
  <1>2. /\ OfInjuries(proc[p]) /\ t \in Teams /\ proc[p].rows \subseteq Absence
        /\ \A q \in Procs : DOMAIN proc[q] = Fields /\ Staged(proc[q])
    BY DEF InsertInjury, SquadTyped, Staged, OfInjuries, OfCards, OfLineups, OfRun
  <1>3. /\ DOMAIN mine(r) = Fields /\ mine(r).cmd = proc[p].cmd /\ mine(r).at = t
        /\ mine(r).left = proc[p].left /\ mine(r).number = proc[p].number
        /\ mine(r).rows = proc[p].rows \ {r}
        /\ mine(r).pc = IF proc[p].rows = {r} THEN "score" ELSE "insert"
    BY <1>2 DEF Fields
  <1>4. ASSUME NEW q \in Procs
        PROVE  /\ DOMAIN other(q, r) = Fields /\ other(q, r).cmd = proc[q].cmd
               /\ other(q, r).at = proc[q].at /\ other(q, r).pc = proc[q].pc
               /\ other(q, r).left = proc[q].left
               /\ other(q, r).rows = Doubted(proc[q].rows, r.player)
    BY <1>2 DEF Fields
  <1> HIDE DEF mine, other
  <1>5. /\ DOMAIN proc' = Procs /\ proc'[p] = mine(r)
        /\ \A q \in Procs \ {p} :
             proc'[q] = IF Holding(q, t) /\ r.type = "Suspended" THEN other(q, r) ELSE proc[q]
    <2>1. after(p, r) = mine(r)
      BY <1>2 DEF OfInjuries
    <2>2. ASSUME NEW q \in Procs, q # p
          PROVE  after(q, r) =
                   IF Holding(q, t) /\ r.type = "Suspended" THEN other(q, r) ELSE proc[q]
      BY <2>2 DEF Holding
    <2> HIDE DEF after
    <2> QED
      BY <1>1, <2>1, <2>2
  <1> HIDE DEF t
  <1>6. Staged(mine(r))
    BY <1>2, <1>3 DEF Staged, OfInjuries
  <1>7. ASSUME NEW q \in Procs, Holding(q, t)
        PROVE  Staged(other(q, r))
    <2>1. OfCards(proc[q]) /\ proc[q].rows \subseteq CardRow
      BY <1>2, <1>7 DEF Staged, Holding, OfInjuries, OfCards, OfLineups, OfRun
    <2>2. Doubted(proc[q].rows, r.player) \subseteq CardRow
      BY <2>1, DoubtedRows
    <2> QED
      BY <1>4, <1>7, <2>1, <2>2 DEF Staged, OfCards, Holding
  <1>8. \A q \in Procs : Staged(proc'[q])
    BY <1>2, <1>5, <1>6, <1>7
  <1>9. \A q \in Procs \ {p} :
          IF Holding(q, t) /\ r.type = "Suspended"
          THEN /\ proc'[q].cmd = "cards" /\ proc'[q].at = proc[q].at /\ proc'[q].pc = proc[q].pc
               /\ proc'[q].rows = Doubted(proc[q].rows, r.player)
          ELSE proc'[q] = proc[q]
    BY <1>4, <1>5 DEF Holding
  <1>10. Inserts(p, r)
    BY <1>1, <1>2, <1>3, <1>5, <1>8, <1>9 DEF Inserts, t
  <1> QED
    BY <1>10

LEMMA ResolveFixtureMoves ==
    ASSUME SquadTyped, NEW p \in Procs, NEW m \in Matches, ResolveFixture(p, m)
    PROVE  \/ Skip(p, m) /\ resolved' = resolved
           \/ /\ GoesOn(p) /\ Staged(proc'[p]) /\ proc'[p].pc = "fetch" /\ proc'[p].at = m
              /\ resolved' = resolved \cup {m}
  <1>1. CASE proc' = [proc EXCEPT ![p].pc = "fetch", ![p].at = m] /\ resolved' = resolved \cup {m}
    <2>1. GoesOn(p) /\ proc'[p].pc = "fetch" /\ proc'[p].at = m
      BY <1>1 DEF GoesOn, Others, SquadTyped, Staged, Fields
    <2>2. Staged(proc'[p])
      BY <2>1 DEF GoesOn, SquadTyped, Staged, ResolveFixture, OfInjuries, OfCards, OfLineups,
         OfRun
    <2> QED
      BY <1>1, <2>1, <2>2
  <1> QED
    BY <1>1 DEF ResolveFixture

LEMMA FetchLineupsMoves ==
    ASSUME SquadTyped, NEW p \in Procs, FetchLineups(p)
    PROVE  /\ GoesOn(p) /\ Staged(proc'[p]) /\ proc'[p].pc = "insert"
           /\ proc'[p].at = proc[p].at /\ fetches' \in Nat
  <1>1. PICK ts \in SUBSET Sides[proc[p].at] \ {{}} :
          proc' = [proc EXCEPT ![p].pc = "insert", ![p].rows = ts, ![p].number = fetches + 1]
    BY DEF FetchLineups
  <1>2. /\ GoesOn(p) /\ proc'[p].pc = "insert" /\ proc'[p].at = proc[p].at
        /\ proc'[p].rows = ts /\ proc'[p].number = fetches + 1
    BY <1>1 DEF GoesOn, Others, SquadTyped, Staged, Fields
  <1>3. fetches \in Nat /\ fetches + 1 \in Nat \ {Never} /\ fetches' = fetches + 1
    BY DEF SquadTyped, FetchLineups, Never
  <1>4. OfLineups(proc[p]) /\ proc[p].at \in Matches
    BY DEF FetchLineups, SquadTyped, Staged, OfInjuries, OfCards, OfLineups, OfRun
  <1>5. OfLineups(proc'[p])
    BY <1>2, <1>3, <1>4 DEF GoesOn, OfLineups
  <1> QED
    BY <1>2, <1>3, <1>5 DEF GoesOn, Staged

\* One side of the XI lands, and the stage goes on or is over.
LEMMA UpsertLineupMoves ==
    ASSUME SquadTyped, SquadAssumption, NEW p \in Procs, UpsertLineup(p)
    PROVE  /\ proc[p].at \in Matches /\ proc[p].number \in Nat \ {Never}
           /\ \E t : /\ <<proc[p].at, t>> \in Slots
                     /\ lineup' = [lineup EXCEPT ![<<proc[p].at, t>>] = proc[p].number]
                     /\ \/ Skip(p, proc[p].at)
                        \/ GoesOn(p) /\ Staged(proc'[p]) /\ proc'[p].pc = "insert"
                           /\ proc'[p].at = proc[p].at
  <1>1. OfLineups(proc[p]) /\ proc[p].at \in Matches /\ proc[p].rows \subseteq Sides[proc[p].at]
        /\ proc[p].number \in Nat \ {Never} /\ proc[p].pc = "insert"
    BY DEF UpsertLineup, SquadTyped, Staged, OfInjuries, OfCards, OfLineups, OfRun
  <1>2. PICK t \in proc[p].rows :
          /\ lineup' = [lineup EXCEPT ![<<proc[p].at, t>>] = proc[p].number]
          /\ Skip(p, proc[p].at) \/ proc' = [proc EXCEPT ![p].rows = @ \ {t}]
    BY DEF UpsertLineup
  <1>3. <<proc[p].at, t>> \in Slots
    BY <1>1 DEF Slots, SquadAssumption
  <1>4. CASE proc' = [proc EXCEPT ![p].rows = @ \ {t}]
    BY <1>1, <1>2, <1>3, <1>4, InsertMore
  <1> QED
    BY <1>1, <1>2, <1>3, <1>4

LEMMA AskFixtureMoves ==
    ASSUME SquadTyped, NEW p \in Procs, NEW x \in Slots, AskFixture(p, x)
    PROVE  /\ GoesOn(p) /\ Staged(proc'[p]) /\ proc'[p].pc = "show" /\ proc'[p].at = x
           /\ proc'[p].rows = Candidates(x)
  <1>1. /\ GoesOn(p) /\ proc'[p].pc = "show" /\ proc'[p].at = x
        /\ proc'[p].rows = Candidates(x)
    BY DEF AskFixture, GoesOn, Others, SquadTyped, Staged, Fields
  <1> QED
    BY <1>1 DEF GoesOn, SquadTyped, Staged, AskFixture, OfInjuries, OfCards, OfLineups, OfRun

\* Where a command is between two of its stages, and what it keeps of its start.
Rests(p) ==
    /\ Others(p) /\ Staged(proc'[p]) /\ proc'[p].pc \in {"idle", "next"}
    /\ proc'[p].pc = "next" =>
         /\ proc'[p].cmd = proc[p].cmd
         /\ proc'[p].found = proc[p].found /\ proc'[p].landed = proc[p].landed

LEMMA SkipRests ==
    ASSUME SquadTyped, NEW p \in Procs, NEW x, Skip(p, x), proc[p].pc # "idle"
    PROVE  Rests(p)
  BY SkipStaged DEF Rests, Others, NoCommand

LEMMA AbortRests ==
    ASSUME SquadTyped, NEW p \in Procs, Abort(p)
    PROVE  Rests(p)
  BY AbortStaged DEF Rests, Others, NoCommand

\* Every action, as what it does to the command that takes it.
LEMMA CommandMoves ==
    ASSUME SquadTyped, SquadAssumption, NEW p \in Procs
    PROVE  /\ \A t \in Teams : ResolveTeam(p, t) =>
                \/ Rests(p)
                \/ GoesOn(p) /\ Staged(proc'[p]) /\ proc'[p].pc = "fetch"
           /\ FetchFails(p) \/ Score(p) \/ InsertClashes(p) \/ Show(p) \/ Kill(p) => Rests(p)
           /\ DeleteCards(p) \/ InsertCard(p) =>
                \/ Rests(p)
                \/ /\ GoesOn(p) /\ Staged(proc'[p]) /\ proc'[p].pc = "insert"
                   /\ proc'[p].at = proc[p].at /\ proc'[p].rows \subseteq proc[p].rows
           /\ \A m \in Matches : ResolveFixture(p, m) =>
                \/ Rests(p) /\ resolved' = resolved
                \/ /\ GoesOn(p) /\ Staged(proc'[p]) /\ proc'[p].pc = "fetch" /\ proc'[p].at = m
                   /\ resolved' = resolved \cup {m}
           /\ UpsertLineup(p) =>
                \/ Rests(p)
                \/ GoesOn(p) /\ Staged(proc'[p]) /\ proc'[p].pc = "insert"
                   /\ proc'[p].at = proc[p].at
  <1>1. ASSUME NEW t \in Teams, ResolveTeam(p, t)
        PROVE  \/ Rests(p)
               \/ GoesOn(p) /\ Staged(proc'[p]) /\ proc'[p].pc = "fetch"
    <2>1. proc[p].pc # "idle"
      BY <1>1 DEF ResolveTeam
    <2> QED
      BY <1>1, <2>1, ResolveTeamMoves, SkipRests, AbortRests
  <1>2. ASSUME FetchFails(p) \/ Score(p) \/ InsertClashes(p) \/ Show(p) \/ Kill(p)
        PROVE  Rests(p)
    <2>1. /\ proc[p].pc # "idle"
          /\ Abort(p) \/ \E x : Skip(p, x)
      BY <1>2 DEF FetchFails, Score, InsertClashes, Show, Kill
    <2> QED
      BY <2>1, SkipRests, AbortRests
  <1>3. ASSUME DeleteCards(p)
        PROVE  \/ Rests(p)
               \/ /\ GoesOn(p) /\ Staged(proc'[p]) /\ proc'[p].pc = "insert"
                  /\ proc'[p].at = proc[p].at /\ proc'[p].rows \subseteq proc[p].rows
    <2>1. proc[p].pc # "idle"
      BY <1>3 DEF DeleteCards
    <2>2. Skip(p, proc[p].at) \/ proc' = [proc EXCEPT ![p].pc = "insert"]
      BY <1>3 DEF DeleteCards
    <2> QED
      BY <1>3, <2>1, <2>2, SkipRests, ToInsert
  <1>4. ASSUME InsertCard(p)
        PROVE  \/ Rests(p)
               \/ /\ GoesOn(p) /\ Staged(proc'[p]) /\ proc'[p].pc = "insert"
                  /\ proc'[p].at = proc[p].at /\ proc'[p].rows \subseteq proc[p].rows
    <2>1. proc[p].pc = "insert"
      BY <1>4 DEF InsertCard
    <2>2. Skip(p, proc[p].at) \/ \E r : proc' = [proc EXCEPT ![p].rows = @ \ {r}]
      BY <1>4 DEF InsertCard
    <2>3. ASSUME NEW r, proc' = [proc EXCEPT ![p].rows = @ \ {r}]
          PROVE  /\ GoesOn(p) /\ Staged(proc'[p]) /\ proc'[p].pc = "insert"
                 /\ proc'[p].at = proc[p].at /\ proc'[p].rows \subseteq proc[p].rows
      BY <2>1, <2>3, InsertMore
    <2> QED
      BY <2>1, <2>2, <2>3, SkipRests
  <1>5. ASSUME NEW m \in Matches, ResolveFixture(p, m)
        PROVE  \/ Rests(p) /\ resolved' = resolved
               \/ /\ GoesOn(p) /\ Staged(proc'[p]) /\ proc'[p].pc = "fetch" /\ proc'[p].at = m
                  /\ resolved' = resolved \cup {m}
    <2>1. proc[p].pc # "idle"
      BY <1>5 DEF ResolveFixture
    <2> QED
      BY <1>5, <2>1, ResolveFixtureMoves, SkipRests
  <1>6. ASSUME UpsertLineup(p)
        PROVE  \/ Rests(p)
               \/ GoesOn(p) /\ Staged(proc'[p]) /\ proc'[p].pc = "insert"
                  /\ proc'[p].at = proc[p].at
    <2>1. proc[p].pc # "idle"
      BY <1>6 DEF UpsertLineup
    <2> QED
      BY <1>6, <2>1, UpsertLineupMoves, SkipRests
  <1> QED
    BY <1>1, <1>2, <1>3, <1>4, <1>5, <1>6

LEMMA OneMoved ==
    ASSUME SquadTyped, NEW p \in Procs, Others(p), Staged(proc'[p])
    PROVE  DOMAIN proc' = Procs /\ \A q \in Procs : Staged(proc'[q])
  BY DEF SquadTyped, Others

LEMMA SquadTypedStep ==
    ASSUME SquadTyped, SquadAssumption, [SquadNext]_squadVars
    PROVE  SquadTyped'
  <1> DEFINE P == DOMAIN proc' = Procs /\ \A q \in Procs : Staged(proc'[q])
             T == /\ known' \subseteq Teams /\ resolved' \subseteq Matches
                  /\ injury' \in [Teams -> SUBSET Absence] /\ DOMAIN penalty' = Teams
                  /\ card' \in [Teams -> SUBSET CardRow]
                  /\ lineup' \in [Slots -> Nat] /\ fetches' \in Nat /\ DOMAIN news' = Slots
  <1> SUFFICES P /\ T
    BY DEF SquadTyped
  <1>0. CASE UNCHANGED squadVars
    BY <1>0 DEF squadVars, tables, SquadTyped
  <1>1. ASSUME NEW p \in Procs, Others(p), Staged(proc'[p])
        PROVE  P
    BY <1>1, OneMoved
  <1>2. ASSUME NEW p \in Procs, Rests(p) \/ (GoesOn(p) /\ Staged(proc'[p]))
        PROVE  P
    BY <1>2, <1>1 DEF Rests, GoesOn
  <1> HIDE DEF P
  <1> SUFFICES ASSUME NEW p \in Procs,
                      \/ \E cmd \in {"injuries", "cards", "lineups", "run"} : Start(p, cmd)
                      \/ \E t \in Teams : ResolveTeam(p, t)
                      \/ FetchFails(p)
                      \/ FetchInjuries(p) \/ DeleteInjuries(p) \/ InsertInjury(p) \/ Score(p)
                      \/ FetchCards(p) \/ Reconcile(p) \/ DeleteCards(p) \/ InsertCard(p)
                      \/ InsertClashes(p)
                      \/ \E m \in Matches : ResolveFixture(p, m)
                      \/ FetchLineups(p) \/ UpsertLineup(p)
                      \/ \E x \in Slots : AskFixture(p, x)
                      \/ Show(p) \/ Kill(p)
               PROVE  P /\ T
    BY <1>0 DEF SquadNext, SquadHorizon
  <1>3. ASSUME NEW cmd \in {"injuries", "cards", "lineups", "run"}, Start(p, cmd)
        PROVE  P /\ T
    <2>1. P
      BY <1>3, <1>1, SquadStartMoves
    <2>2. T
      BY <1>3 DEF Start, tables, SquadTyped
    <2> QED
      BY <2>1, <2>2
  <1>4. ASSUME NEW t \in Teams, ResolveTeam(p, t)
        PROVE  P /\ T
    <2>1. P
      BY <1>4, <1>2, CommandMoves
    <2>2. T
      BY <1>4, ResolveTeamMoves DEF ResolveTeam, SquadTyped
    <2> QED
      BY <2>1, <2>2
  <1>5. CASE FetchFails(p) \/ InsertClashes(p) \/ Kill(p)
    <2>1. P
      BY <1>5, <1>2, CommandMoves
    <2>2. T
      BY <1>5 DEF FetchFails, InsertClashes, Kill, tables, SquadTyped
    <2> QED
      BY <2>1, <2>2
  <1>6. CASE FetchInjuries(p) \/ FetchCards(p) \/ Reconcile(p)
    <2>1. P
      BY <1>6, <1>2, FetchInjuriesMoves, FetchCardsMoves, ReconcileMoves
    <2>2. T
      BY <1>6 DEF FetchInjuries, FetchCards, Reconcile, tables, SquadTyped
    <2> QED
      BY <2>1, <2>2
  <1>7. CASE DeleteInjuries(p)
    <2>1. P
      BY <1>7, <1>2, DeleteInjuriesMoves
    <2>2. T
      BY <1>7 DEF DeleteInjuries, SquadTyped
    <2> QED
      BY <2>1, <2>2
  <1>8. CASE InsertInjury(p)
    <2>1. PICK r : Inserts(p, r)
      BY <1>8, InsertInjuryMoves
    <2>2. P
      BY <2>1 DEF Inserts, P
    <2>3. card' \in [Teams -> SUBSET CardRow]
      <3>1. card[proc[p].at] \in SUBSET CardRow /\ card \in [Teams -> SUBSET CardRow]
        BY <2>1 DEF Inserts, SquadTyped
      <3>2. Doubted(card[proc[p].at], r.player) \in SUBSET CardRow
        BY <3>1, DoubtedRows
      <3> QED
        BY <2>1, <3>1, <3>2 DEF Inserts
    <2>4. injury' \in [Teams -> SUBSET Absence]
      BY <2>1 DEF Inserts, SquadTyped
    <2>5. T
      BY <1>8, <2>3, <2>4 DEF InsertInjury, SquadTyped
    <2> QED
      BY <2>2, <2>5
  <1>9. CASE Score(p)
    <2>1. P
      BY <1>9, <1>2, CommandMoves
    <2>2. T
      BY <1>9 DEF Score, SquadTyped
    <2> QED
      BY <2>1, <2>2
  <1>10. CASE DeleteCards(p)
    <2>1. P
      BY <1>10, <1>2, CommandMoves
    <2>2. T
      BY <1>10 DEF DeleteCards, SquadTyped
    <2> QED
      BY <2>1, <2>2
  <1>11. CASE InsertCard(p)
    <2>1. P
      BY <1>11, <1>2, CommandMoves
    <2>2. proc[p].rows \subseteq CardRow /\ proc[p].at \in Teams
      BY <1>11 DEF InsertCard, SquadTyped, Staged, OfInjuries, OfCards, OfLineups, OfRun
    <2>3. PICK r \in proc[p].rows : card' = [card EXCEPT ![proc[p].at] = @ \cup {r}]
      BY <1>11 DEF InsertCard
    <2>4. UNCHANGED <<known, injury, penalty, resolved, lineup, fetches, news>>
      BY <1>11 DEF InsertCard
    <2>5. T
      BY <2>2, <2>3, <2>4 DEF SquadTyped
    <2> QED
      BY <2>1, <2>5
  <1>12. ASSUME NEW m \in Matches, ResolveFixture(p, m)
         PROVE  P /\ T
    <2>1. P
      BY <1>12, <1>2, CommandMoves
    <2>2. resolved' = resolved \/ resolved' = resolved \cup {m}
      BY <1>12, ResolveFixtureMoves
    <2>3. UNCHANGED <<known, injury, penalty, card, lineup, fetches, news>>
      BY <1>12 DEF ResolveFixture
    <2>4. T
      BY <2>2, <2>3 DEF SquadTyped
    <2> QED
      BY <2>1, <2>4
  <1>13. CASE FetchLineups(p)
    <2>1. P
      BY <1>13, <1>2, FetchLineupsMoves
    <2>2. T
      BY <1>13, FetchLineupsMoves DEF FetchLineups, tables, SquadTyped
    <2> QED
      BY <2>1, <2>2
  <1>14. CASE UpsertLineup(p)
    <2>1. P
      BY <1>14, <1>2, CommandMoves
    <2>2. lineup' \in [Slots -> Nat]
      BY <1>14, UpsertLineupMoves DEF SquadTyped
    <2>3. T
      BY <1>14, <2>2 DEF UpsertLineup, SquadTyped
    <2> QED
      BY <2>1, <2>3
  <1>15. ASSUME NEW x \in Slots, AskFixture(p, x)
         PROVE  P /\ T
    <2>1. P
      BY <1>15, <1>2, AskFixtureMoves
    <2>2. T
      BY <1>15 DEF AskFixture, tables, SquadTyped
    <2> QED
      BY <2>1, <2>2
  <1>16. CASE Show(p)
    <2>1. P
      BY <1>16, <1>2, CommandMoves
    <2>2. T
      BY <1>16 DEF Show, tables, SquadTyped
    <2> QED
      BY <2>1, <2>2
  <1> QED
    BY <1>3, <1>4, <1>5, <1>6, <1>7, <1>8, <1>9, <1>10, <1>11, <1>12, <1>13, <1>14, <1>15, <1>16

-----------------------------------------------------------------------------
(* "suspension wins"                                                         *)

\* A row says nothing of a ban it was reconciled against.
Heeds(row, t) == row.risk /\ row.sure => row.player \notin Suspended(t)

\* SuspensionWins, and of the rows a command has reconciled and not inserted yet.
CardsInv ==
    /\ \A t \in Teams : \A row \in card[t] : Heeds(row, t)
    /\ \A q \in Procs, t \in Teams : Holding(q, t) => \A row \in proc[q].rows : Heeds(row, t)

LEMMA CardsInvIsSuspensionWins == CardsInv => SuspensionWins
  BY DEF CardsInv, SuspensionWins, Heeds

LEMMA CardsInvInit == SquadInit => CardsInv
  BY DEF SquadInit, CardsInv, Holding, NoCommand

\* The actions that leave cards and injuries alone.
LEMMA CardsAside ==
    ASSUME CardsInv, SquadTyped, UNCHANGED <<card, injury>>, NEW p \in Procs, Others(p),
           \A t \in Teams : ~Holding(p, t)'
    PROVE  CardsInv'
  <1>1. \A t \in Teams : Suspended(t)' = Suspended(t)
    BY DEF Suspended
  <1>2. \A row, t : t \in Teams => (Heeds(row, t)' <=> Heeds(row, t))
    BY <1>1 DEF Heeds
  <1>3. \A t \in Teams : \A row \in card'[t] : Heeds(row, t)'
    BY <1>2 DEF CardsInv
  <1>4. ASSUME NEW q \in Procs, NEW t \in Teams, Holding(q, t)', NEW row \in proc'[q].rows
        PROVE  Heeds(row, t)'
    <2>1. q # p
      BY <1>4
    <2>2. proc'[q] = proc[q]
      BY <2>1 DEF Others
    <2>3. Holding(q, t) /\ row \in proc[q].rows
      BY <1>4, <2>2 DEF Holding
    <2> QED
      BY <2>3, <1>2 DEF CardsInv
  <1>5. \A q \in Procs, t \in Teams : Holding(q, t)' => \A row \in proc'[q].rows : Heeds(row, t)'
    BY <1>4
  <1> QED
    BY <1>3, <1>5 DEF CardsInv

\* Suspensions come and go with the rows of the injuries.
LEMMA SuspendedOnDelete ==
    ASSUME SquadTyped, NEW s \in Teams, injury' = [injury EXCEPT ![s] = {}], NEW t \in Teams
    PROVE  Suspended(t)' \subseteq Suspended(t)
  BY DEF Suspended, SquadTyped

LEMMA SuspendedOnInsert ==
    ASSUME SquadTyped, NEW s \in Teams, NEW r, injury' = [injury EXCEPT ![s] = @ \cup {r}],
           NEW t \in Teams
    PROVE  \A x \in Suspended(t)' :
             x \in Suspended(t) \/ (t = s /\ r.type = "Suspended" /\ x = r.player)
  BY DEF Suspended, SquadTyped

LEMMA CardsOnDeleteInjuries ==
    ASSUME CardsInv, SquadTyped, NEW p \in Procs, DeleteInjuries(p)
    PROVE  CardsInv'
  <1>1. /\ proc[p].at \in Teams /\ injury' = [injury EXCEPT ![proc[p].at] = {}]
        /\ card' = card /\ Others(p) /\ proc'[p].cmd = "injuries"
    BY DeleteInjuriesMoves DEF DeleteInjuries, GoesOn
  <1>2. \A row : \A t \in Teams : Heeds(row, t) => Heeds(row, t)'
    BY <1>1, SuspendedOnDelete DEF Heeds
  <1>3. \A t \in Teams : \A row \in card'[t] : Heeds(row, t)'
    BY <1>1, <1>2 DEF CardsInv
  <1>4. ASSUME NEW q \in Procs, NEW t \in Teams, Holding(q, t)', NEW row \in proc'[q].rows
        PROVE  Heeds(row, t)'
    <2>1. q # p
      BY <1>1, <1>4 DEF Holding
    <2>2. proc'[q] = proc[q]
      BY <1>1, <2>1 DEF Others
    <2>3. Holding(q, t) /\ row \in proc[q].rows
      BY <1>4, <2>2 DEF Holding
    <2> QED
      BY <2>3, <1>2 DEF CardsInv
  <1>5. \A q \in Procs, t \in Teams : Holding(q, t)' => \A row \in proc'[q].rows : Heeds(row, t)'
    BY <1>4
  <1> QED
    BY <1>3, <1>5 DEF CardsInv

\* A suspension that comes late makes doubtful what others have reconciled.
LEMMA CardsOnInsertInjury ==
    ASSUME CardsInv, SquadTyped, NEW p \in Procs, InsertInjury(p)
    PROVE  CardsInv'
  <1>1. PICK r : Inserts(p, r)
    BY InsertInjuryMoves
  <1>0. PICK s : s = proc[p].at
    OBVIOUS
  <1>2. /\ s \in Teams /\ injury' = [injury EXCEPT ![s] = @ \cup {r}]
        /\ card \in [Teams -> SUBSET CardRow]
        /\ card' = IF r.type = "Suspended" THEN [card EXCEPT ![s] = Doubted(@, r.player)] ELSE card
    BY <1>0, <1>1 DEF Inserts, SquadTyped
  <1>3. proc[p].cmd = "injuries" /\ proc'[p].cmd = "injuries"
    BY <1>1 DEF Inserts, InsertInjury
  <1>4. \A row : \A t \in Teams :
          /\ Heeds(row, t)
          /\ t # s \/ r.type # "Suspended" \/ row.player # r.player
          => Heeds(row, t)'
    BY <1>2, SuspendedOnInsert DEF Heeds
  <1>5. ASSUME NEW rows \in SUBSET CardRow, \A row \in rows : Heeds(row, s),
               r.type = "Suspended"
        PROVE  \A row \in Doubted(rows, r.player) : Heeds(row, s)'
    <2>1. \A row \in Doubted(rows, r.player) :
            IF row.player = r.player THEN ~row.sure ELSE row \in rows
      BY DoubtedRows
    <2>2. \A row : ~row.sure => Heeds(row, s)'
      BY DEF Heeds
    <2> QED
      BY <2>1, <2>2, <1>2, <1>4, <1>5
  <1>6. ASSUME NEW t \in Teams, NEW row \in card'[t]
        PROVE  Heeds(row, t)'
    <2>1. CASE r.type = "Suspended" /\ t = s
      <3>1. card'[t] = Doubted(card[s], r.player) /\ card[s] \in SUBSET CardRow
        BY <1>2, <2>1
      <3>2. \A x \in card[s] : Heeds(x, s)
        BY <1>2 DEF CardsInv
      <3>3. \A x \in Doubted(card[s], r.player) : Heeds(x, s)'
        BY <1>5, <2>1, <3>1, <3>2
      <3> QED
        BY <1>6, <2>1, <3>1, <3>3
    <2>2. CASE ~(r.type = "Suspended" /\ t = s)
      <3>1. card'[t] = card[t]
        BY <1>2, <2>2
      <3>2. Heeds(row, t)
        BY <1>6, <3>1 DEF CardsInv
      <3> QED
        BY <1>4, <2>2, <3>2
    <2> QED
      BY <2>1, <2>2
  <1>7. ASSUME NEW q \in Procs, NEW t \in Teams, Holding(q, t)', NEW row \in proc'[q].rows
        PROVE  Heeds(row, t)'
    <2>1. q # p
      BY <1>3, <1>7 DEF Holding
    <2>2. IF Holding(q, s) /\ r.type = "Suspended"
          THEN /\ proc'[q].cmd = "cards" /\ proc'[q].at = proc[q].at /\ proc'[q].pc = proc[q].pc
               /\ proc'[q].rows = Doubted(proc[q].rows, r.player)
          ELSE proc'[q] = proc[q]
      BY <1>0, <1>1, <2>1 DEF Inserts
    <2>3. CASE Holding(q, s) /\ r.type = "Suspended"
      <3>1. t = s /\ proc'[q].rows = Doubted(proc[q].rows, r.player)
        BY <1>7, <2>2, <2>3 DEF Holding
      <3>2. proc[q].rows \in SUBSET CardRow
        BY <2>3 DEF SquadTyped, Staged, Holding, OfInjuries, OfCards, OfLineups, OfRun
      <3>3. \A x \in proc[q].rows : Heeds(x, s)
        BY <1>2, <2>3 DEF CardsInv
      <3>4. \A x \in Doubted(proc[q].rows, r.player) : Heeds(x, s)'
        BY <1>5, <2>3, <3>2, <3>3
      <3> QED
        BY <1>7, <3>1, <3>4
    <2>4. CASE ~(Holding(q, s) /\ r.type = "Suspended")
      <3>1. Holding(q, t) /\ row \in proc[q].rows
        BY <1>7, <2>2, <2>4 DEF Holding
      <3>2. Heeds(row, t)
        BY <3>1 DEF CardsInv
      <3> QED
        BY <1>4, <2>4, <3>1, <3>2 DEF Holding
    <2> QED
      BY <2>3, <2>4
  <1>8. \A t \in Teams : \A row \in card'[t] : Heeds(row, t)'
    BY <1>6
  <1>9. \A q \in Procs, t \in Teams : Holding(q, t)' => \A row \in proc'[q].rows : Heeds(row, t)'
    BY <1>7
  <1> QED
    BY <1>8, <1>9 DEF CardsInv

\* The commands of the cards.
LEMMA CardsOnCards ==
    ASSUME CardsInv, SquadTyped, SquadAssumption, NEW p \in Procs,
           Reconcile(p) \/ DeleteCards(p) \/ InsertCard(p)
    PROVE  CardsInv'
  <1> DEFINE s == proc[p].at
  <1>1. /\ injury' = injury /\ s \in Teams /\ proc[p].cmd = "cards"
    BY DEF Reconcile, DeleteCards, InsertCard, tables, SquadTyped, Staged, OfInjuries, OfCards,
       OfLineups, OfRun
  <1>2. \A t \in Teams : Suspended(t)' = Suspended(t)
    BY <1>1 DEF Suspended
  <1>3. \A row : \A t \in Teams : Heeds(row, t)' <=> Heeds(row, t)
    BY <1>2 DEF Heeds
  <1>4. ASSUME NEW t \in Teams, NEW row \in card'[t]
        PROVE  Heeds(row, t)
    <2>1. CASE Reconcile(p)
      BY <1>4, <2>1 DEF Reconcile, tables, CardsInv
    <2>2. CASE DeleteCards(p)
      BY <1>1, <1>4, <2>2 DEF DeleteCards, SquadTyped, CardsInv
    <2>3. CASE InsertCard(p)
      <3>1. PICK r \in proc[p].rows : card' = [card EXCEPT ![s] = @ \cup {r}]
        BY <2>3 DEF InsertCard
      <3>2. Heeds(r, s)
        BY <1>1, <2>3, <3>1 DEF InsertCard, CardsInv, Holding
      <3>3. row \in card[t] \/ (row = r /\ t = s)
        BY <1>1, <1>4, <3>1 DEF SquadTyped
      <3> QED
        BY <3>2, <3>3 DEF CardsInv
    <2> QED
      BY <2>1, <2>2, <2>3
  <1>5. /\ Others(p)
        /\ \/ proc'[p].pc \in {"idle", "next"}
           \/ /\ proc'[p].at = s
              /\ \A row \in proc'[p].rows : Heeds(row, s)
    <2>1. CASE Reconcile(p)
      <3>1. GoesOn(p) /\ proc'[p].at = s /\ proc'[p].rows = Reconciled(proc[p].rows, s)
        BY <2>1, ReconcileMoves
      <3>2. ASSUME NEW row \in Reconciled(proc[p].rows, s)
            PROVE  Heeds(row, s)
        <4>1. PICK r \in proc[p].rows :
                row = [player |-> r.player, sure |-> TRUE,
                       risk |-> r.yellows = Threshold - 1 /\ r.player \notin Suspended(s)]
          BY <3>2 DEF Reconciled
        <4>2. row.player = r.player /\ (row.risk => r.player \notin Suspended(s))
          BY <4>1
        <4> QED
          BY <4>2 DEF Heeds
      <3> QED
        BY <3>1, <3>2 DEF GoesOn
    <2>2. CASE DeleteCards(p) \/ InsertCard(p)
      <3>1. \A row \in proc[p].rows : Heeds(row, s)
        BY <1>1, <2>2 DEF DeleteCards, InsertCard, CardsInv, Holding
      <3>2. \/ Rests(p)
            \/ GoesOn(p) /\ proc'[p].at = proc[p].at /\ proc'[p].rows \subseteq proc[p].rows
        BY <2>2, CommandMoves
      <3> QED
        BY <3>1, <3>2 DEF Rests, GoesOn
    <2> QED
      BY <2>1, <2>2
  <1>6. ASSUME NEW q \in Procs, NEW t \in Teams, Holding(q, t)', NEW row \in proc'[q].rows
        PROVE  Heeds(row, t)
    <2>1. CASE q = p
      BY <1>5, <1>6, <2>1 DEF Holding
    <2>2. CASE q # p
      <3>1. Holding(q, t) /\ row \in proc[q].rows
        BY <1>5, <1>6, <2>2 DEF Others, Holding
      <3> QED
        BY <3>1 DEF CardsInv
    <2> QED
      BY <2>1, <2>2
  <1>7. \A t \in Teams : \A row \in card'[t] : Heeds(row, t)'
    BY <1>3, <1>4
  <1>8. \A q \in Procs, t \in Teams : Holding(q, t)' => \A row \in proc'[q].rows : Heeds(row, t)'
    BY <1>3, <1>6
  <1> QED
    BY <1>7, <1>8 DEF CardsInv

LEMMA CardsInvStep ==
    ASSUME CardsInv, SquadTyped, SquadAssumption, [SquadNext]_squadVars
    PROVE  CardsInv'
  <1>1. CASE UNCHANGED squadVars
    BY <1>1 DEF squadVars, tables, CardsInv, Holding, Heeds, Suspended
  <1> SUFFICES ASSUME NEW p \in Procs,
                      \/ \E cmd \in {"injuries", "cards", "lineups", "run"} : Start(p, cmd)
                      \/ \E t \in Teams : ResolveTeam(p, t)
                      \/ FetchFails(p)
                      \/ FetchInjuries(p) \/ DeleteInjuries(p) \/ InsertInjury(p) \/ Score(p)
                      \/ FetchCards(p) \/ Reconcile(p) \/ DeleteCards(p) \/ InsertCard(p)
                      \/ InsertClashes(p)
                      \/ \E m \in Matches : ResolveFixture(p, m)
                      \/ FetchLineups(p) \/ UpsertLineup(p)
                      \/ \E x \in Slots : AskFixture(p, x)
                      \/ Show(p) \/ Kill(p)
               PROVE  CardsInv'
    BY <1>1 DEF SquadNext, SquadHorizon
  <1>2. ASSUME UNCHANGED <<card, injury>>, Others(p),
               proc'[p].pc \in {"idle", "next", "fetch", "reconcile", "show"}
                 \/ proc'[p].cmd # "cards"
        PROVE  CardsInv'
    BY <1>2, CardsAside DEF Holding
  <1>3. ASSUME NEW cmd \in {"injuries", "cards", "lineups", "run"}, Start(p, cmd)
        PROVE  CardsInv'
    BY <1>2, <1>3, SquadStartMoves DEF Start, tables
  <1>4. ASSUME NEW t \in Teams, ResolveTeam(p, t)
        PROVE  CardsInv'
    BY <1>2, <1>4, CommandMoves DEF ResolveTeam, Rests, GoesOn
  <1>5. CASE FetchFails(p) \/ Score(p) \/ InsertClashes(p) \/ Show(p) \/ Kill(p)
    <2>1. UNCHANGED <<card, injury>>
      BY <1>5 DEF FetchFails, Score, InsertClashes, Show, Kill, tables
    <2> QED
      BY <1>2, <1>5, <2>1, CommandMoves DEF Rests
  <1>6. CASE FetchInjuries(p)
    BY <1>2, <1>6, FetchInjuriesMoves DEF FetchInjuries, tables, GoesOn
  <1>7. CASE FetchCards(p)
    BY <1>2, <1>7, FetchCardsMoves DEF FetchCards, tables, GoesOn
  <1>8. ASSUME NEW m \in Matches, ResolveFixture(p, m)
        PROVE  CardsInv'
    BY <1>2, <1>8, CommandMoves DEF ResolveFixture, Rests, GoesOn
  <1>9. CASE FetchLineups(p)
    BY <1>2, <1>9, FetchLineupsMoves DEF FetchLineups, tables, GoesOn
  <1>10. CASE UpsertLineup(p)
    <2>1. UNCHANGED <<card, injury>> /\ proc[p].cmd # "cards"
      BY <1>10 DEF UpsertLineup
    <2> QED
      BY <1>2, <1>10, <2>1, CommandMoves DEF Rests, GoesOn
  <1>11. ASSUME NEW x \in Slots, AskFixture(p, x)
         PROVE  CardsInv'
    BY <1>2, <1>11, AskFixtureMoves DEF AskFixture, tables, GoesOn
  <1> QED
    BY <1>3, <1>4, <1>5, <1>6, <1>7, <1>8, <1>9, <1>10, <1>11, CardsOnDeleteInjuries,
       CardsOnInsertInjury, CardsOnCards

-----------------------------------------------------------------------------
(* The penalty is that of the rows                                           *)

\* q is replacing the injuries of t: it has deleted them, and not scored t yet.
InHand(q, t) == proc[q].cmd = "injuries" /\ proc[q].at = t /\ proc[q].pc \in {"insert", "score"}

Scored(t) == IF penalty[t] = {} THEN injury[t] = {} ELSE penalty[t] = {Charge(injury[t])}

\* What a command will charge is what it has fetched; the rows in the table and those in the
\* hands of the one command that replaces them are what it has fetched.
PenaltyInv ==
    /\ \A q \in Procs : proc[q].cmd = "injuries" /\ proc[q].pc = "delete" =>
         proc[q].number = Charge(proc[q].rows)
    /\ \A t \in Teams \ crossed : \A q \in Procs : InHand(q, t) =>
         /\ \A o \in Procs : InHand(o, t) => o = q
         /\ proc[q].number = Charge(injury[t] \cup proc[q].rows)
         /\ proc[q].pc = "score" => proc[q].rows = {}
    /\ \A t \in Teams \ crossed : (\A q \in Procs : ~InHand(q, t)) => Scored(t)

LEMMA ReplacingInHand == \A t : Replacing(t) = {} <=> \A q \in Procs : ~InHand(q, t)
  BY DEF Replacing, InHand

LEMMA PenaltyInvIsOfTheRows == PenaltyInv => PenaltyIsOfTheRows
  BY ReplacingInHand DEF PenaltyInv, PenaltyIsOfTheRows, Scored

LEMMA PenaltyInvInit == SquadInit => PenaltyInv
  BY DEF SquadInit, PenaltyInv, InHand, Scored, NoCommand

\* The actions that leave injuries and penalties alone: a command that leaves its
\* replacement undone leaves the team crossed.
LEMMA PenaltyAside ==
    ASSUME PenaltyInv, SquadTyped, UNCHANGED <<injury, penalty>>, NEW p \in Procs, Others(p),
           crossed \subseteq crossed', \A t \in Teams : InHand(p, t) => t \in crossed',
           \A t \in Teams : ~InHand(p, t)',
           proc'[p].cmd = "injuries" /\ proc'[p].pc = "delete"
             => proc'[p].number = Charge(proc'[p].rows)
    PROVE  PenaltyInv'
  <1>1. \A q \in Procs : \A t \in Teams : q # p => (InHand(q, t)' <=> InHand(q, t))
    BY DEF Others, InHand
  <1>2. \A q \in Procs : proc'[q].cmd = "injuries" /\ proc'[q].pc = "delete" =>
          proc'[q].number = Charge(proc'[q].rows)
    BY DEF PenaltyInv, Others
  <1>3. ASSUME NEW t \in Teams \ crossed', NEW q \in Procs, InHand(q, t)'
        PROVE  /\ \A o \in Procs : InHand(o, t)' => o = q
               /\ proc'[q].number = Charge(injury'[t] \cup proc'[q].rows)
               /\ proc'[q].pc = "score" => proc'[q].rows = {}
    <2>1. q # p /\ proc'[q] = proc[q] /\ InHand(q, t) /\ t \in Teams \ crossed
      BY <1>1, <1>3 DEF Others
    <2>2. /\ \A o \in Procs : InHand(o, t) => o = q
          /\ proc[q].number = Charge(injury[t] \cup proc[q].rows)
          /\ proc[q].pc = "score" => proc[q].rows = {}
      BY <2>1 DEF PenaltyInv
    <2>3. \A o \in Procs : InHand(o, t)' => o = q
      BY <1>1, <1>3, <2>2
    <2> QED
      BY <2>1, <2>2, <2>3
  <1>4. ASSUME NEW t \in Teams \ crossed', \A q \in Procs : ~InHand(q, t)'
        PROVE  Scored(t)'
    <2>1. \A q \in Procs : ~InHand(q, t)
      BY <1>1, <1>4
    <2>2. Scored(t)
      BY <1>4, <2>1 DEF PenaltyInv
    <2> QED
      BY <2>2 DEF Scored
  <1> QED
    BY <1>2, <1>3, <1>4 DEF PenaltyInv

\* The DELETE: a replacement of its own begins, or crosses another.
LEMMA PenaltyOnDelete ==
    ASSUME PenaltyInv, SquadTyped, NEW p \in Procs, DeleteInjuries(p)
    PROVE  PenaltyInv'
  <1>0. PICK s \in Teams : s = proc[p].at
    BY DeleteInjuriesMoves
  <1>1. /\ Others(p) /\ proc'[p].cmd = "injuries" /\ proc'[p].at = s
        /\ proc'[p].pc = IF proc[p].rows = {} THEN "score" ELSE "insert"
        /\ proc'[p].rows = proc[p].rows /\ proc'[p].number = proc[p].number
        /\ proc[p].cmd = "injuries" /\ proc[p].pc = "delete"
    BY <1>0, DeleteInjuriesMoves DEF GoesOn, DeleteInjuries
  <1>2. /\ injury' = [injury EXCEPT ![s] = {}] /\ penalty' = penalty
        /\ crossed' = IF Replacing(s) = {} THEN crossed \ {s} ELSE crossed \cup {s}
    BY <1>0 DEF DeleteInjuries
  <1>3. /\ \A q \in Procs : \A t \in Teams : q # p => (InHand(q, t)' <=> InHand(q, t))
        /\ \A t \in Teams : ~InHand(p, t) /\ (InHand(p, t)' <=> t = s)
    BY <1>1 DEF Others, InHand
  <1>4. \A q \in Procs : proc'[q].cmd = "injuries" /\ proc'[q].pc = "delete" =>
          proc'[q].number = Charge(proc'[q].rows)
    BY <1>1 DEF PenaltyInv, Others
  <1>5. ASSUME NEW t \in Teams \ crossed', NEW q \in Procs, InHand(q, t)'
        PROVE  /\ \A o \in Procs : InHand(o, t)' => o = q
               /\ proc'[q].number = Charge(injury'[t] \cup proc'[q].rows)
               /\ proc'[q].pc = "score" => proc'[q].rows = {}
    <2>1. CASE t = s
      <3>1. \A o \in Procs : ~InHand(o, s)
        BY <1>2, <1>5, <2>1, ReplacingInHand
      <3>2. q = p /\ \A o \in Procs : InHand(o, t)' => o = q
        BY <1>3, <1>5, <2>1, <3>1
      <3>3. injury'[t] \cup proc'[p].rows = proc[p].rows
        BY <1>1, <1>2, <2>1 DEF SquadTyped
      <3>4. proc[p].number = Charge(proc[p].rows)
        BY <1>1 DEF PenaltyInv
      <3>5. proc'[p].pc = "score" => proc'[p].rows = {}
        BY <1>1
      <3> QED
        BY <1>1, <3>2, <3>3, <3>4, <3>5
    <2>2. CASE t # s
      <3>1. q # p /\ InHand(q, t) /\ proc'[q] = proc[q]
        BY <1>1, <1>3, <1>5, <2>2 DEF Others
      <3>2. t \in Teams \ crossed /\ injury'[t] = injury[t]
        BY <1>2, <1>5, <2>2 DEF SquadTyped
      <3>3. /\ \A o \in Procs : InHand(o, t) => o = q
            /\ proc[q].number = Charge(injury[t] \cup proc[q].rows)
            /\ proc[q].pc = "score" => proc[q].rows = {}
        BY <3>1, <3>2 DEF PenaltyInv
      <3>4. \A o \in Procs : InHand(o, t)' => o = q
        BY <1>3, <1>5, <2>2, <3>3
      <3> QED
        BY <3>1, <3>2, <3>3, <3>4
    <2> QED
      BY <2>1, <2>2
  <1>6. ASSUME NEW t \in Teams \ crossed', \A q \in Procs : ~InHand(q, t)'
        PROVE  Scored(t)'
    <2>1. t # s /\ \A q \in Procs : ~InHand(q, t)
      BY <1>3, <1>6
    <2>2. t \in Teams \ crossed /\ injury'[t] = injury[t]
      BY <1>2, <1>6, <2>1 DEF SquadTyped
    <2>3. Scored(t)
      BY <2>1, <2>2 DEF PenaltyInv
    <2> QED
      BY <1>2, <2>2, <2>3 DEF Scored
  <1> QED
    BY <1>4, <1>5, <1>6 DEF PenaltyInv

\* An INSERT: a row goes from the hands of the command into the table.
LEMMA PenaltyOnInsert ==
    ASSUME PenaltyInv, SquadTyped, NEW p \in Procs, InsertInjury(p)
    PROVE  PenaltyInv'
  <1>0. PICK r : Inserts(p, r)
    BY InsertInjuryMoves
  <1>1. PICK s \in Teams : s = proc[p].at
    BY <1>0 DEF Inserts
  <1>2. /\ r \in proc[p].rows /\ injury' = [injury EXCEPT ![s] = @ \cup {r}]
        /\ proc'[p].cmd = "injuries" /\ proc'[p].at = s /\ proc'[p].number = proc[p].number
        /\ proc'[p].rows = proc[p].rows \ {r}
        /\ proc'[p].pc = IF proc[p].rows = {r} THEN "score" ELSE "insert"
        /\ proc[p].cmd = "injuries" /\ proc[p].pc = "insert"
        /\ UNCHANGED <<penalty, crossed>>
    BY <1>0, <1>1 DEF Inserts, InsertInjury
  <1>3. \A q \in Procs \ {p} :
          proc'[q] = proc[q] \/ (proc[q].cmd = "cards" /\ proc'[q].cmd = "cards")
    BY <1>0 DEF Inserts, Holding
  <1>4. /\ \A q \in Procs : \A t \in Teams : InHand(q, t)' <=> InHand(q, t)
        /\ \A t \in Teams : InHand(p, t) <=> t = s
    <2>1. \A q \in Procs \ {p} : \A t \in Teams : InHand(q, t)' <=> InHand(q, t)
      BY <1>3 DEF InHand
    <2>2. \A t \in Teams : (InHand(p, t) <=> t = s) /\ (InHand(p, t)' <=> t = s)
      BY <1>1, <1>2 DEF InHand
    <2> QED
      BY <2>1, <2>2
  <1>5. \A q \in Procs : proc'[q].cmd = "injuries" /\ proc'[q].pc = "delete" =>
          proc'[q].number = Charge(proc'[q].rows)
    BY <1>2, <1>3 DEF PenaltyInv
  <1>6. ASSUME NEW t \in Teams \ crossed', NEW q \in Procs, InHand(q, t)'
        PROVE  /\ \A o \in Procs : InHand(o, t)' => o = q
               /\ proc'[q].number = Charge(injury'[t] \cup proc'[q].rows)
               /\ proc'[q].pc = "score" => proc'[q].rows = {}
    <2>1. /\ \A o \in Procs : InHand(o, t) => o = q
          /\ proc[q].number = Charge(injury[t] \cup proc[q].rows)
          /\ proc[q].pc = "score" => proc[q].rows = {}
      BY <1>2, <1>4, <1>6 DEF PenaltyInv
    <2>2. \A o \in Procs : InHand(o, t)' => o = q
      BY <1>4, <2>1
    <2>3. CASE q = p
      <3>1. t = s
        BY <1>4, <1>6, <2>3
      <3>2. injury'[s] = injury[s] \cup {r}
        BY <1>2 DEF SquadTyped
      <3>3. injury'[t] \cup proc'[p].rows = injury[t] \cup proc[p].rows
        BY <1>2, <3>1, <3>2
      <3>4. proc'[p].pc = "score" => proc'[p].rows = {}
        BY <1>2
      <3> QED
        BY <1>2, <2>1, <2>2, <2>3, <3>3, <3>4
    <2>4. CASE q # p
      <3>1. t # s /\ proc'[q] = proc[q]
        BY <1>3, <1>4, <1>6, <2>1, <2>4 DEF InHand
      <3>2. injury'[t] = injury[t]
        BY <1>2, <3>1 DEF SquadTyped
      <3> QED
        BY <2>1, <2>2, <3>1, <3>2
    <2> QED
      BY <2>3, <2>4
  <1>7. ASSUME NEW t \in Teams \ crossed', \A q \in Procs : ~InHand(q, t)'
        PROVE  Scored(t)'
    <2>1. t # s /\ \A q \in Procs : ~InHand(q, t)
      BY <1>4, <1>7
    <2>2. injury'[t] = injury[t]
      BY <1>2, <2>1 DEF SquadTyped
    <2>3. Scored(t)
      BY <1>2, <1>7, <2>1 DEF PenaltyInv
    <2> QED
      BY <1>2, <2>2, <2>3 DEF Scored
  <1> QED
    BY <1>5, <1>6, <1>7 DEF PenaltyInv

\* The upsert of the penalty ends the replacement.
LEMMA PenaltyOnScore ==
    ASSUME PenaltyInv, SquadTyped, SquadAssumption, NEW p \in Procs, Score(p)
    PROVE  PenaltyInv'
  <1>1. Rests(p)
    BY CommandMoves
  <1>2. OfInjuries(proc[p]) /\ proc[p].at \in Teams
    BY DEF Score, SquadTyped, Staged, OfInjuries, OfCards, OfLineups, OfRun
  <1>3. PICK s \in Teams : s = proc[p].at
    BY <1>2
  <1>4. /\ penalty' = [penalty EXCEPT ![s] = {proc[p].number}]
        /\ UNCHANGED <<injury, crossed>>
        /\ proc[p].cmd = "injuries" /\ proc[p].pc = "score" /\ proc[p].at = s
    BY <1>2, <1>3 DEF Score, OfInjuries
  <1>5. /\ \A q \in Procs : \A t \in Teams : q # p => (InHand(q, t)' <=> InHand(q, t))
        /\ \A t \in Teams : (InHand(p, t) <=> t = s) /\ ~InHand(p, t)'
    BY <1>1, <1>4 DEF Rests, Others, InHand
  <1>6. \A q \in Procs : proc'[q].cmd = "injuries" /\ proc'[q].pc = "delete" =>
          proc'[q].number = Charge(proc'[q].rows)
    BY <1>1 DEF PenaltyInv, Rests, Others
  <1>7. ASSUME NEW t \in Teams \ crossed', NEW q \in Procs, InHand(q, t)'
        PROVE  /\ \A o \in Procs : InHand(o, t)' => o = q
               /\ proc'[q].number = Charge(injury'[t] \cup proc'[q].rows)
               /\ proc'[q].pc = "score" => proc'[q].rows = {}
    <2>1. q # p /\ InHand(q, t) /\ proc'[q] = proc[q]
      BY <1>1, <1>5, <1>7 DEF Rests, Others
    <2>2. /\ \A o \in Procs : InHand(o, t) => o = q
          /\ proc[q].number = Charge(injury[t] \cup proc[q].rows)
          /\ proc[q].pc = "score" => proc[q].rows = {}
      BY <1>4, <1>7, <2>1 DEF PenaltyInv
    <2>3. \A o \in Procs : InHand(o, t)' => o = q
      BY <1>5, <1>7, <2>2
    <2> QED
      BY <1>4, <2>1, <2>2, <2>3
  <1>8. ASSUME NEW t \in Teams \ crossed', \A q \in Procs : ~InHand(q, t)'
        PROVE  Scored(t)'
    <2>1. CASE t = s
      <3>1. InHand(p, s) /\ s \in Teams \ crossed
        BY <1>4, <1>5, <1>8, <2>1
      <3>2. /\ proc[p].number = Charge(injury[s] \cup proc[p].rows)
            /\ proc[p].rows = {}
        BY <1>4, <3>1 DEF PenaltyInv
      <3>3. injury[s] \cup proc[p].rows = injury[s]
        BY <3>2
      <3>4. penalty'[s] = {proc[p].number}
        BY <1>4 DEF SquadTyped
      <3> QED
        BY <1>4, <2>1, <3>2, <3>3, <3>4 DEF Scored
    <2>2. CASE t # s
      <3>1. \A q \in Procs : ~InHand(q, t)
        BY <1>5, <1>8, <2>2
      <3>2. penalty'[t] = penalty[t]
        BY <1>4, <2>2 DEF SquadTyped
      <3>3. Scored(t)
        BY <1>4, <1>8, <3>1 DEF PenaltyInv
      <3> QED
        BY <1>4, <3>2, <3>3 DEF Scored
    <2> QED
      BY <2>1, <2>2
  <1> QED
    BY <1>6, <1>7, <1>8 DEF PenaltyInv

LEMMA PenaltyInvStep ==
    ASSUME PenaltyInv, SquadTyped, SquadAssumption, [SquadNext]_squadVars
    PROVE  PenaltyInv'
  <1>1. CASE UNCHANGED squadVars
    BY <1>1 DEF squadVars, tables, PenaltyInv, InHand, Scored
  <1> SUFFICES ASSUME NEW p \in Procs,
                      \/ \E cmd \in {"injuries", "cards", "lineups", "run"} : Start(p, cmd)
                      \/ \E t \in Teams : ResolveTeam(p, t)
                      \/ FetchFails(p)
                      \/ FetchInjuries(p) \/ DeleteInjuries(p) \/ InsertInjury(p) \/ Score(p)
                      \/ FetchCards(p) \/ Reconcile(p) \/ DeleteCards(p) \/ InsertCard(p)
                      \/ InsertClashes(p)
                      \/ \E m \in Matches : ResolveFixture(p, m)
                      \/ FetchLineups(p) \/ UpsertLineup(p)
                      \/ \E x \in Slots : AskFixture(p, x)
                      \/ Show(p) \/ Kill(p)
               PROVE  PenaltyInv'
    BY <1>1 DEF SquadNext, SquadHorizon
  <1>2. ASSUME UNCHANGED <<injury, penalty, crossed>>, Others(p),
               proc[p].pc \notin {"insert", "score"} \/ proc[p].cmd # "injuries",
               proc'[p].pc \notin {"delete", "insert", "score"} \/ proc'[p].cmd # "injuries"
        PROVE  PenaltyInv'
    BY <1>2, PenaltyAside DEF InHand
  <1>3. ASSUME NEW cmd \in {"injuries", "cards", "lineups", "run"}, Start(p, cmd)
        PROVE  PenaltyInv'
    BY <1>2, <1>3, SquadStartMoves DEF Start, tables
  <1>4. ASSUME NEW t \in Teams, ResolveTeam(p, t)
        PROVE  PenaltyInv'
    BY <1>2, <1>4, CommandMoves DEF ResolveTeam, Rests, GoesOn
  <1>5. CASE FetchFails(p) \/ Show(p)
    <2>1. UNCHANGED <<injury, penalty, crossed>> /\ proc[p].pc \in {"fetch", "show"}
      BY <1>5 DEF FetchFails, Show, tables
    <2> QED
      BY <1>2, <1>5, <2>1, CommandMoves DEF Rests
  <1>6. CASE FetchInjuries(p)
    <2>1. UNCHANGED <<injury, penalty, crossed>> /\ proc[p].pc = "fetch"
      BY <1>6 DEF FetchInjuries, tables
    <2>2. /\ Others(p) /\ proc'[p].pc = "delete" /\ proc'[p].number = Charge(proc'[p].rows)
      BY <1>6, FetchInjuriesMoves DEF GoesOn
    <2> QED
      BY <2>1, <2>2, PenaltyAside DEF InHand
  <1>7. CASE FetchCards(p)
    <2>1. UNCHANGED <<injury, penalty, crossed>> /\ proc[p].pc = "fetch"
      BY <1>7 DEF FetchCards, tables
    <2> QED
      BY <1>2, <1>7, <2>1, FetchCardsMoves DEF GoesOn
  <1>8. CASE Reconcile(p) \/ DeleteCards(p) \/ InsertCard(p)
    <2>1. UNCHANGED <<injury, penalty, crossed>> /\ proc[p].cmd = "cards"
      BY <1>8 DEF Reconcile, DeleteCards, InsertCard, tables, SquadTyped, Staged, OfInjuries,
         OfCards, OfLineups, OfRun
    <2>2. Rests(p) \/ GoesOn(p)
      BY <1>8, CommandMoves, ReconcileMoves
    <2> QED
      BY <1>2, <2>1, <2>2 DEF Rests, GoesOn
  <1>9. CASE InsertClashes(p)
    <2>1. /\ UNCHANGED <<injury, penalty>>
          /\ crossed' = IF proc[p].cmd = "injuries" THEN crossed \cup {proc[p].at} ELSE crossed
      BY <1>9 DEF InsertClashes, tables
    <2> QED
      BY <1>9, <2>1, PenaltyAside, CommandMoves DEF Rests, InHand
  <1>10. CASE Kill(p)
    <2>1. /\ UNCHANGED <<injury, penalty>>
          /\ crossed' = crossed \cup {t \in Teams : p \in Replacing(t)}
      BY <1>10 DEF Kill, tables
    <2>2. \A t \in Teams : InHand(p, t) => t \in crossed'
      BY <2>1 DEF InHand, Replacing
    <2> QED
      BY <1>10, <2>1, <2>2, PenaltyAside, CommandMoves DEF Rests, InHand
  <1>11. ASSUME NEW m \in Matches, ResolveFixture(p, m)
         PROVE  PenaltyInv'
    BY <1>2, <1>11, CommandMoves DEF ResolveFixture, Rests, GoesOn
  <1>12. CASE FetchLineups(p)
    <2>1. UNCHANGED <<injury, penalty, crossed>> /\ proc[p].cmd = "lineups"
      BY <1>12 DEF FetchLineups, tables
    <2> QED
      BY <1>2, <1>12, <2>1, FetchLineupsMoves DEF GoesOn
  <1>13. CASE UpsertLineup(p)
    <2>1. UNCHANGED <<injury, penalty, crossed>> /\ proc[p].cmd = "lineups"
      BY <1>13 DEF UpsertLineup
    <2> QED
      BY <1>2, <1>13, <2>1, CommandMoves DEF Rests, GoesOn
  <1>14. ASSUME NEW x \in Slots, AskFixture(p, x)
         PROVE  PenaltyInv'
    BY <1>2, <1>14, AskFixtureMoves DEF AskFixture, tables, GoesOn
  <1> QED
    BY <1>3, <1>4, <1>5, <1>6, <1>7, <1>8, <1>9, <1>10, <1>11, <1>12, <1>13, <1>14,
       PenaltyOnDelete, PenaltyOnInsert, PenaltyOnScore

-----------------------------------------------------------------------------
(* Whose XI is shown                                                         *)

\* A run of the desk knows nothing that is not so any more, and asks for the match's own XI
\* if it was resolved when it started.
RunKnows(q) ==
    /\ proc[q].found \subseteq resolved
    /\ \A x \in proc[q].landed : x \in Slots /\ lineup[x] # Never /\ x[1] \in proc[q].found
    /\ proc[q].pc = "show" /\ proc[q].at[1] \in proc[q].found
         => proc[q].rows = {proc[q].at[1]}

\* An XI lands at a match that is resolved, for good.
LineupsInv ==
    /\ \A x \in Slots : lineup[x] # Never => x[1] \in resolved
    /\ \A q \in Procs : proc[q].cmd = "lineups" /\ proc[q].pc \in {"fetch", "insert"} =>
         proc[q].at \in resolved
    /\ \A q \in Procs : proc[q].cmd = "run" => RunKnows(q)
    /\ OwnXI

LEMMA LineupsInvInit == SquadInit => LineupsInv
  BY DEF SquadInit, LineupsInv, OwnXI, NoCommand

\* What landed or was resolved stays so.
Grows == resolved \subseteq resolved' /\ \A x \in Slots : lineup[x] # Never => lineup'[x] # Never

LEMMA RunStillKnows ==
    ASSUME NEW q, RunKnows(q), proc'[q] = proc[q], Grows
    PROVE  RunKnows(q)'
  BY DEF RunKnows, Grows

\* The actions that show nothing and store no XI.
LEMMA LineupsAside ==
    ASSUME LineupsInv, SquadTyped, NEW p \in Procs, Others(p),
           UNCHANGED <<lineup, news>>, resolved \subseteq resolved',
           proc'[p].cmd = "lineups" /\ proc'[p].pc \in {"fetch", "insert"}
             => proc'[p].at \in resolved',
           proc'[p].cmd = "run" => RunKnows(p)'
    PROVE  LineupsInv'
  <1>1. Grows
    BY DEF Grows
  <1>2. \A x \in Slots : lineup'[x] # Never => x[1] \in resolved'
    BY DEF LineupsInv
  <1>3. \A q \in Procs : proc'[q].cmd = "lineups" /\ proc'[q].pc \in {"fetch", "insert"} =>
          proc'[q].at \in resolved'
    BY DEF LineupsInv, Others
  <1>4. ASSUME NEW q \in Procs, proc'[q].cmd = "run"
        PROVE  RunKnows(q)'
    <2>1. CASE q = p
      BY <1>4, <2>1
    <2>2. CASE q # p
      <3>1. proc'[q] = proc[q]
        BY <2>2 DEF Others
      <3>2. RunKnows(q)
        BY <1>4, <3>1 DEF LineupsInv
      <3> QED
        BY <1>1, <3>1, <3>2, RunStillKnows
    <2> QED
      BY <2>1, <2>2
  <1>5. OwnXI'
    BY DEF LineupsInv, OwnXI
  <1> QED
    BY <1>2, <1>3, <1>4, <1>5 DEF LineupsInv

\* Between two stages a run knows what it knew.
LEMMA RunRests ==
    ASSUME LineupsInv, NEW p \in Procs, Rests(p), proc'[p].cmd = "run", Grows
    PROVE  RunKnows(p)'
  <1>1. proc'[p].pc = "next"
    BY DEF Rests, Staged, OfInjuries, OfCards, OfLineups, OfRun
  <1>2. /\ proc[p].cmd = "run"
        /\ proc'[p].found = proc[p].found /\ proc'[p].landed = proc[p].landed
    BY <1>1 DEF Rests
  <1>3. RunKnows(p)
    BY <1>2 DEF LineupsInv
  <1> QED
    BY <1>1, <1>2, <1>3 DEF RunKnows, Grows

LEMMA LineupsOnStart ==
    ASSUME LineupsInv, SquadTyped, NEW p \in Procs,
           NEW cmd \in {"injuries", "cards", "lineups", "run"}, Start(p, cmd)
    PROVE  LineupsInv'
  <1>1. /\ Others(p) /\ proc'[p].pc = "next" /\ proc'[p].found = resolved
        /\ proc'[p].landed = {x \in Slots : lineup[x] # Never}
    BY SquadStartMoves
  <1>2. UNCHANGED <<lineup, news, resolved>>
    BY DEF Start, tables
  <1>3. RunKnows(p)'
    BY <1>1, <1>2 DEF RunKnows, LineupsInv
  <1> QED
    BY <1>1, <1>2, <1>3, LineupsAside

LEMMA LineupsOnResolve ==
    ASSUME LineupsInv, SquadTyped, SquadAssumption, NEW p \in Procs, NEW m \in Matches,
           ResolveFixture(p, m)
    PROVE  LineupsInv'
  <1>1. UNCHANGED <<lineup, news>> /\ proc[p].cmd = "lineups"
    BY DEF ResolveFixture
  <1>2. \/ Rests(p) /\ resolved' = resolved
        \/ /\ GoesOn(p) /\ proc'[p].pc = "fetch" /\ proc'[p].at = m
           /\ resolved' = resolved \cup {m}
    BY CommandMoves
  <1>3. Grows
    BY <1>1, <1>2 DEF Grows
  <1>4. proc'[p].cmd = "run" => RunKnows(p)'
    BY <1>1, <1>2, <1>3, RunRests DEF GoesOn
  <1> QED
    BY <1>1, <1>2, <1>4, LineupsAside DEF Rests, GoesOn

LEMMA LineupsOnUpsert ==
    ASSUME LineupsInv, SquadTyped, SquadAssumption, NEW p \in Procs, UpsertLineup(p)
    PROVE  LineupsInv'
  <1>1. /\ proc[p].cmd = "lineups" /\ proc[p].pc = "insert" /\ UNCHANGED <<resolved, news>>
    BY DEF UpsertLineup
  <1>2. proc[p].at \in resolved
    BY <1>1 DEF LineupsInv
  <1>3. PICK m \in Matches : m = proc[p].at
    BY UpsertLineupMoves
  <1>4. PICK t : /\ <<m, t>> \in Slots
                 /\ lineup' = [lineup EXCEPT ![<<m, t>>] = proc[p].number]
    BY <1>3, UpsertLineupMoves
  <1>5. proc[p].number # Never
    BY UpsertLineupMoves
  <1>6. \A x \in Slots : lineup'[x] = IF x = <<m, t>> THEN proc[p].number ELSE lineup[x]
    BY <1>4 DEF SquadTyped
  <1>7. Grows
    BY <1>1, <1>5, <1>6 DEF Grows
  <1>8. \A x \in Slots : lineup'[x] # Never => x[1] \in resolved'
    BY <1>1, <1>2, <1>3, <1>6 DEF LineupsInv
  <1>9. /\ Others(p) /\ proc'[p].cmd # "run"
        /\ proc'[p].cmd = "lineups" /\ proc'[p].pc \in {"fetch", "insert"}
             => proc'[p].at \in resolved'
    <2>1. \/ Rests(p)
          \/ GoesOn(p) /\ proc'[p].pc = "insert" /\ proc'[p].at = proc[p].at
      BY CommandMoves
    <2>2. CASE Rests(p)
      BY <1>1, <2>2 DEF Rests, Staged, OfInjuries, OfCards, OfLineups, OfRun
    <2>3. CASE GoesOn(p) /\ proc'[p].pc = "insert" /\ proc'[p].at = proc[p].at
      BY <1>1, <1>2, <2>3 DEF GoesOn
    <2> QED
      BY <2>1, <2>2, <2>3
  <1>10. \A q \in Procs : proc'[q].cmd = "lineups" /\ proc'[q].pc \in {"fetch", "insert"} =>
           proc'[q].at \in resolved'
    BY <1>1, <1>9 DEF LineupsInv, Others
  <1>11. ASSUME NEW q \in Procs, proc'[q].cmd = "run"
         PROVE  RunKnows(q)'
    <2>1. proc'[q] = proc[q]
      BY <1>9, <1>11 DEF Others
    <2>2. RunKnows(q)
      BY <1>11, <2>1 DEF LineupsInv
    <2> QED
      BY <1>7, <2>1, <2>2, RunStillKnows
  <1>12. OwnXI'
    BY <1>1 DEF LineupsInv, OwnXI
  <1> QED
    BY <1>8, <1>10, <1>11, <1>12 DEF LineupsInv

\* Asked for one match, lineup_for answers with its XI or with none.
LEMMA XIOfOne ==
    ASSUME NEW m \in Matches, NEW t, <<m, t>> \in Slots, lineup \in [Slots -> Nat]
    PROVE  XIOf(t, {m}) = IF lineup[<<m, t>>] # Never THEN m ELSE NoMatch
  <1> DEFINE landed == {n \in {m} : <<n, t>> \in Slots /\ lineup[<<n, t>>] # Never}
  <1>1. CASE lineup[<<m, t>>] # Never
    <2>1. landed = {m}
      BY <1>1
    <2>2. \A n \in landed : lineup[<<n, t>>] <= lineup[<<m, t>>]
      BY <2>1
    <2>3. (CHOOSE n \in landed : \A k \in landed : lineup[<<k, t>>] <= lineup[<<n, t>>]) \in landed
      BY <2>1, <2>2
    <2> QED
      BY <1>1, <2>1, <2>3 DEF XIOf
  <1>2. CASE lineup[<<m, t>>] = Never
    <2>1. landed = {}
      BY <1>2
    <2> QED
      BY <1>2, <2>1 DEF XIOf
  <1> QED
    BY <1>1, <1>2

LEMMA LineupsOnShow ==
    ASSUME LineupsInv, SquadTyped, SquadAssumption, NEW p \in Procs, Show(p)
    PROVE  LineupsInv'
  <1>1. /\ proc[p].cmd = "run" /\ proc[p].at \in Slots
    BY DEF Show, SquadTyped, Staged, OfInjuries, OfCards, OfLineups, OfRun
  <1>2. PICK x \in Slots : x = proc[p].at
    BY <1>1
  <1>3. /\ UNCHANGED <<lineup, resolved>>
        /\ news' = [news EXCEPT ![x] = [xi |-> XIOf(x[2], proc[p].rows),
                                        own |-> x[1] \in proc[p].found,
                                        landed |-> x \in proc[p].landed]]
    BY <1>2 DEF Show, tables
  <1>4. RunKnows(p) /\ proc[p].pc = "show"
    BY <1>1 DEF LineupsInv, Show
  <1>5. Rests(p) /\ Grows
    BY <1>3, CommandMoves DEF Grows
  <1>6. x[1] \in Matches /\ x = <<x[1], x[2]>>
    BY DEF Slots
  <1>7. ASSUME x[1] \in proc[p].found
        PROVE  XIOf(x[2], proc[p].rows) = IF lineup[x] # Never THEN x[1] ELSE NoMatch
    <2>1. proc[p].rows = {x[1]}
      BY <1>2, <1>4, <1>7 DEF RunKnows
    <2>2. XIOf(x[2], {x[1]}) = IF lineup[<<x[1], x[2]>>] # Never THEN x[1] ELSE NoMatch
      BY <1>6, XIOfOne DEF SquadTyped
    <2> QED
      BY <1>6, <2>1, <2>2
  <1>8. ASSUME NEW y \in Slots
        PROVE  /\ news'[y].own => news'[y].xi \in {y[1], NoMatch}
               /\ news'[y].landed => news'[y].xi = y[1]
    <2>1. CASE y = x
      <3>1. /\ news'[x].xi = XIOf(x[2], proc[p].rows)
            /\ news'[x].own <=> x[1] \in proc[p].found
            /\ news'[x].landed <=> x \in proc[p].landed
        BY <1>3 DEF SquadTyped
      <3>2. x \in proc[p].landed => x[1] \in proc[p].found /\ lineup[x] # Never
        BY <1>4 DEF RunKnows
      <3> QED
        BY <1>7, <2>1, <3>1, <3>2
    <2>2. CASE y # x
      <3>1. news'[y] = news[y]
        BY <1>3, <2>2 DEF SquadTyped
      <3> QED
        BY <3>1 DEF LineupsInv, OwnXI
    <2> QED
      BY <2>1, <2>2
  <1>9. OwnXI'
    BY <1>8 DEF OwnXI
  <1>10. \A y \in Slots : lineup'[y] # Never => y[1] \in resolved'
    BY <1>3 DEF LineupsInv
  <1>11. \A q \in Procs : proc'[q].cmd = "lineups" /\ proc'[q].pc \in {"fetch", "insert"} =>
           proc'[q].at \in resolved'
    BY <1>3, <1>5 DEF LineupsInv, Rests, Others
  <1>12. ASSUME NEW q \in Procs, proc'[q].cmd = "run"
         PROVE  RunKnows(q)'
    <2>1. CASE q = p
      BY <1>5, <1>12, <2>1, RunRests
    <2>2. CASE q # p
      <3>1. proc'[q] = proc[q]
        BY <1>5, <2>2 DEF Rests, Others
      <3>2. RunKnows(q)
        BY <1>12, <3>1 DEF LineupsInv
      <3> QED
        BY <1>5, <3>1, <3>2, RunStillKnows
    <2> QED
      BY <2>1, <2>2
  <1> QED
    BY <1>9, <1>10, <1>11, <1>12 DEF LineupsInv

LEMMA LineupsOnAsk ==
    ASSUME LineupsInv, SquadTyped, NEW p \in Procs, NEW x \in Slots, AskFixture(p, x)
    PROVE  LineupsInv'
  <1>1. /\ UNCHANGED <<lineup, news, resolved>> /\ proc[p].cmd = "run"
    BY DEF AskFixture, tables
  <1>2. /\ GoesOn(p) /\ proc'[p].pc = "show" /\ proc'[p].at = x
        /\ proc'[p].rows = Candidates(x)
    BY AskFixtureMoves
  <1>3. RunKnows(p)
    BY <1>1 DEF LineupsInv
  <1>4. x[1] \in proc[p].found => Candidates(x) = {x[1]}
    BY <1>3 DEF RunKnows, Candidates
  <1>5. RunKnows(p)'
    BY <1>1, <1>2, <1>3, <1>4 DEF RunKnows, GoesOn
  <1> QED
    BY <1>1, <1>2, <1>5, LineupsAside DEF GoesOn

LEMMA LineupsInvStep ==
    ASSUME LineupsInv, SquadTyped, SquadAssumption, [SquadNext]_squadVars
    PROVE  LineupsInv'
  <1>1. CASE UNCHANGED squadVars
    BY <1>1 DEF squadVars, tables, LineupsInv, RunKnows, OwnXI
  <1> SUFFICES ASSUME NEW p \in Procs,
                      \/ \E cmd \in {"injuries", "cards", "lineups", "run"} : Start(p, cmd)
                      \/ \E t \in Teams : ResolveTeam(p, t)
                      \/ FetchFails(p)
                      \/ FetchInjuries(p) \/ DeleteInjuries(p) \/ InsertInjury(p) \/ Score(p)
                      \/ FetchCards(p) \/ Reconcile(p) \/ DeleteCards(p) \/ InsertCard(p)
                      \/ InsertClashes(p)
                      \/ \E m \in Matches : ResolveFixture(p, m)
                      \/ FetchLineups(p) \/ UpsertLineup(p)
                      \/ \E x \in Slots : AskFixture(p, x)
                      \/ Show(p) \/ Kill(p)
               PROVE  LineupsInv'
    BY <1>1 DEF SquadNext, SquadHorizon
  <1>2. ASSUME UNCHANGED <<lineup, news, resolved>>, Rests(p)
        PROVE  LineupsInv'
    <2>1. Grows
      BY <1>2 DEF Grows
    <2> QED
      BY <1>2, <2>1, RunRests, LineupsAside DEF Rests
  <1>3. ASSUME UNCHANGED <<lineup, news, resolved>>, Others(p),
               proc'[p].cmd \in {"injuries", "cards"}
        PROVE  LineupsInv'
    BY <1>3, LineupsAside
  <1>4. ASSUME NEW t \in Teams, ResolveTeam(p, t)
        PROVE  LineupsInv'
    <2>1. UNCHANGED <<lineup, news, resolved>> /\ proc[p].cmd \in {"injuries", "cards"}
      BY <1>4 DEF ResolveTeam
    <2> QED
      BY <1>2, <1>3, <1>4, <2>1, CommandMoves DEF GoesOn
  <1>5. CASE FetchFails(p) \/ Score(p) \/ InsertClashes(p) \/ Kill(p)
    <2>1. UNCHANGED <<lineup, news, resolved>>
      BY <1>5 DEF FetchFails, Score, InsertClashes, Kill, tables
    <2> QED
      BY <1>2, <1>5, <2>1, CommandMoves
  <1>6. CASE FetchInjuries(p) \/ DeleteInjuries(p) \/ FetchCards(p)
    <2>1. UNCHANGED <<lineup, news, resolved>> /\ proc[p].cmd \in {"injuries", "cards"}
      BY <1>6 DEF FetchInjuries, DeleteInjuries, FetchCards, tables
    <2>2. GoesOn(p)
      BY <1>6, FetchInjuriesMoves, DeleteInjuriesMoves, FetchCardsMoves
    <2> QED
      BY <1>3, <2>1, <2>2 DEF GoesOn
  <1>7. CASE InsertInjury(p)
    <2>1. PICK r : Inserts(p, r)
      BY <1>7, InsertInjuryMoves
    <2>2. UNCHANGED <<lineup, news, resolved>> /\ proc[p].cmd = "injuries"
      BY <1>7 DEF InsertInjury
    <2>3. \A q \in Procs : proc'[q] = proc[q] \/ proc'[q].cmd \in {"injuries", "cards"}
      BY <2>1, <2>2 DEF Inserts
    <2>4. \A q \in Procs : proc'[q].cmd = "lineups" /\ proc'[q].pc \in {"fetch", "insert"} =>
            proc'[q].at \in resolved'
      BY <2>2, <2>3 DEF LineupsInv
    <2>5. ASSUME NEW q \in Procs, proc'[q].cmd = "run"
          PROVE  RunKnows(q)'
      <3>1. proc'[q] = proc[q] /\ Grows
        BY <2>2, <2>3, <2>5 DEF Grows
      <3>2. RunKnows(q)
        BY <2>5, <3>1 DEF LineupsInv
      <3> QED
        BY <3>1, <3>2, RunStillKnows
    <2>6. OwnXI' /\ \A x \in Slots : lineup'[x] # Never => x[1] \in resolved'
      BY <2>2 DEF LineupsInv, OwnXI
    <2> QED
      BY <2>4, <2>5, <2>6 DEF LineupsInv
  <1>8. CASE Reconcile(p) \/ DeleteCards(p) \/ InsertCard(p)
    <2>1. UNCHANGED <<lineup, news, resolved>> /\ proc[p].cmd = "cards"
      BY <1>8 DEF Reconcile, DeleteCards, InsertCard, tables, SquadTyped, Staged, OfInjuries,
         OfCards, OfLineups, OfRun
    <2>2. Rests(p) \/ GoesOn(p)
      BY <1>8, CommandMoves, ReconcileMoves
    <2> QED
      BY <1>2, <1>3, <2>1, <2>2 DEF GoesOn
  <1>9. CASE FetchLineups(p)
    <2>1. UNCHANGED <<lineup, news, resolved>> /\ proc[p].cmd = "lineups" /\ proc[p].pc = "fetch"
      BY <1>9 DEF FetchLineups, tables
    <2>2. GoesOn(p) /\ proc'[p].at = proc[p].at
      BY <1>9, FetchLineupsMoves
    <2>3. proc'[p].at \in resolved' /\ proc'[p].cmd = "lineups"
      BY <2>1, <2>2 DEF LineupsInv, GoesOn
    <2> QED
      BY <2>1, <2>2, <2>3, LineupsAside DEF GoesOn
  <1> QED
    BY <1>4, <1>5, <1>6, <1>7, <1>8, <1>9, LineupsOnStart, LineupsOnResolve, LineupsOnUpsert,
       LineupsOnAsk, LineupsOnShow

-----------------------------------------------------------------------------
(* The ratings                                                               *)

Rows == Seq([team : Rated, sane : BOOLEAN])
WalkFields == {"cmd", "n", "left"}
ReadFields == {"cmd", "next", "had", "value", "label"}

EloStaged(r) ==
    \/ r.cmd \in {"none", "ask"}
    \/ DOMAIN r = WalkFields /\ r.cmd = "walk" /\ r.n \in Nat \ {0} /\ r.left \in Rows
    \/ DOMAIN r = ReadFields /\ r.cmd \in {"match", "field"} /\ r.next \in Nat \ {0}

EloTyped ==
    /\ \A t \in DOMAIN rating : rating[t].n \in Nat \ {0}
    /\ newest \in [Rated -> Nat] /\ feeds \in Nat
    /\ DOMAIN eloProc = Procs /\ \A p \in Procs : EloStaged(eloProc[p])

LEMMA EloTypedInit == Elo!Init => EloTyped
  BY DEF Elo!Init, EloTyped, EloStaged, Elo!Idle

\* What a step leaves of the commands but p; what is rated stays rated.
EloOthers(p) == DOMAIN eloProc' = Procs /\ \A q \in Procs \ {p} : eloProc'[q] = eloProc[q]
StillRated == DOMAIN rating \subseteq DOMAIN rating'

LEMMA EloAccepted ==
    ASSUME EloTyped, Elo!EloAssumption, NEW p \in Procs, Elo!Accepted(p)
    PROVE  \E rows \in Rows :
             /\ EloOthers(p) /\ eloProc'[p] = [cmd |-> "walk", n |-> feeds + 1, left |-> rows]
             /\ newest' = [t \in Rated |-> IF t \in Elo!Listed(rows) THEN feeds + 1 ELSE newest[t]]
             /\ doubt' = (doubt \ Elo!Listed(rows)) \cup (Elo!Listed(rows) \cap Elo!Coming)
             /\ rating' = rating /\ feeds' = feeds + 1
  <1>1. PICK f \in Feeds :
          /\ eloProc' = [eloProc EXCEPT ![p] = [cmd |-> "walk", n |-> feeds + 1, left |-> f.rows]]
          /\ newest' = [t \in Rated |-> IF t \in Elo!Listed(f.rows) THEN feeds + 1 ELSE newest[t]]
          /\ doubt' = (doubt \ Elo!Listed(f.rows)) \cup (Elo!Listed(f.rows) \cap Elo!Coming)
    BY DEF Elo!Accepted
  <1>2. f.rows \in Rows
    BY DEF Elo!EloAssumption, Rows
  <1>3. rating' = rating /\ feeds' = feeds + 1
    BY DEF Elo!Accepted
  <1>4. /\ EloOthers(p)
        /\ eloProc'[p] = [cmd |-> "walk", n |-> feeds + 1, left |-> f.rows]
    BY <1>1 DEF EloOthers, EloTyped
  <1> QED
    BY <1>1, <1>2, <1>3, <1>4

LEMMA HeadAndTail ==
    ASSUME NEW S, NEW s \in Seq(S), s # <<>>
    PROVE  /\ Head(s) \in S /\ Tail(s) \in Seq(S) /\ Head(s) = s[1] /\ 1 \in DOMAIN s
           /\ \A i \in DOMAIN Tail(s) : i + 1 \in DOMAIN s /\ Tail(s)[i] = s[i + 1]
           /\ \A i \in DOMAIN s : i # 1 => i - 1 \in DOMAIN Tail(s) /\ Tail(s)[i - 1] = s[i]
  OBVIOUS

LEMMA ListedParts ==
    ASSUME NEW rows \in Rows, rows # <<>>
    PROVE  /\ Head(rows).team \in Rated /\ Tail(rows) \in Rows
           /\ Elo!Listed(rows) = {Head(rows).team} \cup Elo!Listed(Tail(rows))
  <1> DEFINE S == [team : Rated, sane : BOOLEAN]
  <1>1. /\ Head(rows) \in S /\ Tail(rows) \in Rows /\ Head(rows) = rows[1] /\ 1 \in DOMAIN rows
        /\ \A i \in DOMAIN Tail(rows) : i + 1 \in DOMAIN rows /\ Tail(rows)[i] = rows[i + 1]
        /\ \A i \in DOMAIN rows :
             i # 1 => i - 1 \in DOMAIN Tail(rows) /\ Tail(rows)[i - 1] = rows[i]
    <2>1. rows \in Seq(S)
      BY DEF Rows
    <2> HIDE DEF S
    <2>2. /\ Head(rows) \in S /\ Tail(rows) \in Seq(S)
          /\ Head(rows) = rows[1] /\ 1 \in DOMAIN rows
          /\ \A i \in DOMAIN Tail(rows) : i + 1 \in DOMAIN rows /\ Tail(rows)[i] = rows[i + 1]
          /\ \A i \in DOMAIN rows :
               i # 1 => i - 1 \in DOMAIN Tail(rows) /\ Tail(rows)[i - 1] = rows[i]
      BY <2>1, HeadAndTail
    <2> QED
      BY <2>2 DEF Rows, S
  <1>5. ASSUME NEW t
        PROVE  t \in Elo!Listed(rows) <=> t = Head(rows).team \/ t \in Elo!Listed(Tail(rows))
    <2>1. ASSUME t \in Elo!Listed(rows)
          PROVE  t = Head(rows).team \/ t \in Elo!Listed(Tail(rows))
      <3>1. PICK i \in DOMAIN rows : t = rows[i].team
        BY <2>1 DEF Elo!Listed
      <3> QED
        BY <3>1, <1>1 DEF Elo!Listed
    <2>2. ASSUME t \in Elo!Listed(Tail(rows))
          PROVE  t \in Elo!Listed(rows)
      <3>1. PICK i \in DOMAIN Tail(rows) : t = Tail(rows)[i].team
        BY <2>2 DEF Elo!Listed
      <3> QED
        BY <3>1, <1>1 DEF Elo!Listed
    <2>3. Head(rows).team \in Elo!Listed(rows)
      BY <1>1 DEF Elo!Listed
    <2> QED
      BY <2>1, <2>2, <2>3
  <1> QED
    BY <1>1, <1>5

LEMMA EloUpsert ==
    ASSUME EloTyped, NEW p \in Procs, Elo!Upsert(p)
    PROVE  /\ eloProc[p].cmd = "walk" /\ eloProc[p].n \in Nat \ {0}
           /\ eloProc[p].left \in Rows /\ eloProc[p].left # <<>>
           /\ EloOthers(p) /\ DOMAIN eloProc'[p] = WalkFields
           /\ eloProc'[p].cmd = "walk" /\ eloProc'[p].n = eloProc[p].n
           /\ eloProc'[p].left = Tail(eloProc[p].left)
           /\ LET t == Head(eloProc[p].left).team IN
              /\ DOMAIN rating' = DOMAIN rating \cup {t}
              /\ rating'[t].n = eloProc[p].n
              /\ \A u \in DOMAIN rating : u # t => rating'[u] = rating[u]
           /\ UNCHANGED <<feeds, newest, doubt>>
  <1>1. /\ eloProc[p].cmd = "walk" /\ eloProc[p].left # <<>>
        /\ DOMAIN eloProc = Procs /\ EloStaged(eloProc[p])
    BY DEF Elo!Upsert, EloTyped
  <1>2. DOMAIN eloProc[p] = WalkFields /\ eloProc[p].n \in Nat \ {0} /\ eloProc[p].left \in Rows
    BY <1>1 DEF EloStaged
  <1>3. eloProc' = [eloProc EXCEPT ![p].left = Tail(@)] /\ UNCHANGED <<feeds, newest, doubt>>
    BY DEF Elo!Upsert
  <1>4. /\ EloOthers(p) /\ DOMAIN eloProc'[p] = WalkFields
        /\ eloProc'[p].cmd = "walk" /\ eloProc'[p].n = eloProc[p].n
        /\ eloProc'[p].left = Tail(eloProc[p].left)
    BY <1>1, <1>2, <1>3 DEF EloOthers, WalkFields
  <1> DEFINE r == Head(eloProc[p].left)
  <1>5. rating' = [t \in DOMAIN rating \cup {r.team} |->
                     IF t = r.team THEN [n |-> eloProc[p].n, sane |-> r.sane] ELSE rating[t]]
    BY DEF Elo!Upsert, Elo!Stored
  <1> HIDE DEF r
  <1>6. /\ DOMAIN rating' = DOMAIN rating \cup {r.team}
        /\ rating'[r.team].n = eloProc[p].n
        /\ \A u \in DOMAIN rating : u # r.team => rating'[u] = rating[u]
    BY <1>5
  <1> QED
    BY <1>1, <1>2, <1>3, <1>4, <1>6 DEF r

\* A command that begins anew, or ends.
LEMMA EloFresh ==
    ASSUME EloTyped, NEW p \in Procs, NEW s, eloProc' = [eloProc EXCEPT ![p] = s]
    PROVE  EloOthers(p) /\ eloProc'[p] = s
  BY DEF EloTyped, EloOthers

\* What a match asks, and what an outright asks.
LEMMA Plans ==
    ASSUME Elo!EloAssumption
    PROVE  /\ Len(Elo!PlanOf("match")) = 4
           /\ \A i \in 1 .. 4 :
                Elo!PlanOf("match")[i].ask = IF i <= 2 THEN "value" ELSE "label"
           /\ Len(Field) \in Nat /\ Len(Elo!PlanOf("field")) = 2 * Len(Field)
           /\ \A i \in 1 .. 2 * Len(Field) :
                Elo!PlanOf("field")[i] = IF i % 2 = 1 THEN Elo!Label(Field[(i + 1) \div 2])
                                         ELSE Elo!Value(Field[i \div 2])
  <1>1. Len(Elo!PlanOf("match")) = 4
    BY DEF Elo!PlanOf, Elo!MatchPlan
  <1>2. \A i \in 1 .. 4 : Elo!PlanOf("match")[i].ask = IF i <= 2 THEN "value" ELSE "label"
    BY DEF Elo!PlanOf, Elo!MatchPlan, Elo!Value, Elo!Label
  <1>3. Len(Field) \in Nat
    BY DEF Elo!EloAssumption
  <1> DEFINE step(i) == IF i % 2 = 1 THEN Elo!Label(Field[(i + 1) \div 2])
                        ELSE Elo!Value(Field[i \div 2])
  <1>4. Elo!PlanOf("field") = [i \in 1 .. 2 * Len(Field) |-> step(i)]
    BY DEF Elo!PlanOf, Elo!FieldPlan
  <1> HIDE DEF step
  <1>5. /\ Len(Elo!PlanOf("field")) = 2 * Len(Field)
        /\ \A i \in 1 .. 2 * Len(Field) : Elo!PlanOf("field")[i] = step(i)
    <2>1. 2 * Len(Field) \in Nat /\ DOMAIN Elo!PlanOf("field") = 1 .. 2 * Len(Field)
      BY <1>3, <1>4
    <2> QED
      BY <1>4, <2>1
  <1> QED
    BY <1>1, <1>2, <1>3, <1>5 DEF step

LEMMA EloAsk ==
    ASSUME EloTyped, Elo!EloAssumption, NEW p \in Procs, Elo!AskValue(p) \/ Elo!AskLabel(p)
    PROVE  /\ EloOthers(p) /\ EloStaged(eloProc'[p])
           /\ eloProc'[p].cmd = eloProc[p].cmd /\ eloProc[p].cmd \in {"match", "field"}
           /\ eloProc[p].next \in Nat \ {0} /\ eloProc'[p].had = eloProc[p].had
           /\ eloProc[p].next \in 1 .. Len(Elo!PlanOf(eloProc[p].cmd))
           /\ LET a == Elo!PlanOf(eloProc[p].cmd)[eloProc[p].next] IN
              \/ /\ a.ask = "value" /\ eloProc'[p].next = eloProc[p].next + 1
                 /\ eloProc'[p].label = eloProc[p].label
                 /\ eloProc'[p].value = Elo!Got(eloProc[p].value, a.team, Elo!ValueOf(a.team))
              \/ /\ a.ask = "label" /\ eloProc'[p].value = eloProc[p].value
                 /\ eloProc'[p].next =
                      eloProc[p].next + Elo!Onward(eloProc[p].cmd, Elo!LabelOf(a.team))
                 /\ eloProc'[p].label = Elo!Got(eloProc[p].label, a.team, Elo!LabelOf(a.team))
           /\ UNCHANGED <<rating, feeds, newest, doubt>>
  <1> DEFINE a == Elo!PlanOf(eloProc[p].cmd)[eloProc[p].next]
             k == Elo!Onward(eloProc[p].cmd, Elo!LabelOf(a.team))
  <1>1. /\ eloProc[p].cmd \in {"match", "field"} /\ DOMAIN eloProc = Procs
        /\ EloStaged(eloProc[p]) /\ ~Elo!Through(p)
        /\ UNCHANGED <<rating, feeds, newest, doubt>>
    BY DEF Elo!AskValue, Elo!AskLabel, Elo!Reading, EloTyped
  <1>2. DOMAIN eloProc[p] = ReadFields /\ eloProc[p].next \in Nat \ {0}
    BY <1>1 DEF EloStaged
  <1>3. k \in {1, 2}
    BY DEF Elo!Onward
  <1>4. \/ /\ a.ask = "value"
           /\ eloProc' = [eloProc EXCEPT
                ![p].next = @ + 1,
                ![p].value = Elo!Got(@, a.team, Elo!ValueOf(a.team))]
        \/ /\ a.ask = "label"
           /\ eloProc' = [eloProc EXCEPT
                ![p].next = @ + k,
                ![p].label = Elo!Got(@, a.team, Elo!LabelOf(a.team))]
    BY DEF Elo!AskValue, Elo!AskLabel
  <1> HIDE DEF a, k
  <1>5. /\ EloOthers(p) /\ DOMAIN eloProc'[p] = ReadFields
        /\ eloProc'[p].cmd = eloProc[p].cmd /\ eloProc'[p].had = eloProc[p].had
        /\ \/ /\ a.ask = "value" /\ eloProc'[p].next = eloProc[p].next + 1
              /\ eloProc'[p].label = eloProc[p].label
              /\ eloProc'[p].value = Elo!Got(eloProc[p].value, a.team, Elo!ValueOf(a.team))
           \/ /\ a.ask = "label" /\ eloProc'[p].value = eloProc[p].value
              /\ eloProc'[p].next = eloProc[p].next + k
              /\ eloProc'[p].label = Elo!Got(eloProc[p].label, a.team, Elo!LabelOf(a.team))
    BY <1>1, <1>2, <1>4 DEF EloOthers, ReadFields
  <1>6. EloStaged(eloProc'[p])
    BY <1>1, <1>2, <1>3, <1>5 DEF EloStaged
  <1>7. eloProc[p].next \in 1 .. Len(Elo!PlanOf(eloProc[p].cmd))
    BY <1>1, <1>2, Plans DEF Elo!Through
  <1> QED
    BY <1>1, <1>2, <1>5, <1>6, <1>7 DEF a, k

LEMMA ListedRated ==
    ASSUME NEW rows \in Rows
    PROVE  Elo!Listed(rows) \subseteq Rated
  <1> DEFINE S == [team : Rated, sane : BOOLEAN]
  <1>1. rows \in Seq(S)
    BY DEF Rows
  <1>2. \A s \in S : s.team \in Rated
    OBVIOUS
  <1> HIDE DEF S
  <1>3. \A i \in DOMAIN rows : rows[i] \in S
    BY <1>1
  <1> QED
    BY <1>2, <1>3 DEF Elo!Listed

\* The actions that start or end a command.
LEMMA EloSimple ==
    ASSUME EloTyped, NEW p \in Procs
    PROVE  /\ Elo!Start(p) \/ Elo!Fails(p) \/ Elo!Refused(p) \/ Elo!MarkOk(p) \/ Elo!Kill(p)
                \/ Elo!Priced(p) =>
                /\ EloOthers(p) /\ eloProc'[p].cmd \in {"none", "ask"}
                /\ UNCHANGED <<rating, newest>>
                /\ feeds' \in {feeds, feeds + 1}
           /\ \A cmd \in {"match", "field"} : Elo!Read(p, cmd) =>
                /\ EloOthers(p) /\ eloProc[p].cmd = "none"
                /\ UNCHANGED <<rating, newest, feeds, doubt>>
                /\ eloProc'[p] = [cmd |-> cmd, next |-> 1, had |-> DOMAIN rating,
                                  value |-> <<>>, label |-> <<>>]
  <1>1. ASSUME Elo!Start(p) \/ Elo!Fails(p) \/ Elo!Refused(p) \/ Elo!MarkOk(p) \/ Elo!Kill(p)
                 \/ Elo!Priced(p)
        PROVE  /\ EloOthers(p) /\ eloProc'[p].cmd \in {"none", "ask"}
               /\ UNCHANGED <<rating, newest>>
               /\ feeds' \in {feeds, feeds + 1}
    <2>1. PICK s \in {[cmd |-> "none"], [cmd |-> "ask"]} : eloProc' = [eloProc EXCEPT ![p] = s]
      BY <1>1 DEF Elo!Start, Elo!Fails, Elo!Refused, Elo!MarkOk, Elo!Kill, Elo!Priced, Elo!Idle
    <2>2. s.cmd \in {"none", "ask"}
      OBVIOUS
    <2>3. UNCHANGED <<rating, newest>> /\ feeds' \in {feeds, feeds + 1}
      BY <1>1 DEF Elo!Start, Elo!Fails, Elo!Refused, Elo!MarkOk, Elo!Kill, Elo!Priced
    <2> QED
      BY <2>1, <2>2, <2>3, EloFresh
  <1>2. ASSUME NEW cmd \in {"match", "field"}, Elo!Read(p, cmd)
        PROVE  /\ EloOthers(p) /\ eloProc[p].cmd = "none"
               /\ UNCHANGED <<rating, newest, feeds, doubt>>
               /\ eloProc'[p] = [cmd |-> cmd, next |-> 1, had |-> DOMAIN rating,
                                 value |-> <<>>, label |-> <<>>]
    <2>1. /\ eloProc[p] = [cmd |-> "none"] /\ UNCHANGED <<rating, newest, feeds, doubt>>
          /\ eloProc' = [eloProc EXCEPT ![p] =
               [cmd |-> cmd, next |-> 1, had |-> DOMAIN rating, value |-> <<>>, label |-> <<>>]]
      BY <1>2 DEF Elo!Read, Elo!Idle
    <2>2. eloProc[p].cmd = "none"
      BY <2>1
    <2> QED
      BY <2>1, <2>2, EloFresh
  <1> QED
    BY <1>1, <1>2

LEMMA EloTypedStep ==
    ASSUME EloTyped, Elo!EloAssumption, [Elo!Next]_eloVars
    PROVE  EloTyped' /\ StillRated
  <1>1. ASSUME NEW p \in Procs, EloOthers(p), EloStaged(eloProc'[p])
        PROVE  DOMAIN eloProc' = Procs /\ \A q \in Procs : EloStaged(eloProc'[q])
    BY <1>1 DEF EloOthers, EloTyped
  <1>2. CASE UNCHANGED eloVars
    BY <1>2 DEF eloVars, EloTyped, StillRated
  <1>3. ASSUME NEW p \in Procs,
               Elo!Start(p) \/ Elo!Fails(p) \/ Elo!Refused(p) \/ Elo!MarkOk(p) \/ Elo!Kill(p)
                 \/ Elo!Priced(p)
        PROVE  EloTyped' /\ StillRated
    <2>1. /\ EloOthers(p) /\ eloProc'[p].cmd \in {"none", "ask"}
          /\ UNCHANGED <<rating, newest>> /\ feeds' \in {feeds, feeds + 1}
      BY <1>3, EloSimple
    <2>2. DOMAIN eloProc' = Procs /\ \A q \in Procs : EloStaged(eloProc'[q])
      BY <2>1, <1>1 DEF EloStaged
    <2> QED
      BY <2>1, <2>2 DEF EloTyped, StillRated
  <1>4. ASSUME NEW p \in Procs, NEW cmd \in {"match", "field"}, Elo!Read(p, cmd)
        PROVE  EloTyped' /\ StillRated
    <2>1. /\ EloOthers(p) /\ UNCHANGED <<rating, newest, feeds>>
          /\ eloProc'[p] = [cmd |-> cmd, next |-> 1, had |-> DOMAIN rating,
                            value |-> <<>>, label |-> <<>>]
      BY <1>4, EloSimple
    <2>2. EloStaged(eloProc'[p])
      BY <2>1 DEF EloStaged, ReadFields
    <2> QED
      BY <2>1, <2>2, <1>1 DEF EloTyped, StillRated
  <1>5. ASSUME NEW p \in Procs, Elo!Accepted(p)
        PROVE  EloTyped' /\ StillRated
    <2>1. PICK rows \in Rows :
            /\ EloOthers(p) /\ eloProc'[p] = [cmd |-> "walk", n |-> feeds + 1, left |-> rows]
            /\ newest' = [t \in Rated |-> IF t \in Elo!Listed(rows) THEN feeds + 1 ELSE newest[t]]
            /\ rating' = rating /\ feeds' = feeds + 1
      BY <1>5, EloAccepted
    <2>2. feeds + 1 \in Nat \ {0}
      BY DEF EloTyped
    <2>3. EloStaged(eloProc'[p])
      BY <2>1, <2>2 DEF EloStaged, WalkFields
    <2>4. newest' \in [Rated -> Nat]
      BY <2>1, <2>2 DEF EloTyped
    <2> QED
      BY <2>1, <2>2, <2>3, <2>4, <1>1 DEF EloTyped, StillRated
  <1>6. ASSUME NEW p \in Procs, Elo!Upsert(p)
        PROVE  EloTyped' /\ StillRated
    <2> DEFINE t == Head(eloProc[p].left).team
    <2>1. /\ eloProc[p].n \in Nat \ {0} /\ eloProc[p].left \in Rows /\ eloProc[p].left # <<>>
          /\ EloOthers(p) /\ DOMAIN eloProc'[p] = WalkFields
          /\ eloProc'[p].cmd = "walk" /\ eloProc'[p].n = eloProc[p].n
          /\ eloProc'[p].left = Tail(eloProc[p].left)
          /\ DOMAIN rating' = DOMAIN rating \cup {t} /\ rating'[t].n = eloProc[p].n
          /\ \A u \in DOMAIN rating : u # t => rating'[u] = rating[u]
          /\ UNCHANGED <<feeds, newest, doubt>>
      BY <1>6, EloUpsert
    <2>2. Tail(eloProc[p].left) \in Rows
      BY <2>1, ListedParts
    <2>3. EloStaged(eloProc'[p])
      BY <2>1, <2>2 DEF EloStaged
    <2> HIDE DEF t
    <2>4. \A u \in DOMAIN rating' : rating'[u].n \in Nat \ {0}
      BY <2>1 DEF EloTyped
    <2> QED
      BY <2>1, <2>3, <2>4, <1>1 DEF EloTyped, StillRated
  <1>7. ASSUME NEW p \in Procs, Elo!AskValue(p) \/ Elo!AskLabel(p)
        PROVE  EloTyped' /\ StillRated
    <2>1. EloOthers(p) /\ EloStaged(eloProc'[p]) /\ UNCHANGED <<rating, feeds, newest>>
      BY <1>7, EloAsk
    <2> QED
      BY <2>1, <1>1 DEF EloTyped, StillRated
  <1> QED
    BY <1>2, <1>3, <1>4, <1>5, <1>6, <1>7 DEF Elo!Next, Elo!Horizon, Elo!vars, eloVars

\* A refresh that is to store a team not in doubt holds the newest feed that listed it.
RatedInv ==
    /\ \A p \in Procs : eloProc[p].cmd = "walk" =>
         \A t \in Elo!Listed(eloProc[p].left) \ doubt : eloProc[p].n = newest[t]
    /\ \A t \in Rated : t \in doubt \/ t \in Elo!Coming \/ Elo!ValueOf(t).n = newest[t]

LEMMA InComing ==
    ASSUME NEW t
    PROVE  t \in Elo!Coming <=>
             \E p \in Procs : eloProc[p].cmd = "walk" /\ t \in Elo!Listed(eloProc[p].left)
  BY DEF Elo!Coming

LEMMA InComingNext ==
    ASSUME NEW t
    PROVE  t \in Elo!Coming' <=>
             \E p \in Procs : eloProc'[p].cmd = "walk" /\ t \in Elo!Listed(eloProc'[p].left)
  BY DEF Elo!Coming, Elo!Listed

LEMMA RatedInvInit == Elo!Init => RatedInv
  BY DEF Elo!Init, RatedInv, Elo!ValueOf, Elo!Seed, Elo!Idle

\* The actions that rate nobody: a refresh that ends before its last row leaves doubt.
LEMMA RatedAside ==
    ASSUME RatedInv, EloTyped, NEW p \in Procs, EloOthers(p), UNCHANGED <<rating, newest>>,
           eloProc'[p].cmd # "walk", doubt \subseteq doubt',
           eloProc[p].cmd = "walk" => Elo!Listed(eloProc[p].left) \subseteq doubt'
    PROVE  RatedInv'
  <1>1. ASSUME NEW q \in Procs, eloProc'[q].cmd = "walk",
               NEW t \in Elo!Listed(eloProc'[q].left) \ doubt'
        PROVE  eloProc'[q].n = newest'[t]
    <2>1. eloProc'[q] = eloProc[q]
      BY <1>1 DEF EloOthers
    <2> QED
      BY <1>1, <2>1 DEF RatedInv
  <1>2. ASSUME NEW t \in Rated, t \notin doubt', t \notin Elo!Coming'
        PROVE  Elo!ValueOf(t)'.n = newest'[t]
    <2>1. ASSUME t \in Elo!Coming
          PROVE  FALSE
      <3>1. PICK q \in Procs : eloProc[q].cmd = "walk" /\ t \in Elo!Listed(eloProc[q].left)
        BY <2>1, InComing
      <3>2. q # p
        BY <1>2, <3>1
      <3> QED
        BY <1>2, <3>1, <3>2, InComingNext DEF EloOthers
    <2>2. Elo!ValueOf(t).n = newest[t]
      BY <1>2, <2>1 DEF RatedInv
    <2> QED
      BY <2>2 DEF Elo!ValueOf
  <1>3. \A q \in Procs : eloProc'[q].cmd = "walk" =>
          \A t \in Elo!Listed(eloProc'[q].left) \ doubt' : eloProc'[q].n = newest'[t]
    BY <1>1
  <1>4. \A t \in Rated : t \in doubt' \/ t \in Elo!Coming' \/ Elo!ValueOf(t)'.n = newest'[t]
    BY <1>2
  <1> QED
    BY <1>3, <1>4 DEF RatedInv, Elo!Listed

LEMMA RatedOnAccepted ==
    ASSUME RatedInv, EloTyped, Elo!EloAssumption, NEW p \in Procs, Elo!Accepted(p)
    PROVE  RatedInv'
  <1>1. PICK rows \in Rows :
          /\ EloOthers(p) /\ eloProc'[p] = [cmd |-> "walk", n |-> feeds + 1, left |-> rows]
          /\ newest' = [t \in Rated |-> IF t \in Elo!Listed(rows) THEN feeds + 1 ELSE newest[t]]
          /\ doubt' = (doubt \ Elo!Listed(rows)) \cup (Elo!Listed(rows) \cap Elo!Coming)
          /\ rating' = rating
    BY EloAccepted
  <1>2. eloProc'[p].cmd = "walk" /\ eloProc'[p].n = feeds + 1 /\ eloProc'[p].left = rows
    BY <1>1
  <1>3. Elo!Listed(rows) \subseteq Rated
    BY ListedRated
  <1>4. eloProc[p].cmd = "ask"
    BY DEF Elo!Accepted
  <1>5. ASSUME NEW q \in Procs, eloProc'[q].cmd = "walk",
               NEW t \in Elo!Listed(eloProc'[q].left) \ doubt'
        PROVE  eloProc'[q].n = newest'[t]
    <2>1. CASE q = p
      BY <1>1, <1>2, <1>3, <1>5, <2>1
    <2>2. CASE q # p
      <3>1. eloProc'[q] = eloProc[q]
        BY <1>1, <2>2 DEF EloOthers
      <3>2. t \in Elo!Coming
        BY <1>5, <3>1, InComing
      <3>3. t \notin Elo!Listed(rows) /\ t \notin doubt
        BY <1>1, <1>5, <3>2
      <3>4. t \in Rated
        <4>1. eloProc[q].left \in Rows
          BY <1>5, <3>1 DEF EloTyped, EloStaged
        <4> QED
          BY <1>5, <3>1, <4>1, ListedRated
      <3>5. eloProc[q].n = newest[t]
        BY <1>5, <3>1, <3>3 DEF RatedInv
      <3> QED
        BY <1>1, <3>1, <3>3, <3>4, <3>5
    <2> QED
      BY <2>1, <2>2
  <1>6. ASSUME NEW t \in Rated, t \notin doubt', t \notin Elo!Coming'
        PROVE  Elo!ValueOf(t)'.n = newest'[t]
    <2>1. t \notin Elo!Listed(rows)
      BY <1>2, <1>6, InComingNext
    <2>2. t \notin doubt /\ newest'[t] = newest[t]
      BY <1>1, <1>6, <2>1
    <2>3. ASSUME t \in Elo!Coming
          PROVE  FALSE
      <3>1. PICK q \in Procs : eloProc[q].cmd = "walk" /\ t \in Elo!Listed(eloProc[q].left)
        BY <2>3, InComing
      <3>2. q # p
        BY <1>4, <3>1
      <3> QED
        BY <1>1, <1>6, <3>1, <3>2, InComingNext DEF EloOthers
    <2>4. Elo!ValueOf(t).n = newest[t]
      BY <2>2, <2>3 DEF RatedInv
    <2> QED
      BY <1>1, <2>2, <2>4 DEF Elo!ValueOf
  <1>7. \A q \in Procs : eloProc'[q].cmd = "walk" =>
          \A t \in Elo!Listed(eloProc'[q].left) \ doubt' : eloProc'[q].n = newest'[t]
    BY <1>5
  <1>8. \A t \in Rated : t \in doubt' \/ t \in Elo!Coming' \/ Elo!ValueOf(t)'.n = newest'[t]
    BY <1>6
  <1> QED
    BY <1>7, <1>8 DEF RatedInv, Elo!Listed

LEMMA RatedOnUpsert ==
    ASSUME RatedInv, EloTyped, NEW p \in Procs, Elo!Upsert(p)
    PROVE  RatedInv'
  <1>0. PICK u : u = Head(eloProc[p].left).team
    OBVIOUS
  <1>1. /\ eloProc[p].cmd = "walk" /\ eloProc[p].left \in Rows /\ eloProc[p].left # <<>>
        /\ EloOthers(p) /\ eloProc'[p].cmd = "walk" /\ eloProc'[p].n = eloProc[p].n
        /\ eloProc'[p].left = Tail(eloProc[p].left)
        /\ DOMAIN rating' = DOMAIN rating \cup {u} /\ rating'[u].n = eloProc[p].n
        /\ \A t \in DOMAIN rating : t # u => rating'[t] = rating[t]
        /\ UNCHANGED <<newest, doubt>>
    BY <1>0, EloUpsert
  <1>2. Elo!Listed(eloProc[p].left) = {u} \cup Elo!Listed(Tail(eloProc[p].left))
    BY <1>0, <1>1, ListedParts
  <1>3. ASSUME NEW q \in Procs, eloProc'[q].cmd = "walk",
               NEW t \in Elo!Listed(eloProc'[q].left) \ doubt'
        PROVE  eloProc'[q].n = newest'[t]
    <2>1. eloProc[q].cmd = "walk" /\ eloProc'[q].n = eloProc[q].n
      BY <1>1, <1>3 DEF EloOthers
    <2>2. t \in Elo!Listed(eloProc[q].left) \ doubt
      <3>1. CASE q = p
        BY <1>1, <1>2, <1>3, <3>1
      <3>2. CASE q # p
        BY <1>1, <1>3, <3>2 DEF EloOthers
      <3> QED
        BY <3>1, <3>2
    <2> QED
      BY <1>1, <2>1, <2>2 DEF RatedInv
  <1>4. ASSUME NEW t \in Rated, t \notin doubt', t \notin Elo!Coming'
        PROVE  Elo!ValueOf(t)'.n = newest'[t]
    <2>1. CASE t = u
      <3>1. t \in Elo!Listed(eloProc[p].left) \ doubt
        BY <1>1, <1>2, <1>4, <2>1
      <3>2. eloProc[p].n = newest[t]
        BY <1>1, <3>1 DEF RatedInv
      <3> QED
        BY <1>1, <2>1, <3>2 DEF Elo!ValueOf
    <2>2. CASE t # u
      <3>1. ASSUME t \in Elo!Coming
            PROVE  FALSE
        <4>1. PICK q \in Procs : eloProc[q].cmd = "walk" /\ t \in Elo!Listed(eloProc[q].left)
          BY <3>1, InComing
        <4>2. eloProc'[q].cmd = "walk" /\ t \in Elo!Listed(eloProc'[q].left)
          <5>1. CASE q = p
            BY <1>1, <1>2, <2>2, <4>1, <5>1
          <5>2. CASE q # p
            BY <1>1, <4>1, <5>2 DEF EloOthers
          <5> QED
            BY <5>1, <5>2
        <4> QED
          BY <1>4, <4>2, InComingNext
      <3>2. Elo!ValueOf(t).n = newest[t]
        BY <1>1, <1>4, <3>1 DEF RatedInv
      <3>3. Elo!ValueOf(t)' = Elo!ValueOf(t)
        BY <1>1, <2>2 DEF Elo!ValueOf
      <3> QED
        BY <1>1, <3>2, <3>3
    <2> QED
      BY <2>1, <2>2
  <1>5. \A q \in Procs : eloProc'[q].cmd = "walk" =>
          \A t \in Elo!Listed(eloProc'[q].left) \ doubt' : eloProc'[q].n = newest'[t]
    BY <1>3
  <1>6. \A t \in Rated : t \in doubt' \/ t \in Elo!Coming' \/ Elo!ValueOf(t)'.n = newest'[t]
    BY <1>4
  <1> QED
    BY <1>5, <1>6 DEF RatedInv, Elo!Listed

LEMMA RatedInvStep ==
    ASSUME RatedInv, EloTyped, Elo!EloAssumption, [Elo!Next]_eloVars
    PROVE  RatedInv'
  <1>1. CASE UNCHANGED eloVars
    BY <1>1 DEF eloVars, RatedInv, Elo!Coming, Elo!ValueOf, Elo!Listed
  <1>2. ASSUME NEW p \in Procs,
               Elo!Start(p) \/ Elo!Fails(p) \/ Elo!Refused(p) \/ Elo!Priced(p)
        PROVE  RatedInv'
    <2>1. eloProc[p].cmd # "walk" /\ doubt' = doubt
      BY <1>2 DEF Elo!Start, Elo!Fails, Elo!Refused, Elo!Priced, Elo!Reading, Elo!Idle
    <2> QED
      BY <1>2, <2>1, EloSimple, RatedAside
  <1>3. ASSUME NEW p \in Procs, Elo!MarkOk(p)
        PROVE  RatedInv'
    <2>1. eloProc[p].left = <<>> /\ doubt' = doubt
      BY <1>3 DEF Elo!MarkOk
    <2>2. Elo!Listed(eloProc[p].left) = {}
      BY <2>1 DEF Elo!Listed
    <2> QED
      BY <1>3, <2>1, <2>2, EloSimple, RatedAside
  <1>4. ASSUME NEW p \in Procs, Elo!Kill(p)
        PROVE  RatedInv'
    <2>1. doubt' = doubt \cup Elo!Listed(eloProc[p].left)
      BY <1>4 DEF Elo!Kill
    <2> QED
      BY <1>4, <2>1, EloSimple, RatedAside
  <1>5. ASSUME NEW p \in Procs, NEW cmd \in {"match", "field"}, Elo!Read(p, cmd)
        PROVE  RatedInv'
    <2>1. /\ EloOthers(p) /\ eloProc[p].cmd = "none" /\ UNCHANGED <<rating, newest, doubt>>
          /\ eloProc'[p] = [cmd |-> cmd, next |-> 1, had |-> DOMAIN rating,
                            value |-> <<>>, label |-> <<>>]
      BY <1>5, EloSimple
    <2>2. eloProc'[p].cmd # "walk"
      BY <2>1
    <2> QED
      BY <2>1, <2>2, RatedAside
  <1>6. ASSUME NEW p \in Procs, Elo!AskValue(p) \/ Elo!AskLabel(p)
        PROVE  RatedInv'
    <2>1. /\ EloOthers(p) /\ UNCHANGED <<rating, newest, doubt>>
          /\ eloProc'[p].cmd = eloProc[p].cmd /\ eloProc[p].cmd \in {"match", "field"}
      BY <1>6, EloAsk
    <2> QED
      BY <2>1, RatedAside
  <1> QED
    BY <1>1, <1>2, <1>3, <1>4, <1>5, <1>6, RatedOnAccepted, RatedOnUpsert
    DEF Elo!Next, Elo!Horizon, Elo!vars, eloVars

-----------------------------------------------------------------------------
(* The bounds of a rating: what was stored alone, and what was accepted last. *)

BoundInv ==
    /\ floor \in [Rated -> Nat]
    /\ \A t \in Rated : /\ floor[t] <= Elo!ValueOf(t).n
                        /\ Elo!ValueOf(t).n <= newest[t]
                        /\ newest[t] <= feeds
    /\ \A p \in Procs : eloProc[p].cmd = "walk" =>
         \A t \in Elo!Listed(eloProc[p].left) : floor[t] <= eloProc[p].n /\ eloProc[p].n <= newest[t]

LEMMA BoundInvInit == Elo!Init => BoundInv
  BY DEF Elo!Init, BoundInv, Elo!ValueOf, Elo!Seed, Elo!Idle

LEMMA ValueNat ==
    ASSUME EloTyped, NEW t
    PROVE  Elo!ValueOf(t).n \in Nat
  BY DEF EloTyped, Elo!ValueOf, Elo!Seed

\* Only a row that is stored moves the floor.
LEMMA FloorKept ==
    ASSUME NEW p \in Procs
    PROVE  /\ Elo!Start(p) \/ Elo!Fails(p) \/ Elo!Refused(p) \/ Elo!MarkOk(p) \/ Elo!Kill(p)
                \/ Elo!Priced(p) \/ Elo!Accepted(p) \/ Elo!AskValue(p) \/ Elo!AskLabel(p)
                => floor' = floor
           /\ \A cmd \in {"match", "field"} : Elo!Read(p, cmd) => floor' = floor
  BY DEF Elo!Start, Elo!Fails, Elo!Refused, Elo!MarkOk, Elo!Kill, Elo!Priced, Elo!Accepted,
     Elo!AskValue, Elo!AskLabel, Elo!Read

LEMMA BoundAside ==
    ASSUME BoundInv, EloTyped, NEW p \in Procs, EloOthers(p), UNCHANGED <<rating, newest, floor>>,
           feeds' \in {feeds, feeds + 1}, eloProc'[p].cmd # "walk"
    PROVE  BoundInv'
  <1>1. ASSUME NEW q \in Procs, eloProc'[q].cmd = "walk", NEW t \in Elo!Listed(eloProc'[q].left)
        PROVE  floor[t] <= eloProc'[q].n /\ eloProc'[q].n <= newest[t]
    <2>1. eloProc'[q] = eloProc[q]
      BY <1>1 DEF EloOthers
    <2> QED
      BY <1>1, <2>1 DEF BoundInv
  <1>2. \A t \in Rated : newest[t] <= feeds'
    BY DEF BoundInv, EloTyped
  <1>3. \A t \in Rated : Elo!ValueOf(t)' = Elo!ValueOf(t)
    BY DEF Elo!ValueOf
  <1>4. \A q \in Procs : eloProc'[q].cmd = "walk" =>
          \A t \in Elo!Listed(eloProc'[q].left) :
            floor'[t] <= eloProc'[q].n /\ eloProc'[q].n <= newest'[t]
    BY <1>1
  <1> QED
    BY <1>2, <1>3, <1>4 DEF BoundInv, Elo!Listed

LEMMA BoundOnAccepted ==
    ASSUME BoundInv, EloTyped, Elo!EloAssumption, NEW p \in Procs, Elo!Accepted(p)
    PROVE  BoundInv'
  <1>1. PICK rows \in Rows :
          /\ EloOthers(p) /\ eloProc'[p] = [cmd |-> "walk", n |-> feeds + 1, left |-> rows]
          /\ newest' = [t \in Rated |-> IF t \in Elo!Listed(rows) THEN feeds + 1 ELSE newest[t]]
          /\ rating' = rating /\ feeds' = feeds + 1
    BY EloAccepted
  <1>2. /\ eloProc'[p].cmd = "walk" /\ eloProc'[p].n = feeds + 1 /\ eloProc'[p].left = rows
        /\ floor' = floor
    BY <1>1, FloorKept
  <1>3. ASSUME NEW t \in Rated
        PROVE  /\ newest[t] \in Nat /\ newest'[t] \in Nat /\ floor[t] \in Nat /\ feeds \in Nat
               /\ newest[t] <= newest'[t] /\ newest'[t] <= feeds + 1
               /\ Elo!ValueOf(t)' = Elo!ValueOf(t) /\ Elo!ValueOf(t).n \in Nat
               /\ floor[t] <= feeds
    <2>1. /\ newest[t] \in Nat /\ floor[t] \in Nat /\ feeds \in Nat
          /\ floor[t] <= Elo!ValueOf(t).n /\ Elo!ValueOf(t).n <= newest[t] /\ newest[t] <= feeds
      BY DEF EloTyped, BoundInv
    <2>2. Elo!ValueOf(t)' = Elo!ValueOf(t) /\ Elo!ValueOf(t).n \in Nat
      BY <1>1, ValueNat DEF Elo!ValueOf
    <2>3. newest'[t] = feeds + 1 \/ newest'[t] = newest[t]
      BY <1>1
    <2> QED
      BY <2>1, <2>2, <2>3
  <1>4. ASSUME NEW q \in Procs, eloProc'[q].cmd = "walk", NEW t \in Elo!Listed(eloProc'[q].left)
        PROVE  floor'[t] <= eloProc'[q].n /\ eloProc'[q].n <= newest'[t]
    <2>1. CASE q = p
      <3>1. t \in Elo!Listed(rows) /\ t \in Rated
        BY <1>2, <1>4, <2>1, ListedRated
      <3> QED
        BY <1>1, <1>2, <1>3, <2>1, <3>1
    <2>2. CASE q # p
      <3>1. eloProc'[q] = eloProc[q]
        BY <1>1, <2>2 DEF EloOthers
      <3>2. eloProc[q].left \in Rows /\ eloProc[q].n \in Nat
        BY <1>4, <3>1 DEF EloTyped, EloStaged
      <3>3. t \in Rated
        BY <1>4, <3>1, <3>2, ListedRated
      <3>4. floor[t] <= eloProc[q].n /\ eloProc[q].n <= newest[t]
        BY <1>4, <3>1 DEF BoundInv
      <3> QED
        BY <1>2, <1>3, <3>1, <3>2, <3>3, <3>4
    <2> QED
      BY <2>1, <2>2
  <1>5. \A t \in Rated : /\ floor'[t] <= Elo!ValueOf(t)'.n
                         /\ Elo!ValueOf(t)'.n <= newest'[t]
                         /\ newest'[t] <= feeds'
    <2>1. ASSUME NEW t \in Rated
          PROVE  floor[t] <= Elo!ValueOf(t).n /\ Elo!ValueOf(t).n <= newest[t]
      BY DEF BoundInv
    <2> QED
      BY <1>1, <1>2, <1>3, <2>1
  <1>6. \A q \in Procs : eloProc'[q].cmd = "walk" =>
          \A t \in Elo!Listed(eloProc'[q].left) :
            floor'[t] <= eloProc'[q].n /\ eloProc'[q].n <= newest'[t]
    BY <1>4
  <1> QED
    BY <1>2, <1>5, <1>6 DEF BoundInv, Elo!Listed

LEMMA BoundOnUpsert ==
    ASSUME BoundInv, EloTyped, NEW p \in Procs, Elo!Upsert(p)
    PROVE  BoundInv'
  <1>0. PICK u : u = Head(eloProc[p].left).team
    OBVIOUS
  <1>1. /\ eloProc[p].cmd = "walk" /\ eloProc[p].left \in Rows /\ eloProc[p].left # <<>>
        /\ eloProc[p].n \in Nat
        /\ EloOthers(p) /\ eloProc'[p].cmd = "walk" /\ eloProc'[p].n = eloProc[p].n
        /\ eloProc'[p].left = Tail(eloProc[p].left)
        /\ DOMAIN rating' = DOMAIN rating \cup {u} /\ rating'[u].n = eloProc[p].n
        /\ \A t \in DOMAIN rating : t # u => rating'[t] = rating[t]
        /\ UNCHANGED <<newest, feeds>>
    BY <1>0, EloUpsert
  <1>2. /\ Elo!Listed(eloProc[p].left) = {u} \cup Elo!Listed(Tail(eloProc[p].left))
        /\ u \in Rated
    BY <1>0, <1>1, ListedParts
  <1>3. \/ floor' = floor
        \/ /\ floor' = [floor EXCEPT ![u] = eloProc[p].n]
           /\ \A q \in Procs \ {p} : eloProc[q].cmd = "walk" => u \notin Elo!Listed(eloProc[q].left)
    BY <1>0 DEF Elo!Upsert, Elo!Beside
  <1>4. floor[u] <= eloProc[p].n /\ eloProc[p].n <= newest[u]
    BY <1>1, <1>2 DEF BoundInv
  <1>5. /\ floor' \in [Rated -> Nat] /\ floor'[u] <= eloProc[p].n
        /\ \A t \in Rated \ {u} : floor'[t] = floor[t]
    BY <1>1, <1>2, <1>3, <1>4 DEF BoundInv
  <1>6. ASSUME NEW t \in Rated
        PROVE  floor'[t] <= Elo!ValueOf(t)'.n /\ Elo!ValueOf(t)'.n <= newest'[t]
    <2>1. CASE t = u
      <3>1. Elo!ValueOf(t)'.n = eloProc[p].n
        BY <1>1, <2>1 DEF Elo!ValueOf
      <3> QED
        BY <1>1, <1>4, <1>5, <2>1, <3>1
    <2>2. CASE t # u
      <3>1. Elo!ValueOf(t)' = Elo!ValueOf(t)
        BY <1>1, <2>2 DEF Elo!ValueOf
      <3> QED
        BY <1>1, <1>5, <2>2, <3>1 DEF BoundInv
    <2> QED
      BY <2>1, <2>2
  <1>7. ASSUME NEW q \in Procs, eloProc'[q].cmd = "walk", NEW t \in Elo!Listed(eloProc'[q].left)
        PROVE  floor'[t] <= eloProc'[q].n /\ eloProc'[q].n <= newest'[t]
    <2>1. eloProc[q].cmd = "walk" /\ eloProc'[q].n = eloProc[q].n
      BY <1>1, <1>7 DEF EloOthers
    <2>2. t \in Elo!Listed(eloProc[q].left)
      BY <1>1, <1>2, <1>7 DEF EloOthers
    <2>3. floor[t] <= eloProc[q].n /\ eloProc[q].n <= newest[t]
      BY <2>1, <2>2 DEF BoundInv
    <2>4. eloProc[q].left \in Rows
      BY <2>1 DEF EloTyped, EloStaged
    <2>5. t \in Rated
      BY <2>2, <2>4, ListedRated
    <2>6. CASE t = u /\ q = p
      BY <1>1, <1>5, <2>1, <2>3, <2>6
    <2>7. CASE t = u /\ q # p
      <3>1. floor' = floor
        BY <1>3, <2>1, <2>2, <2>7
      <3> QED
        BY <1>1, <2>1, <2>3, <3>1
    <2>8. CASE t # u
      BY <1>1, <1>5, <2>1, <2>3, <2>5, <2>8
    <2> QED
      BY <2>6, <2>7, <2>8
  <1>8. \A q \in Procs : eloProc'[q].cmd = "walk" =>
          \A t \in Elo!Listed(eloProc'[q].left) :
            floor'[t] <= eloProc'[q].n /\ eloProc'[q].n <= newest'[t]
    BY <1>7
  <1>9. \A t \in Rated : newest'[t] <= feeds'
    BY <1>1 DEF BoundInv
  <1> QED
    BY <1>5, <1>6, <1>8, <1>9 DEF BoundInv, Elo!Listed

LEMMA BoundInvStep ==
    ASSUME BoundInv, EloTyped, Elo!EloAssumption, [Elo!Next]_eloVars
    PROVE  BoundInv'
  <1>1. CASE UNCHANGED eloVars
    BY <1>1 DEF eloVars, BoundInv, Elo!ValueOf, Elo!Listed
  <1>2. ASSUME NEW p \in Procs,
               Elo!Start(p) \/ Elo!Fails(p) \/ Elo!Refused(p) \/ Elo!MarkOk(p) \/ Elo!Kill(p)
                 \/ Elo!Priced(p)
        PROVE  BoundInv'
    <2>1. /\ EloOthers(p) /\ eloProc'[p].cmd \in {"none", "ask"}
          /\ UNCHANGED <<rating, newest, floor>> /\ feeds' \in {feeds, feeds + 1}
      BY <1>2, EloSimple, FloorKept
    <2> QED
      BY <2>1, BoundAside
  <1>3. ASSUME NEW p \in Procs, NEW cmd \in {"match", "field"}, Elo!Read(p, cmd)
        PROVE  BoundInv'
    <2>1. /\ EloOthers(p) /\ UNCHANGED <<rating, newest, feeds, floor>>
          /\ eloProc'[p] = [cmd |-> cmd, next |-> 1, had |-> DOMAIN rating,
                            value |-> <<>>, label |-> <<>>]
      BY <1>3, EloSimple, FloorKept
    <2>2. eloProc'[p].cmd # "walk"
      BY <2>1
    <2> QED
      BY <2>1, <2>2, BoundAside
  <1>4. ASSUME NEW p \in Procs, Elo!AskValue(p) \/ Elo!AskLabel(p)
        PROVE  BoundInv'
    <2>1. /\ EloOthers(p) /\ UNCHANGED <<rating, newest, feeds, floor>>
          /\ eloProc'[p].cmd = eloProc[p].cmd /\ eloProc[p].cmd \in {"match", "field"}
      BY <1>4, EloAsk, FloorKept
    <2> QED
      BY <2>1, BoundAside
  <1> QED
    BY <1>1, <1>2, <1>3, <1>4, BoundOnAccepted, BoundOnUpsert
    DEF Elo!Next, Elo!Horizon, Elo!vars, eloVars

LEMMA RatedInvIsByTheNewest == RatedInv /\ BoundInv => RatedByTheNewest
  BY DEF RatedInv, BoundInv, RatedByTheNewest, Elo!RatedByTheNewest

-----------------------------------------------------------------------------
(* What the readers read.                                                    *)

\* What a reader has asked for, against what is rated: a live rating stays one, so what it
\* read as live still is, and what it reads of a team it knew of is live.
ReadsTrue(p) ==
    /\ eloProc[p].had \subseteq DOMAIN rating
    /\ \A t \in DOMAIN eloProc[p].value :
         /\ eloProc[p].value[t] # Elo!Seed => t \in DOMAIN rating
         /\ t \in eloProc[p].had => eloProc[p].value[t] # Elo!Seed
    /\ \A t \in DOMAIN eloProc[p].label : eloProc[p].label[t] = Elo!Live => t \in DOMAIN rating
    /\ \A t \in DOMAIN eloProc[p].value \cap DOMAIN eloProc[p].label :
         eloProc[p].value[t] # Elo!Seed => eloProc[p].label[t] = Elo!Live

\* A match has asked for both values before it asks for a label.
ValuesFirst(p) == eloProc[p].next <= 2 => DOMAIN eloProc[p].label = {}

LiveLabel(p, t) == t \in DOMAIN eloProc[p].label /\ eloProc[p].label[t] = Elo!Live

\* An outright asks for the value of a team it has found to be live.
LabelsFirst(p) ==
    /\ \A t \in DOMAIN eloProc[p].value : LiveLabel(p, t) /\ eloProc[p].value[t] # Elo!Seed
    /\ eloProc[p].next \in 1 .. 2 * Len(Field) /\ eloProc[p].next % 2 = 0
         => LiveLabel(p, Field[eloProc[p].next \div 2])

LabelInv ==
    \A p \in Procs :
      /\ eloProc[p].cmd \in {"match", "field"} => ReadsTrue(p)
      /\ eloProc[p].cmd = "match" => ValuesFirst(p)
      /\ eloProc[p].cmd = "field" => LabelsFirst(p)

LEMMA LabelInvIsAsRated == LabelInv => LabelledAsRated
  <1> SUFFICES ASSUME LabelInv, NEW p \in Procs, Elo!Reading(p),
                      NEW t \in DOMAIN eloProc[p].value \cap DOMAIN eloProc[p].label
               PROVE  /\ eloProc[p].value[t] # Elo!Seed => eloProc[p].label[t] = Elo!Live
                      /\ eloProc[p].label[t] = Elo!Live
                           /\ (eloProc[p].cmd = "field" \/ t \in eloProc[p].had)
                         => eloProc[p].value[t] # Elo!Seed
    BY DEF LabelledAsRated, Elo!LabelledAsRated
  <1>1. ReadsTrue(p)
    BY DEF LabelInv, Elo!Reading
  <1>2. eloProc[p].cmd = "field" => eloProc[p].value[t] # Elo!Seed
    BY DEF LabelInv, LabelsFirst
  <1> QED
    BY <1>1, <1>2 DEF ReadsTrue

LEMMA LabelInvInit == Elo!Init => LabelInv
  BY DEF Elo!Init, LabelInv, Elo!Idle

\* A reader that asks nothing in this step.
LEMMA StillTrue ==
    ASSUME NEW q, eloProc'[q] = eloProc[q], StillRated
    PROVE  /\ ReadsTrue(q) => ReadsTrue(q)'
           /\ ValuesFirst(q) => ValuesFirst(q)'
           /\ LabelsFirst(q) => LabelsFirst(q)'
  BY DEF ReadsTrue, ValuesFirst, LabelsFirst, LiveLabel, StillRated, Elo!Seed, Elo!Live

LEMMA LabelAside ==
    ASSUME LabelInv, StillRated, NEW p \in Procs, EloOthers(p),
           eloProc'[p].cmd \in {"match", "field"} => ReadsTrue(p)',
           eloProc'[p].cmd = "match" => ValuesFirst(p)',
           eloProc'[p].cmd = "field" => LabelsFirst(p)'
    PROVE  LabelInv'
  <1>1. ASSUME NEW q \in Procs
        PROVE  /\ eloProc'[q].cmd \in {"match", "field"} => ReadsTrue(q)'
               /\ eloProc'[q].cmd = "match" => ValuesFirst(q)'
               /\ eloProc'[q].cmd = "field" => LabelsFirst(q)'
    <2>1. CASE q = p
      BY <2>1
    <2>2. CASE q # p
      <3>1. eloProc'[q] = eloProc[q]
        BY <2>2 DEF EloOthers
      <3>2. /\ eloProc[q].cmd \in {"match", "field"} => ReadsTrue(q)
            /\ eloProc[q].cmd = "match" => ValuesFirst(q)
            /\ eloProc[q].cmd = "field" => LabelsFirst(q)
        BY DEF LabelInv
      <3> QED
        BY <3>1, <3>2, StillTrue
    <2> QED
      BY <2>1, <2>2
  <1> QED
    BY <1>1 DEF LabelInv

\* A value is that of a live rating, or of the seed; so is a label.
LEMMA Answers ==
    ASSUME EloTyped, NEW t
    PROVE  /\ Elo!ValueOf(t) # Elo!Seed <=> t \in DOMAIN rating
           /\ Elo!LabelOf(t) = Elo!Live <=> t \in DOMAIN rating
  <1>1. t \in DOMAIN rating => Elo!ValueOf(t).n # 0
    BY DEF EloTyped, Elo!ValueOf
  <1>2. Elo!Seed.n = 0
    BY DEF Elo!Seed
  <1>3. t \notin DOMAIN rating => Elo!ValueOf(t) = Elo!Seed
    BY DEF Elo!ValueOf
  <1>4. Elo!LabelOf(t) = Elo!Live <=> t \in DOMAIN rating
    BY DEF Elo!LabelOf, Elo!Live
  <1> QED
    BY <1>1, <1>2, <1>3, <1>4

LEMMA LabelOnRead ==
    ASSUME LabelInv, EloTyped, NEW p \in Procs, NEW cmd \in {"match", "field"}, Elo!Read(p, cmd)
    PROVE  LabelInv'
  <1>1. /\ EloOthers(p) /\ rating' = rating
        /\ eloProc'[p] = [cmd |-> cmd, next |-> 1, had |-> DOMAIN rating,
                          value |-> <<>>, label |-> <<>>]
    BY EloSimple
  <1>2. /\ eloProc'[p].next = 1 /\ eloProc'[p].had = DOMAIN rating
        /\ DOMAIN eloProc'[p].value = {} /\ DOMAIN eloProc'[p].label = {}
    BY <1>1
  <1>3. ReadsTrue(p)' /\ ValuesFirst(p)'
    BY <1>1, <1>2 DEF ReadsTrue, ValuesFirst
  <1>4. LabelsFirst(p)'
    BY <1>2 DEF LabelsFirst
  <1> QED
    BY <1>1, <1>3, <1>4, LabelAside DEF StillRated

\* A match asks for a value, and has no label yet; or for a label, and has its values.
LEMMA MatchAsks ==
    ASSUME LabelInv, EloTyped, Elo!EloAssumption, NEW p \in Procs,
           Elo!AskValue(p) \/ Elo!AskLabel(p), eloProc[p].cmd = "match"
    PROVE  ReadsTrue(p)' /\ ValuesFirst(p)'
  <1>1. PICK a : a = Elo!PlanOf("match")[eloProc[p].next]
    OBVIOUS
  <1>2. PICK t : t = a.team
    OBVIOUS
  <1>3. /\ eloProc[p].next \in 1 .. 4 /\ eloProc'[p].had = eloProc[p].had
        /\ a.ask = IF eloProc[p].next <= 2 THEN "value" ELSE "label"
        /\ \/ /\ a.ask = "value" /\ eloProc'[p].next = eloProc[p].next + 1
              /\ eloProc'[p].label = eloProc[p].label
              /\ eloProc'[p].value = Elo!Got(eloProc[p].value, t, Elo!ValueOf(t))
           \/ /\ a.ask = "label" /\ eloProc'[p].value = eloProc[p].value
              /\ eloProc'[p].next = eloProc[p].next + Elo!Onward("match", Elo!LabelOf(t))
              /\ eloProc'[p].label = Elo!Got(eloProc[p].label, t, Elo!LabelOf(t))
        /\ rating' = rating
    BY <1>1, <1>2, EloAsk, Plans
  <1>4. ReadsTrue(p) /\ ValuesFirst(p)
    BY DEF LabelInv
  <1>5. CASE a.ask = "value"
    <2>1. /\ DOMAIN eloProc[p].label = {} /\ eloProc'[p].label = eloProc[p].label
          /\ eloProc'[p].value = Elo!Got(eloProc[p].value, t, Elo!ValueOf(t))
      BY <1>3, <1>4, <1>5 DEF ValuesFirst
    <2>2. ValuesFirst(p)'
      BY <2>1 DEF ValuesFirst
    <2>3. /\ DOMAIN eloProc'[p].value = DOMAIN eloProc[p].value \cup {t}
          /\ eloProc'[p].value[t] = Elo!ValueOf(t)
          /\ \A u \in DOMAIN eloProc[p].value :
               u # t => eloProc'[p].value[u] = eloProc[p].value[u]
      BY <2>1 DEF Elo!Got
    <2>4. ASSUME NEW u \in DOMAIN eloProc'[p].value
          PROVE  /\ eloProc'[p].value[u] # Elo!Seed => u \in DOMAIN rating
                 /\ u \in eloProc[p].had => eloProc'[p].value[u] # Elo!Seed
      BY <1>4, <2>3, <2>4, Answers DEF ReadsTrue
    <2>5. ReadsTrue(p)'
      BY <1>3, <1>4, <2>1, <2>4 DEF ReadsTrue, Elo!Seed, Elo!Live
    <2> QED
      BY <2>2, <2>5
  <1>6. CASE a.ask = "label"
    <2>1. /\ eloProc'[p].value = eloProc[p].value /\ ~(eloProc'[p].next <= 2)
          /\ eloProc'[p].label = Elo!Got(eloProc[p].label, t, Elo!LabelOf(t))
      BY <1>3, <1>6 DEF Elo!Onward
    <2>2. ValuesFirst(p)'
      BY <2>1 DEF ValuesFirst
    <2>3. /\ DOMAIN eloProc'[p].label = DOMAIN eloProc[p].label \cup {t}
          /\ eloProc'[p].label[t] = Elo!LabelOf(t)
          /\ \A u \in DOMAIN eloProc[p].label :
               u # t => eloProc'[p].label[u] = eloProc[p].label[u]
      BY <2>1 DEF Elo!Got
    <2>4. ASSUME NEW u \in DOMAIN eloProc'[p].label
          PROVE  /\ eloProc'[p].label[u] = Elo!Live => u \in DOMAIN rating
                 /\ u \in DOMAIN eloProc[p].value /\ eloProc[p].value[u] # Elo!Seed
                      => eloProc'[p].label[u] = Elo!Live
      BY <1>4, <2>3, <2>4, Answers DEF ReadsTrue
    <2>5. ReadsTrue(p)'
      BY <1>3, <1>4, <2>1, <2>4 DEF ReadsTrue, Elo!Seed, Elo!Live
    <2> QED
      BY <2>2, <2>5
  <1> QED
    BY <1>3, <1>5, <1>6

LEMMA Halves ==
    ASSUME NEW k \in Nat
    PROVE  /\ k % 2 = 1 => (k + 1) % 2 = 0 /\ (k + 2) % 2 = 1
           /\ k % 2 = 0 => (k + 1) % 2 = 1
           /\ k % 2 \in {0, 1}
  OBVIOUS

\* An outright asks for a label, and goes on to the value if the rating is live.
LEMMA FieldAsks ==
    ASSUME LabelInv, EloTyped, Elo!EloAssumption, NEW p \in Procs,
           Elo!AskValue(p) \/ Elo!AskLabel(p), eloProc[p].cmd = "field"
    PROVE  ReadsTrue(p)' /\ LabelsFirst(p)'
  <1> DEFINE a == Elo!PlanOf("field")[eloProc[p].next]
  <1>0. PICK k \in Nat : k = eloProc[p].next
    BY EloAsk
  <1>1. PICK t : t = Field[IF k % 2 = 1 THEN (k + 1) \div 2 ELSE k \div 2]
    OBVIOUS
  <1>2. /\ k \in 1 .. 2 * Len(Field) /\ Len(Field) \in Nat
        /\ a = IF k % 2 = 1 THEN Elo!Label(t) ELSE Elo!Value(t)
    BY <1>0, <1>1, EloAsk, Plans
  <1>3. a.team = t /\ a.ask = IF k % 2 = 1 THEN "label" ELSE "value"
    BY <1>2 DEF Elo!Label, Elo!Value
  <1>4. /\ eloProc'[p].had = eloProc[p].had /\ rating' = rating
        /\ \/ /\ a.ask = "value" /\ eloProc'[p].next = k + 1
              /\ eloProc'[p].label = eloProc[p].label
              /\ eloProc'[p].value = Elo!Got(eloProc[p].value, a.team, Elo!ValueOf(a.team))
           \/ /\ a.ask = "label" /\ eloProc'[p].value = eloProc[p].value
              /\ eloProc'[p].next = k + Elo!Onward("field", Elo!LabelOf(a.team))
              /\ eloProc'[p].label = Elo!Got(eloProc[p].label, a.team, Elo!LabelOf(a.team))
    BY <1>0, EloAsk
  <1>5. ReadsTrue(p) /\ LabelsFirst(p)
    BY DEF LabelInv
  <1> HIDE DEF a
  <1>6. CASE k % 2 = 0
    <2>1. LiveLabel(p, t)
      BY <1>0, <1>1, <1>2, <1>5, <1>6 DEF LabelsFirst
    <2>2. /\ eloProc'[p].next = k + 1 /\ eloProc'[p].label = eloProc[p].label
          /\ eloProc'[p].value = Elo!Got(eloProc[p].value, t, Elo!ValueOf(t))
      BY <1>3, <1>4, <1>6
    <2>3. t \in DOMAIN rating /\ Elo!ValueOf(t) # Elo!Seed
      BY <1>5, <2>1, Answers DEF ReadsTrue, LiveLabel
    <2>8. /\ DOMAIN eloProc'[p].value = DOMAIN eloProc[p].value \cup {t}
          /\ eloProc'[p].value[t] = Elo!ValueOf(t)
          /\ \A u \in DOMAIN eloProc[p].value :
               u # t => eloProc'[p].value[u] = eloProc[p].value[u]
      BY <2>2 DEF Elo!Got
    <2>4. ASSUME NEW u \in DOMAIN eloProc'[p].value
          PROVE  /\ u \in DOMAIN eloProc[p].label /\ eloProc[p].label[u] = Elo!Live
                 /\ eloProc'[p].value[u] # Elo!Seed
      BY <1>5, <2>1, <2>3, <2>4, <2>8 DEF LabelsFirst, LiveLabel
    <2>5. (k + 1) % 2 # 0
      BY <1>6, Halves
    <2>6. LabelsFirst(p)'
      BY <2>2, <2>4, <2>5 DEF LabelsFirst, LiveLabel, Elo!Seed, Elo!Live
    <2>7. ReadsTrue(p)'
      BY <1>4, <1>5, <2>2, <2>4 DEF ReadsTrue, Elo!Seed, Elo!Live
    <2> QED
      BY <2>6, <2>7
  <1>7. CASE k % 2 = 1
    <2>0. PICK label : label = Elo!LabelOf(t)
      OBVIOUS
    <2>1. /\ eloProc'[p].value = eloProc[p].value
          /\ eloProc'[p].next = IF label = Elo!Live THEN k + 1 ELSE k + 2
          /\ eloProc'[p].label = Elo!Got(eloProc[p].label, t, label)
      BY <1>3, <1>4, <1>7, <2>0 DEF Elo!Onward
    <2>2. label = Elo!Live <=> t \in DOMAIN rating
      BY <2>0, Answers
    <2>3. /\ DOMAIN eloProc'[p].label = DOMAIN eloProc[p].label \cup {t}
          /\ eloProc'[p].label[t] = label
          /\ \A u \in DOMAIN eloProc[p].label :
               u # t => eloProc'[p].label[u] = eloProc[p].label[u]
      BY <2>1 DEF Elo!Got
    <2>4. ASSUME NEW u, LiveLabel(p, u)
          PROVE  LiveLabel(p, u)'
      <3>1. u \in DOMAIN rating
        BY <1>5, <2>4 DEF ReadsTrue, LiveLabel
      <3> QED
        BY <2>2, <2>3, <2>4, <3>1 DEF LiveLabel, Elo!Live
    <2>5. \A u \in DOMAIN eloProc'[p].value : LiveLabel(p, u)' /\ eloProc'[p].value[u] # Elo!Seed
      BY <1>5, <2>1, <2>4 DEF LabelsFirst
    <2>6. ASSUME NEW u, eloProc'[p].next % 2 = 0, u = Field[eloProc'[p].next \div 2]
          PROVE  u \in DOMAIN eloProc'[p].label /\ eloProc'[p].label[u] = Elo!Live
      <3>1. label = Elo!Live /\ eloProc'[p].next = k + 1
        BY <1>7, <2>1, <2>6, Halves
      <3>2. t = Field[(k + 1) \div 2]
        BY <1>1, <1>7
      <3>3. t \in DOMAIN eloProc'[p].label /\ eloProc'[p].label[t] = Elo!Live
        BY <2>3, <3>1
      <3> QED
        BY <2>6, <3>1, <3>2, <3>3
    <2>7. LabelsFirst(p)'
      BY <2>5, <2>6 DEF LabelsFirst, LiveLabel, Elo!Seed, Elo!Live
    <2>8. ASSUME NEW u \in DOMAIN eloProc'[p].label, eloProc'[p].label[u] = Elo!Live
          PROVE  u \in DOMAIN rating
      BY <1>5, <2>2, <2>3, <2>8 DEF ReadsTrue
    <2>9. \A u \in DOMAIN eloProc'[p].value :
            u \in DOMAIN eloProc'[p].label /\ eloProc'[p].label[u] = Elo!Live
      BY <2>5 DEF LiveLabel, Elo!Live
    <2>10. ReadsTrue(p)'
      BY <1>4, <1>5, <2>1, <2>8, <2>9 DEF ReadsTrue, Elo!Seed, Elo!Live
    <2> QED
      BY <2>7, <2>10
  <1> QED
    BY <1>6, <1>7, Halves

LEMMA LabelInvStep ==
    ASSUME LabelInv, EloTyped, Elo!EloAssumption, [Elo!Next]_eloVars
    PROVE  LabelInv'
  <1>0. StillRated
    BY EloTypedStep
  <1>1. CASE UNCHANGED eloVars
    BY <1>1 DEF eloVars, LabelInv, ReadsTrue, ValuesFirst, LabelsFirst, LiveLabel,
       Elo!Seed, Elo!Live
  <1>2. ASSUME NEW p \in Procs,
               Elo!Start(p) \/ Elo!Fails(p) \/ Elo!Refused(p) \/ Elo!MarkOk(p) \/ Elo!Kill(p)
                 \/ Elo!Priced(p)
        PROVE  LabelInv'
    BY <1>0, <1>2, EloSimple, LabelAside
  <1>3. ASSUME NEW p \in Procs, Elo!Accepted(p)
        PROVE  LabelInv'
    <2>2. PICK rows \in Rows :
            EloOthers(p) /\ eloProc'[p] = [cmd |-> "walk", n |-> feeds + 1, left |-> rows]
      BY <1>3, EloAccepted
    <2>1. EloOthers(p) /\ eloProc'[p].cmd = "walk"
      BY <2>2
    <2> QED
      BY <1>0, <2>1, LabelAside
  <1>4. ASSUME NEW p \in Procs, Elo!Upsert(p)
        PROVE  LabelInv'
    <2>1. EloOthers(p) /\ eloProc'[p].cmd = "walk"
      BY <1>4, EloUpsert
    <2> QED
      BY <1>0, <2>1, LabelAside
  <1>5. ASSUME NEW p \in Procs, Elo!AskValue(p) \/ Elo!AskLabel(p)
        PROVE  LabelInv'
    <2>1. /\ EloOthers(p) /\ eloProc'[p].cmd = eloProc[p].cmd
          /\ eloProc[p].cmd \in {"match", "field"}
      BY <1>5, EloAsk
    <2> QED
      BY <1>0, <1>5, <2>1, MatchAsks, FieldAsks, LabelAside
  <1> QED
    BY <1>1, <1>2, <1>3, <1>4, <1>5, LabelOnRead
    DEF Elo!Next, Elo!Horizon, Elo!vars, eloVars

-----------------------------------------------------------------------------
(* The odds                                                                  *)

FetchFields == {"cmd", "pc", "n", "answer", "left", "at", "venues", "rows", "todo"}
RunFields == {"cmd", "pc", "left", "read", "doubt"}

\* What a refresh that has its answer knows: it owes every event until it resolves them.
Fetching(r) ==
    /\ DOMAIN r = FetchFields /\ r.cmd = "fetch"
    /\ r.pc \in {"event", "delete", "insert", "resolve"} /\ r.n \in Nat \ {0}
    /\ DOMAIN r.answer \subseteq Events /\ r.left \subseteq DOMAIN r.answer
    /\ r.venues \subseteq Venues /\ r.todo \subseteq DOMAIN r.answer
    /\ IF r.pc = "resolve" THEN r.left = {} ELSE r.todo = DOMAIN r.answer
    /\ r.pc = "delete" => \E e \in Events : r.at = <<e>>
    /\ r.pc = "insert" => \E e \in Events, v \in Venues : r.at = <<e, v>>

Books == [Venues -> [Outcomes -> Nat]]

Running(r) ==
    /\ DOMAIN r = RunFields /\ r.cmd = "run" /\ r.pc \in {"prices", "merged"}
    /\ r.read \in Seq(Books)

\* Neither: nothing under way, or no answer yet.
Waiting(r) ==
    \/ r.cmd = "none" /\ r.pc = "idle"
    \/ r.cmd = "fetch" /\ r.pc = "ask"

OddsTyped ==
    /\ stored \in Seq(Events) /\ prices \in [Events -> Books] /\ answers \in Nat
    /\ DOMAIN oddsProc = Procs
    /\ \A p \in Procs : Waiting(oddsProc[p]) \/ Fetching(oddsProc[p]) \/ Running(oddsProc[p])

LEMMA OddsTypedInit == Odds!Init => OddsTyped
  <1> SUFFICES ASSUME Odds!Init
               PROVE  OddsTyped
    OBVIOUS
  <1>1. stored \in Seq(Events) /\ answers \in Nat
    BY DEF Odds!Init
  <1>2. Odds!Blank \in [Outcomes -> Nat]
    BY DEF Odds!Blank, Odds!None
  <1>3. prices \in [Events -> Books]
    BY <1>2 DEF Odds!Init, Books
  <1>4. DOMAIN oddsProc = Procs /\ \A p \in Procs : Waiting(oddsProc[p])
    BY DEF Odds!Init, Waiting, Odds!Idle
  <1> QED
    BY <1>1, <1>3, <1>4 DEF OddsTyped

OddsOthers(p) == DOMAIN oddsProc' = Procs /\ \A q \in Procs \ {p} : oddsProc'[q] = oddsProc[q]

LEMMA OddsFresh ==
    ASSUME OddsTyped, NEW p \in Procs, NEW s, oddsProc' = [oddsProc EXCEPT ![p] = s]
    PROVE  OddsOthers(p) /\ oddsProc'[p] = s
  BY DEF OddsTyped, OddsOthers

LEMMA OnwardParts ==
    ASSUME NEW r, DOMAIN r = FetchFields, r.cmd = "fetch", r.n \in Nat \ {0},
           DOMAIN r.answer \subseteq Events, r.todo = DOMAIN r.answer,
           NEW venues \in SUBSET Venues, NEW left \in SUBSET DOMAIN r.answer,
           venues # {} => \E e \in Events : r.at = <<e>>
    PROVE  LET s == Odds!Onward(r, venues, left) IN
           /\ Fetching(s) /\ s.pc \in {"event", "delete", "resolve"}
           /\ s.n = r.n /\ s.left = left /\ s.todo = r.todo
  <1>1. CASE venues # {}
    <2>1. PICK s : s = [r EXCEPT !.pc = "delete", !.venues = venues, !.left = left]
      OBVIOUS
    <2>2. s = Odds!Onward(r, venues, left)
      BY <1>1, <2>1 DEF Odds!Onward
    <2>3. /\ DOMAIN s = FetchFields /\ s.pc = "delete" /\ s.cmd = "fetch" /\ s.n = r.n
          /\ s.answer = r.answer /\ s.left = left /\ s.venues = venues /\ s.todo = r.todo
          /\ s.at = r.at
      BY <2>1 DEF FetchFields
    <2> QED
      BY <1>1, <2>2, <2>3 DEF Fetching
  <1>2. CASE venues = {} /\ left # {}
    <2>1. PICK s : s = [r EXCEPT !.pc = "event", !.venues = {}, !.left = left]
      OBVIOUS
    <2>2. s = Odds!Onward(r, venues, left)
      BY <1>2, <2>1 DEF Odds!Onward
    <2>3. /\ DOMAIN s = FetchFields /\ s.pc = "event" /\ s.cmd = "fetch" /\ s.n = r.n
          /\ s.answer = r.answer /\ s.left = left /\ s.venues = {} /\ s.todo = r.todo
      BY <2>1 DEF FetchFields
    <2> QED
      BY <2>2, <2>3 DEF Fetching
  <1>3. CASE venues = {} /\ left = {}
    <2>1. PICK s : s = [r EXCEPT !.pc = "resolve", !.venues = {}, !.left = {},
                                 !.todo = DOMAIN r.answer]
      OBVIOUS
    <2>2. s = Odds!Onward(r, venues, left)
      BY <1>3, <2>1 DEF Odds!Onward, Odds!ToResolve
    <2>3. /\ DOMAIN s = FetchFields /\ s.pc = "resolve" /\ s.cmd = "fetch" /\ s.n = r.n
          /\ s.answer = r.answer /\ s.left = {} /\ s.venues = {} /\ s.todo = r.todo
      BY <2>1 DEF FetchFields
    <2> QED
      BY <1>3, <2>2, <2>3 DEF Fetching
  <1> QED
    BY <1>1, <1>2, <1>3

LEMMA OddsAnswered ==
    ASSUME OddsTyped, NEW p \in Procs, Odds!Answered(p)
    PROVE  /\ Waiting(oddsProc[p]) /\ OddsOthers(p) /\ Fetching(oddsProc'[p])
           /\ oddsProc'[p].pc # "insert" /\ oddsProc'[p].todo = oddsProc'[p].left
           /\ answers' \in Nat /\ UNCHANGED <<stored, listed, prices, torn, lost>>
  <1>1. PICK answer \in Odds!Answers :
          oddsProc' = [oddsProc EXCEPT ![p] =
            Odds!Onward(Odds!Refresh(answers + 1, answer), {}, DOMAIN answer)]
    BY DEF Odds!Answered
  <1>2. PICK r : r = Odds!Refresh(answers + 1, answer)
    OBVIOUS
  <1>3. /\ DOMAIN r = FetchFields /\ r.cmd = "fetch" /\ r.n = answers + 1
        /\ r.answer = answer /\ r.todo = DOMAIN answer
    BY <1>2 DEF Odds!Refresh, FetchFields
  <1>4. DOMAIN answer \subseteq Events
    BY DEF Odds!Answers
  <1>5. answers + 1 \in Nat \ {0}
    BY DEF OddsTyped
  <1>6. PICK s : s = Odds!Onward(r, {}, DOMAIN answer)
    OBVIOUS
  <1>7. /\ Fetching(s) /\ s.pc \in {"event", "delete", "resolve"}
        /\ s.left = DOMAIN answer /\ s.todo = r.todo
    BY <1>3, <1>4, <1>5, <1>6, OnwardParts
  <1>8. OddsOthers(p) /\ oddsProc'[p] = s
    BY <1>1, <1>2, <1>6, OddsFresh
  <1>9. Waiting(oddsProc[p])
    BY DEF Odds!Answered, OddsTyped, Waiting, Fetching, Running
  <1>10. answers' \in Nat /\ UNCHANGED <<stored, listed, prices, torn, lost>>
    BY <1>5 DEF Odds!Answered, Odds!tables
  <1> QED
    BY <1>3, <1>7, <1>8, <1>9, <1>10

LEMMA OddsUpsert ==
    ASSUME OddsTyped, NEW p \in Procs, Odds!UpsertEvent(p)
    PROVE  \E e \in Events :
             /\ Fetching(oddsProc[p]) /\ OddsOthers(p) /\ Fetching(oddsProc'[p])
             /\ oddsProc[p].pc = "event" /\ oddsProc'[p].pc # "insert"
             /\ e \in oddsProc[p].left /\ oddsProc'[p].left = oddsProc[p].left \ {e}
             /\ oddsProc'[p].todo = oddsProc[p].todo /\ e \in oddsProc[p].todo
             /\ stored' = (IF e \in Odds!ToSet(stored) THEN stored ELSE Append(stored, e))
             /\ listed' = listed \ {e} /\ lost' = lost \ {e}
             /\ UNCHANGED <<prices, answers, torn>>
  <1>1. PICK e \in oddsProc[p].left :
          /\ stored' = (IF e \in Odds!ToSet(stored) THEN stored ELSE Append(stored, e))
          /\ listed' = listed \ {e} /\ lost' = lost \ {e}
          /\ oddsProc' = [oddsProc EXCEPT ![p] =
               Odds!Onward([oddsProc[p] EXCEPT !.at = <<e>>],
                           {v \in Venues : oddsProc[p].answer[e][v] # <<>>},
                           oddsProc[p].left \ {e})]
    BY DEF Odds!UpsertEvent
  <1>2. oddsProc[p].pc = "event" /\ Fetching(oddsProc[p])
    BY DEF Odds!UpsertEvent, OddsTyped, Waiting, Running
  <1>3. e \in Events /\ e \in oddsProc[p].todo
    BY <1>2 DEF Fetching
  <1>4. PICK r : r = [oddsProc[p] EXCEPT !.at = <<e>>]
    OBVIOUS
  <1>5. /\ DOMAIN r = FetchFields /\ r.cmd = "fetch" /\ r.n \in Nat \ {0}
        /\ DOMAIN r.answer \subseteq Events /\ r.todo = DOMAIN r.answer
        /\ r.todo = oddsProc[p].todo /\ r.at = <<e>>
        /\ oddsProc[p].left \ {e} \in SUBSET DOMAIN r.answer
    BY <1>2, <1>4 DEF Fetching, FetchFields
  <1>6. PICK venues \in SUBSET Venues : venues = {v \in Venues : oddsProc[p].answer[e][v] # <<>>}
    OBVIOUS
  <1>11. PICK left \in SUBSET DOMAIN r.answer : left = oddsProc[p].left \ {e}
    BY <1>5
  <1>12. venues # {} => \E f \in Events : r.at = <<f>>
    BY <1>3, <1>5
  <1>7. PICK s : s = Odds!Onward(r, venues, left)
    OBVIOUS
  <1>8. Fetching(s) /\ s.pc \in {"event", "delete", "resolve"} /\ s.left = left /\ s.todo = r.todo
    <2>1. /\ r.cmd = "fetch" /\ DOMAIN r = FetchFields /\ r.n \in Nat \ {0}
          /\ DOMAIN r.answer \subseteq Events /\ r.todo = DOMAIN r.answer
      BY <1>5
    <2> QED
      BY <2>1, <1>7, <1>12, OnwardParts, SMTT(60)
  <1>9. OddsOthers(p) /\ oddsProc'[p] = s
    BY <1>1, <1>4, <1>6, <1>7, <1>11, OddsFresh
  <1>10. UNCHANGED <<prices, answers, torn>>
    BY DEF Odds!UpsertEvent
  <1> QED
    BY <1>1, <1>2, <1>3, <1>5, <1>8, <1>9, <1>10, <1>11

LEMMA OddsDelete ==
    ASSUME OddsTyped, NEW p \in Procs, Odds!DeletePrices(p)
    PROVE  \E e \in Events, v \in Venues :
             /\ Fetching(oddsProc[p]) /\ OddsOthers(p) /\ Fetching(oddsProc'[p])
             /\ oddsProc[p].pc = "delete" /\ oddsProc'[p].pc = "insert"
             /\ oddsProc'[p].at = <<e, v>> /\ oddsProc'[p].left = oddsProc[p].left
             /\ oddsProc'[p].todo = oddsProc[p].todo
             /\ prices' = [prices EXCEPT ![e][v] = Odds!Blank]
             /\ torn' = (IF Odds!Replacing(<<e, v>>) = {} THEN torn \ {<<e, v>>}
                         ELSE torn \cup {<<e, v>>})
             /\ UNCHANGED <<stored, listed, answers, lost>>
  <1>1. PICK v \in oddsProc[p].venues :
          LET e == oddsProc[p].at[1]
              listing == oddsProc[p].answer[e][v]
          IN  /\ prices' = [prices EXCEPT ![e][v] = Odds!Wiped(@, listing)]
              /\ oddsProc' = [oddsProc EXCEPT ![p].pc = "insert", ![p].rows = listing,
                                              ![p].at = <<e, v>>]
              /\ torn' = IF Odds!Replacing(<<e, v>>) = {} THEN torn \ {<<e, v>>}
                         ELSE torn \cup {<<e, v>>}
    BY DEF Odds!DeletePrices
  <1>2. oddsProc[p].pc = "delete" /\ Fetching(oddsProc[p])
    BY DEF Odds!DeletePrices, OddsTyped, Waiting, Running
  <1>3. PICK e \in Events : oddsProc[p].at = <<e>>
    BY <1>2 DEF Fetching
  <1>4. PICK listing : listing = oddsProc[p].answer[e][v]
    OBVIOUS
  <1>5. v \in Venues /\ oddsProc[p].at[1] = e
    BY <1>2, <1>3 DEF Fetching
  <1>6. /\ oddsProc' = [oddsProc EXCEPT ![p].pc = "insert", ![p].rows = listing,
                                        ![p].at = <<e, v>>]
        /\ prices' = [prices EXCEPT ![e][v] = Odds!Blank]
        /\ torn' = (IF Odds!Replacing(<<e, v>>) = {} THEN torn \ {<<e, v>>}
                    ELSE torn \cup {<<e, v>>})
    BY <1>1, <1>4, <1>5 DEF Odds!Wiped
  <1>7. /\ OddsOthers(p) /\ DOMAIN oddsProc'[p] = FetchFields
        /\ oddsProc'[p].cmd = "fetch" /\ oddsProc'[p].pc = "insert"
        /\ oddsProc'[p].n = oddsProc[p].n /\ oddsProc'[p].answer = oddsProc[p].answer
        /\ oddsProc'[p].left = oddsProc[p].left /\ oddsProc'[p].at = <<e, v>>
        /\ oddsProc'[p].venues = oddsProc[p].venues /\ oddsProc'[p].todo = oddsProc[p].todo
    BY <1>2, <1>6 DEF Fetching, FetchFields, OddsTyped, OddsOthers
  <1>8. Fetching(oddsProc'[p])
    BY <1>2, <1>5, <1>7 DEF Fetching
  <1>9. UNCHANGED <<stored, listed, answers, lost>>
    BY DEF Odds!DeletePrices
  <1> QED
    BY <1>2, <1>5, <1>6, <1>7, <1>8, <1>9

LEMMA OddsInsert ==
    ASSUME OddsTyped, NEW p \in Procs, Odds!InsertPrice(p)
    PROVE  \E e \in Events, v \in Venues, s \in {Head(oddsProc[p].rows)} :
             /\ Fetching(oddsProc[p]) /\ OddsOthers(p) /\ Fetching(oddsProc'[p])
             /\ oddsProc[p].pc = "insert" /\ oddsProc[p].at = <<e, v>>
             /\ oddsProc'[p].pc = "insert" => oddsProc'[p].at = <<e, v>>
             /\ oddsProc'[p].n = oddsProc[p].n /\ oddsProc'[p].left = oddsProc[p].left
             /\ oddsProc'[p].todo = oddsProc[p].todo
             /\ prices' = [prices EXCEPT ![e][v][s] = oddsProc[p].n]
             /\ UNCHANGED <<stored, listed, answers, torn, lost>>
  <1>1. oddsProc[p].pc = "insert" /\ Fetching(oddsProc[p])
    BY DEF Odds!InsertPrice, OddsTyped, Waiting, Running
  <1>2. PICK e \in Events, v \in Venues : oddsProc[p].at = <<e, v>>
    BY <1>1 DEF Fetching
  <1>3. PICK s : s = Head(oddsProc[p].rows)
    OBVIOUS
  <1>4. oddsProc[p].at[1] = e /\ oddsProc[p].at[2] = v
    BY <1>2
  <1>8. /\ prices' = [prices EXCEPT ![e][v][s] = oddsProc[p].n]
        /\ UNCHANGED <<stored, listed, answers, torn, lost>>
    BY <1>3, <1>4 DEF Odds!InsertPrice
  <1>9. oddsProc' = [oddsProc EXCEPT ![p] =
             IF Len(oddsProc[p].rows) > 1
             THEN [oddsProc[p] EXCEPT !.rows = Tail(oddsProc[p].rows)]
             ELSE Odds!Onward([oddsProc[p] EXCEPT !.rows = <<>>, !.at = <<e>>],
                              oddsProc[p].venues \ {v}, oddsProc[p].left)]
    BY <1>4 DEF Odds!InsertPrice
  <1>6. CASE Len(oddsProc[p].rows) > 1
    <2>1. PICK r : r = [oddsProc[p] EXCEPT !.rows = Tail(oddsProc[p].rows)]
      OBVIOUS
    <2>2. OddsOthers(p) /\ oddsProc'[p] = r
      BY <1>6, <1>9, <2>1, OddsFresh
    <2>3. /\ DOMAIN r = FetchFields /\ r.cmd = "fetch" /\ r.pc = "insert"
          /\ r.n = oddsProc[p].n /\ r.answer = oddsProc[p].answer /\ r.left = oddsProc[p].left
          /\ r.at = <<e, v>> /\ r.venues = oddsProc[p].venues /\ r.todo = oddsProc[p].todo
      BY <1>1, <1>2, <2>1 DEF Fetching, FetchFields
    <2>4. Fetching(r)
      BY <1>1, <2>3 DEF Fetching
    <2> QED
      BY <1>1, <1>2, <1>3, <1>8, <2>2, <2>3, <2>4
  <1>7. CASE ~(Len(oddsProc[p].rows) > 1)
    <2>1. PICK r : r = [oddsProc[p] EXCEPT !.rows = <<>>, !.at = <<e>>]
      OBVIOUS
    <2>2. PICK x : x = Odds!Onward(r, oddsProc[p].venues \ {v}, oddsProc[p].left)
      OBVIOUS
    <2>3. OddsOthers(p) /\ oddsProc'[p] = x
      BY <1>7, <1>9, <2>1, <2>2, OddsFresh
    <2>4. /\ DOMAIN r = FetchFields /\ r.cmd = "fetch" /\ r.n = oddsProc[p].n
          /\ r.answer = oddsProc[p].answer /\ r.at = <<e>> /\ r.todo = oddsProc[p].todo
      BY <1>1, <2>1 DEF Fetching, FetchFields
    <2>5. /\ r.n \in Nat \ {0} /\ DOMAIN r.answer \subseteq Events /\ r.todo = DOMAIN r.answer
          /\ oddsProc[p].venues \ {v} \in SUBSET Venues
          /\ oddsProc[p].left \in SUBSET DOMAIN r.answer
      BY <1>1, <2>4 DEF Fetching
    <2>6. /\ Fetching(x) /\ x.pc \in {"event", "delete", "resolve"}
          /\ x.n = r.n /\ x.left = oddsProc[p].left /\ x.todo = r.todo
      BY <2>2, <2>4, <2>5, OnwardParts
    <2> QED
      BY <1>1, <1>2, <1>3, <1>8, <2>3, <2>4, <2>6
  <1> QED
    BY <1>6, <1>7

\* The actions after which a command waits, or a run has read nothing yet: what the command
\* owed is lost, and nothing else of the tables changes.
LEMMA OddsEnds ==
    ASSUME OddsTyped, NEW p \in Procs,
           \/ Odds!Start(p) \/ Odds!Fails(p) \/ Odds!MarkOk(p) \/ Odds!FindEvents(p)
           \/ Odds!Done(p) \/ Odds!InsertClashes(p) \/ Odds!Kill(p)
    PROVE  /\ OddsOthers(p)
           /\ \/ Waiting(oddsProc'[p])
              \/ Running(oddsProc'[p]) /\ oddsProc'[p].pc = "prices" /\ oddsProc'[p].read = <<>>
           /\ lost \cup Odds!Owed(p) \subseteq lost'
           /\ UNCHANGED <<stored, listed, prices, answers, torn>>
  <1>1. CASE Odds!Start(p) \/ Odds!Fails(p) \/ Odds!FindEvents(p) \/ Odds!Done(p)
    <2>1. Odds!Owed(p) = {}
      BY <1>1 DEF Odds!Start, Odds!Fails, Odds!FindEvents, Odds!Done, Odds!Idle, Odds!Owed,
         Odds!Refreshing, OddsTyped, Waiting, Fetching, Running
    <2>2. \E s : /\ oddsProc' = [oddsProc EXCEPT ![p] = s]
                 /\ \/ s = Odds!Idle
                    \/ s = [cmd |-> "fetch", pc |-> "ask"]
                    \/ s = Odds!Reading(listed)
      BY <1>1 DEF Odds!Start, Odds!Fails, Odds!FindEvents, Odds!Done
    <2>3. UNCHANGED <<stored, listed, prices, answers, torn, lost>>
      BY <1>1 DEF Odds!Start, Odds!Fails, Odds!FindEvents, Odds!Done, Odds!tables
    <2>4. PICK s : /\ oddsProc' = [oddsProc EXCEPT ![p] = s]
                   /\ \/ s = Odds!Idle
                      \/ s = [cmd |-> "fetch", pc |-> "ask"]
                      \/ s = Odds!Reading(listed)
      BY <2>2
    <2>5. \/ Waiting(s)
          \/ Running(s) /\ s.pc = "prices" /\ s.read = <<>>
      <3>1. CASE s = Odds!Idle \/ s = [cmd |-> "fetch", pc |-> "ask"]
        BY <3>1 DEF Odds!Idle, Waiting
      <3>2. CASE s = Odds!Reading(listed)
        <4>1. /\ DOMAIN s = RunFields /\ s.cmd = "run" /\ s.pc = "prices" /\ s.read = <<>>
          BY <3>2 DEF Odds!Reading, RunFields
        <4> QED
          BY <4>1 DEF Running
      <3> QED
        BY <2>4, <3>1, <3>2
    <2>6. OddsOthers(p) /\ oddsProc'[p] = s
      BY <2>4, OddsFresh
    <2> QED
      BY <2>1, <2>3, <2>5, <2>6
  <1>2. CASE Odds!MarkOk(p)
    <2>1. Odds!Owed(p) = {}
      BY <1>2 DEF Odds!MarkOk, Odds!Owed
    <2>2. oddsProc' = [oddsProc EXCEPT ![p] = Odds!Idle]
      BY <1>2 DEF Odds!MarkOk
    <2>3. UNCHANGED <<stored, listed, prices, answers, torn, lost>>
      BY <1>2 DEF Odds!MarkOk
    <2>4. OddsOthers(p) /\ oddsProc'[p] = Odds!Idle
      BY <2>2, OddsFresh
    <2> QED
      BY <2>1, <2>3, <2>4 DEF Odds!Idle, Waiting
  <1>3. CASE Odds!InsertClashes(p) \/ Odds!Kill(p)
    <2>1. /\ oddsProc' = [oddsProc EXCEPT ![p] = Odds!Idle]
          /\ lost' = lost \cup Odds!Owed(p)
          /\ UNCHANGED <<stored, listed, prices, answers, torn>>
      BY <1>3 DEF Odds!InsertClashes, Odds!Kill, Odds!Cut, Odds!tables
    <2>2. OddsOthers(p) /\ oddsProc'[p] = Odds!Idle
      BY <2>1, OddsFresh
    <2> QED
      BY <2>1, <2>2 DEF Odds!Idle, Waiting
  <1> QED
    BY <1>1, <1>2, <1>3

LEMMA OddsResolve ==
    ASSUME OddsTyped, NEW p \in Procs, Odds!ResolveEvent(p)
    PROVE  \E e \in Events :
             /\ Fetching(oddsProc[p]) /\ OddsOthers(p) /\ Fetching(oddsProc'[p])
             /\ oddsProc'[p].pc = "resolve" /\ oddsProc'[p].left = oddsProc[p].left
             /\ oddsProc'[p].todo = oddsProc[p].todo \ {e}
             /\ \/ listed' = listed \cup {e} /\ lost' = lost \ {e}
                \/ listed' = listed /\ lost' = lost \cup {e}
             /\ UNCHANGED <<stored, prices, answers, torn>>
  <1>1. oddsProc[p].pc = "resolve" /\ Fetching(oddsProc[p])
    BY DEF Odds!ResolveEvent, OddsTyped, Waiting, Running
  <1>2. PICK e \in oddsProc[p].todo :
          /\ \/ listed' = listed \cup {e} /\ lost' = lost \ {e}
             \/ listed' = listed /\ lost' = lost \cup {e}
          /\ oddsProc' = [oddsProc EXCEPT ![p].todo = @ \ {e}]
    BY DEF Odds!ResolveEvent
  <1>3. /\ OddsOthers(p) /\ DOMAIN oddsProc'[p] = FetchFields
        /\ oddsProc'[p].cmd = "fetch" /\ oddsProc'[p].pc = "resolve"
        /\ oddsProc'[p].n = oddsProc[p].n /\ oddsProc'[p].answer = oddsProc[p].answer
        /\ oddsProc'[p].left = oddsProc[p].left /\ oddsProc'[p].venues = oddsProc[p].venues
        /\ oddsProc'[p].todo = oddsProc[p].todo \ {e}
    BY <1>1, <1>2 DEF Fetching, FetchFields, OddsTyped, OddsOthers
  <1>4. Fetching(oddsProc'[p]) /\ e \in Events
    BY <1>1, <1>3 DEF Fetching
  <1>5. UNCHANGED <<stored, prices, answers, torn>>
    BY DEF Odds!ResolveEvent
  <1> QED
    BY <1>1, <1>2, <1>3, <1>4, <1>5

LEMMA OddsReads ==
    ASSUME OddsTyped, NEW p \in Procs, Odds!ReadPrices(p)
    PROVE  \E e \in Events :
             /\ Running(oddsProc[p]) /\ OddsOthers(p) /\ Running(oddsProc'[p])
             /\ oddsProc'[p].read = Append(oddsProc[p].read, prices[e])
             /\ oddsProc'[p].doubt =
                  oddsProc[p].doubt \cup {v \in Venues : <<e, v>> \in torn}
             /\ UNCHANGED <<stored, listed, prices, answers, torn, lost>>
  <1>1. oddsProc[p].pc = "prices" /\ Running(oddsProc[p])
    BY DEF Odds!ReadPrices, OddsTyped, Waiting, Fetching
  <1>2. PICK i \in DOMAIN stored :
          LET e == stored[i] IN
          oddsProc' = [oddsProc EXCEPT
            ![p].left = @ \ {e},
            ![p].read = Append(@, prices[e]),
            ![p].doubt = @ \cup {v \in Venues : <<e, v>> \in torn},
            ![p].pc = IF oddsProc[p].left = {e} THEN "merged" ELSE "prices"]
    BY DEF Odds!ReadPrices
  <1>3. PICK e \in Events : e = stored[i]
    BY DEF OddsTyped
  <1>4. PICK books : books = Append(oddsProc[p].read, prices[e])
    OBVIOUS
  <1>5. books \in Seq(Books)
    <2>1. prices[e] \in Books /\ oddsProc[p].read \in Seq(Books)
      BY <1>1 DEF OddsTyped, Running
    <2> QED
      BY <1>4, <2>1
  <1>6. oddsProc' = [oddsProc EXCEPT
          ![p].left = @ \ {e},
          ![p].read = Append(@, prices[e]),
          ![p].doubt = @ \cup {v \in Venues : <<e, v>> \in torn},
          ![p].pc = IF oddsProc[p].left = {e} THEN "merged" ELSE "prices"]
    BY <1>2, <1>3
  <1>7. PICK pc \in {"prices", "merged"} :
          pc = IF oddsProc[p].left = {e} THEN "merged" ELSE "prices"
    OBVIOUS
  <1>8. /\ OddsOthers(p) /\ DOMAIN oddsProc'[p] = RunFields
        /\ oddsProc'[p].cmd = "run" /\ oddsProc'[p].pc = pc
        /\ oddsProc'[p].read = books
        /\ oddsProc'[p].doubt = oddsProc[p].doubt \cup {v \in Venues : <<e, v>> \in torn}
    BY <1>1, <1>4, <1>6, <1>7 DEF Running, RunFields, OddsTyped, OddsOthers
  <1>9. UNCHANGED <<stored, listed, prices, answers, torn, lost>>
    BY DEF Odds!ReadPrices, Odds!tables
  <1> QED
    BY <1>1, <1>4, <1>5, <1>7, <1>8, <1>9 DEF Running

LEMMA OddsTypedStep ==
    ASSUME OddsTyped, [Odds!Next]_oddsVars
    PROVE  OddsTyped'
  <1>1. ASSUME NEW p \in Procs, OddsOthers(p),
               Waiting(oddsProc'[p]) \/ Fetching(oddsProc'[p]) \/ Running(oddsProc'[p])
        PROVE  /\ DOMAIN oddsProc' = Procs
               /\ \A q \in Procs :
                    Waiting(oddsProc'[q]) \/ Fetching(oddsProc'[q]) \/ Running(oddsProc'[q])
    BY <1>1 DEF OddsOthers, OddsTyped
  <1>2. CASE UNCHANGED oddsVars
    BY <1>2 DEF oddsVars, OddsTyped
  <1>3. ASSUME NEW p \in Procs,
               \/ Odds!Start(p) \/ Odds!Fails(p) \/ Odds!MarkOk(p) \/ Odds!FindEvents(p)
               \/ Odds!Done(p) \/ Odds!InsertClashes(p) \/ Odds!Kill(p)
        PROVE  OddsTyped'
    <2>1. /\ OddsOthers(p)
          /\ Waiting(oddsProc'[p]) \/ Running(oddsProc'[p])
          /\ UNCHANGED <<stored, prices, answers>>
      BY <1>3, OddsEnds
    <2> QED
      BY <2>1, <1>1 DEF OddsTyped
  <1>4. ASSUME NEW p \in Procs, Odds!Answered(p)
        PROVE  OddsTyped'
    <2>1. /\ OddsOthers(p) /\ Fetching(oddsProc'[p]) /\ answers' \in Nat
          /\ UNCHANGED <<stored, prices>>
      BY <1>4, OddsAnswered
    <2> QED
      BY <2>1, <1>1 DEF OddsTyped
  <1>5. ASSUME NEW p \in Procs, Odds!UpsertEvent(p)
        PROVE  OddsTyped'
    <2>1. PICK e \in Events :
            /\ OddsOthers(p) /\ Fetching(oddsProc'[p])
            /\ stored' = (IF e \in Odds!ToSet(stored) THEN stored ELSE Append(stored, e))
            /\ UNCHANGED <<prices, answers>>
      BY <1>5, OddsUpsert
    <2>2. stored' \in Seq(Events)
      BY <2>1 DEF OddsTyped
    <2> QED
      BY <2>1, <2>2, <1>1 DEF OddsTyped
  <1>6. ASSUME NEW p \in Procs, Odds!DeletePrices(p)
        PROVE  OddsTyped'
    <2>1. PICK e \in Events, v \in Venues :
            /\ OddsOthers(p) /\ Fetching(oddsProc'[p])
            /\ prices' = [prices EXCEPT ![e][v] = Odds!Blank]
            /\ UNCHANGED <<stored, answers>>
      BY <1>6, OddsDelete
    <2>2. Odds!Blank \in [Outcomes -> Nat]
      BY DEF Odds!Blank, Odds!None
    <2>3. prices' \in [Events -> Books]
      BY <2>1, <2>2 DEF OddsTyped, Books
    <2> QED
      BY <2>1, <2>3, <1>1 DEF OddsTyped
  <1>7. ASSUME NEW p \in Procs, Odds!InsertPrice(p)
        PROVE  OddsTyped'
    <2>1. PICK e \in Events, v \in Venues, s \in {Head(oddsProc[p].rows)} :
            /\ Fetching(oddsProc[p]) /\ OddsOthers(p) /\ Fetching(oddsProc'[p])
            /\ oddsProc[p].pc = "insert" /\ oddsProc[p].at = <<e, v>>
            /\ oddsProc'[p].pc = "insert" => oddsProc'[p].at = <<e, v>>
            /\ oddsProc'[p].n = oddsProc[p].n /\ oddsProc'[p].left = oddsProc[p].left
            /\ oddsProc'[p].todo = oddsProc[p].todo
            /\ prices' = [prices EXCEPT ![e][v][s] = oddsProc[p].n]
            /\ UNCHANGED <<stored, listed, answers, torn, lost>>
      BY <1>7, OddsInsert
    <2>2. oddsProc[p].n \in Nat
      BY <2>1 DEF Fetching
    <2>3. prices' \in [Events -> Books]
      BY <2>1, <2>2 DEF OddsTyped, Books
    <2> QED
      BY <2>1, <2>3, <1>1 DEF OddsTyped
  <1>8. ASSUME NEW p \in Procs, Odds!ResolveEvent(p)
        PROVE  OddsTyped'
    <2>1. /\ OddsOthers(p) /\ Fetching(oddsProc'[p]) /\ UNCHANGED <<stored, prices, answers>>
      BY <1>8, OddsResolve
    <2> QED
      BY <2>1, <1>1 DEF OddsTyped
  <1>9. ASSUME NEW p \in Procs, Odds!ReadPrices(p)
        PROVE  OddsTyped'
    <2>1. /\ OddsOthers(p) /\ Running(oddsProc'[p]) /\ UNCHANGED <<stored, prices, answers>>
      BY <1>9, OddsReads
    <2> QED
      BY <2>1, <1>1 DEF OddsTyped
  <1> QED
    BY <1>2, <1>3, <1>4, <1>5, <1>6, <1>7, <1>8, <1>9
    DEF Odds!Next, Odds!Horizon, Odds!vars, Odds!tables, oddsVars

LEMMA OwedOf ==
    ASSUME NEW p \in Procs
    PROVE  /\ Fetching(oddsProc[p]) => Odds!Owed(p) = oddsProc[p].todo \ oddsProc[p].left
           /\ Waiting(oddsProc[p]) \/ Running(oddsProc[p]) => Odds!Owed(p) = {}
  BY DEF Odds!Owed, Odds!Refreshing, Fetching, Waiting, Running

LEMMA OwedNext ==
    ASSUME NEW p \in Procs
    PROVE  /\ Fetching(oddsProc'[p]) => Odds!Owed(p)' = oddsProc'[p].todo \ oddsProc'[p].left
           /\ \A q \in Procs : oddsProc'[q] = oddsProc[q] => Odds!Owed(q)' = Odds!Owed(q)
  BY DEF Odds!Owed, Odds!Refreshing, Fetching, Waiting, Running

LEMMA OwedAside ==
    ASSUME Odds!UnresolvedIsOwed, NEW p \in Procs, OddsOthers(p),
           \A e \in Odds!ToSet(stored)' \ listed' :
             \/ e \in lost' \cup Odds!Owed(p)'
             \/ /\ e \in Odds!ToSet(stored) \ listed
                /\ e \notin lost \cup Odds!Owed(p)
    PROVE  Odds!UnresolvedIsOwed'
  <1>1. ASSUME NEW e \in Odds!ToSet(stored)' \ listed'
        PROVE  e \in lost' \/ \E q \in Procs : e \in Odds!Owed(q)'
    <2>1. CASE e \in lost' \cup Odds!Owed(p)'
      BY <2>1
    <2>2. CASE e \in Odds!ToSet(stored) \ listed /\ e \notin lost \cup Odds!Owed(p)
      <3>1. PICK q \in Procs : e \in Odds!Owed(q)
        BY <2>2 DEF Odds!UnresolvedIsOwed
      <3>2. oddsProc'[q] = oddsProc[q]
        BY <2>2, <3>1 DEF OddsOthers
      <3> QED
        BY <3>1, <3>2, OwedNext
    <2> QED
      BY <1>1, <2>1, <2>2
  <1> QED
    BY <1>1 DEF Odds!UnresolvedIsOwed

LEMMA OwedInvInit == Odds!Init => Odds!UnresolvedIsOwed
  BY DEF Odds!Init, Odds!UnresolvedIsOwed, Odds!ToSet

LEMMA OwedInvStep ==
    ASSUME Odds!UnresolvedIsOwed, OddsTyped, [Odds!Next]_oddsVars
    PROVE  Odds!UnresolvedIsOwed'
  <1>1. CASE UNCHANGED oddsVars
    BY <1>1 DEF oddsVars, Odds!UnresolvedIsOwed, Odds!Owed,
       Odds!Refreshing
  <1>2. ASSUME NEW p \in Procs,
               \/ Odds!Start(p) \/ Odds!Fails(p) \/ Odds!MarkOk(p) \/ Odds!FindEvents(p)
               \/ Odds!Done(p) \/ Odds!InsertClashes(p) \/ Odds!Kill(p)
        PROVE  Odds!UnresolvedIsOwed'
    <2>1. /\ OddsOthers(p) /\ lost \cup Odds!Owed(p) \subseteq lost'
          /\ UNCHANGED <<stored, listed>>
      BY <1>2, OddsEnds
    <2>2. Odds!ToSet(stored)' = Odds!ToSet(stored)
      BY <2>1
    <2> QED
      BY <2>1, <2>2, OwedAside
  <1>3. ASSUME NEW p \in Procs, Odds!Answered(p)
        PROVE  Odds!UnresolvedIsOwed'
    <2>1. Waiting(oddsProc[p]) /\ OddsOthers(p) /\ UNCHANGED <<stored, listed, lost>>
      BY <1>3, OddsAnswered
    <2>2. Odds!Owed(p) = {}
      BY <2>1, OwedOf
    <2>3. Odds!ToSet(stored)' = Odds!ToSet(stored)
      BY <2>1
    <2> QED
      BY <2>1, <2>2, <2>3, OwedAside
  <1>4. ASSUME NEW p \in Procs, Odds!UpsertEvent(p)
        PROVE  Odds!UnresolvedIsOwed'
    <2>1. PICK e \in Events :
            /\ Fetching(oddsProc[p]) /\ OddsOthers(p) /\ Fetching(oddsProc'[p])
            /\ oddsProc'[p].left = oddsProc[p].left \ {e}
            /\ oddsProc'[p].todo = oddsProc[p].todo /\ e \in oddsProc[p].todo
            /\ stored' = (IF e \in Odds!ToSet(stored) THEN stored ELSE Append(stored, e))
            /\ listed' = listed \ {e} /\ lost' = lost \ {e}
      BY <1>4, OddsUpsert
    <2>2. Odds!Owed(p)' = Odds!Owed(p) \cup {e}
      <3>1. /\ Odds!Owed(p) = oddsProc[p].todo \ oddsProc[p].left
            /\ Odds!Owed(p)' = oddsProc'[p].todo \ oddsProc'[p].left
        BY <2>1, OwedOf, OwedNext
      <3> QED
        BY <2>1, <3>1
    <2>3. Odds!ToSet(stored)' \subseteq Odds!ToSet(stored) \cup {e}
      <3>1. stored \in Seq(Events)
        BY DEF OddsTyped
      <3>2. ASSUME NEW i \in DOMAIN stored'
            PROVE  stored'[i] \in Odds!ToSet(stored) \cup {e}
        <4>1. CASE e \in Odds!ToSet(stored)
          BY <2>1, <3>2, <4>1 DEF Odds!ToSet
        <4>2. CASE e \notin Odds!ToSet(stored)
          <5>1. stored' = Append(stored, e)
            BY <2>1, <4>2
          <5>2. stored'[i] = e \/ (i \in DOMAIN stored /\ stored'[i] = stored[i])
            BY <3>1, <3>2, <5>1
          <5> QED
            BY <5>2 DEF Odds!ToSet
        <4> QED
          BY <4>1, <4>2
      <3> QED
        BY <3>2 DEF Odds!ToSet
    <2> QED
      BY <2>1, <2>2, <2>3, OwedAside
  <1>5. ASSUME NEW p \in Procs,
               Odds!DeletePrices(p) \/ Odds!InsertPrice(p) \/ Odds!ReadPrices(p)
        PROVE  Odds!UnresolvedIsOwed'
    <2>1. OddsOthers(p) /\ UNCHANGED <<stored, listed, lost>>
      BY <1>5, OddsDelete, OddsInsert, OddsReads
    <2>2. Odds!Owed(p) \subseteq Odds!Owed(p)'
      <3>1. CASE Odds!DeletePrices(p) \/ Odds!InsertPrice(p)
        <4>1. /\ Fetching(oddsProc[p]) /\ Fetching(oddsProc'[p])
              /\ oddsProc'[p].left = oddsProc[p].left /\ oddsProc'[p].todo = oddsProc[p].todo
          BY <3>1, OddsDelete, OddsInsert
        <4> QED
          BY <4>1, OwedOf, OwedNext
      <3>2. CASE Odds!ReadPrices(p)
        BY <3>2, OddsReads, OwedOf
      <3> QED
        BY <1>5, <3>1, <3>2
    <2>3. Odds!ToSet(stored)' = Odds!ToSet(stored)
      BY <2>1
    <2> QED
      BY <2>1, <2>2, <2>3, OwedAside
  <1>6. ASSUME NEW p \in Procs, Odds!ResolveEvent(p)
        PROVE  Odds!UnresolvedIsOwed'
    <2>1. PICK e \in Events :
            /\ Fetching(oddsProc[p]) /\ OddsOthers(p) /\ Fetching(oddsProc'[p])
            /\ oddsProc'[p].left = oddsProc[p].left
            /\ oddsProc'[p].todo = oddsProc[p].todo \ {e}
            /\ \/ listed' = listed \cup {e} /\ lost' = lost \ {e}
               \/ listed' = listed /\ lost' = lost \cup {e}
            /\ UNCHANGED stored
      BY <1>6, OddsResolve
    <2>2. Odds!Owed(p)' = Odds!Owed(p) \ {e}
      <3>1. /\ Odds!Owed(p) = oddsProc[p].todo \ oddsProc[p].left
            /\ Odds!Owed(p)' = oddsProc'[p].todo \ oddsProc'[p].left
        BY <2>1, OwedOf, OwedNext
      <3> QED
        BY <2>1, <3>1
    <2>3. Odds!ToSet(stored)' = Odds!ToSet(stored)
      BY <2>1
    <2> QED
      BY <2>1, <2>2, <2>3, OwedAside
  <1> QED
    BY <1>1, <1>2, <1>3, <1>4, <1>5, <1>6
    DEF Odds!Next, Odds!Horizon, Odds!vars, Odds!tables, oddsVars

-----------------------------------------------------------------------------
\* Quotes of at most one answer.
OneAnswer(book) == \E n : \A s \in Outcomes : book[s] \in {Odds!None, n}

\* A replacement that no other crossed inserts what the rows there already come from; and
\* what a run read of such rows is one answer.
BookInv ==
    /\ \A e \in Events, v \in Venues : <<e, v>> \notin torn =>
         \E n : /\ \A s \in Outcomes : prices[e][v][s] \in {Odds!None, n}
                /\ \A p \in Odds!Replacing(<<e, v>>) : oddsProc[p].n = n
    /\ \A p \in Procs : oddsProc[p].cmd = "run" =>
         \A i \in DOMAIN oddsProc[p].read, v \in Venues \ oddsProc[p].doubt :
           OneAnswer(oddsProc[p].read[i][v])

LEMMA BookInvInit == Odds!Init => BookInv
  <1> SUFFICES ASSUME Odds!Init
               PROVE  BookInv
    OBVIOUS
  <1>1. \A p \in Procs : oddsProc[p].cmd = "none"
    BY DEF Odds!Init, Odds!Idle
  <1>2. \A e \in Events, v \in Venues : \A s \in Outcomes : prices[e][v][s] = Odds!None
    BY DEF Odds!Init, Odds!Blank
  <1>3. \A x : Odds!Replacing(x) = {}
    BY <1>1 DEF Odds!Replacing, Odds!Refreshing
  <1> QED
    BY <1>1, <1>2, <1>3 DEF BookInv

LEMMA ReplacingIs ==
    ASSUME NEW x, NEW p \in Procs
    PROVE  p \in Odds!Replacing(x) <=>
             oddsProc[p].cmd = "fetch" /\ oddsProc[p].pc = "insert" /\ oddsProc[p].at = x
  BY DEF Odds!Replacing, Odds!Refreshing

LEMMA ReplacingNext ==
    ASSUME NEW x, NEW p \in Procs
    PROVE  p \in Odds!Replacing(x)' <=>
             oddsProc'[p].cmd = "fetch" /\ oddsProc'[p].pc = "insert" /\ oddsProc'[p].at = x
  BY DEF Odds!Replacing, Odds!Refreshing

\* The actions that write no price.
LEMMA BookAside ==
    ASSUME BookInv, NEW p \in Procs, OddsOthers(p), UNCHANGED prices, torn \subseteq torn',
           oddsProc'[p].cmd = "fetch" => oddsProc'[p].pc # "insert",
           oddsProc'[p].cmd = "run" =>
             \A i \in DOMAIN oddsProc'[p].read, v \in Venues \ oddsProc'[p].doubt :
               OneAnswer(oddsProc'[p].read[i][v])
    PROVE  BookInv'
  <1>1. ASSUME NEW e \in Events, NEW v \in Venues, <<e, v>> \notin torn'
        PROVE  \E n : /\ \A s \in Outcomes : prices'[e][v][s] \in {Odds!None, n}
                      /\ \A q \in Odds!Replacing(<<e, v>>)' : oddsProc'[q].n = n
    <2>1. PICK n : /\ \A s \in Outcomes : prices[e][v][s] \in {Odds!None, n}
                   /\ \A q \in Odds!Replacing(<<e, v>>) : oddsProc[q].n = n
      BY <1>1 DEF BookInv
    <2>2. ASSUME NEW q \in Odds!Replacing(<<e, v>>)'
          PROVE  oddsProc'[q].n = n
      <3>1. q \in Procs
        BY DEF Odds!Replacing
      <3>2. q # p
        BY <2>2, <3>1, ReplacingNext
      <3>3. oddsProc'[q] = oddsProc[q]
        BY <3>1, <3>2 DEF OddsOthers
      <3> QED
        BY <2>1, <2>2, <3>1, <3>3, ReplacingIs, ReplacingNext
    <2> QED
      BY <2>1, <2>2
  <1>2. ASSUME NEW q \in Procs, oddsProc'[q].cmd = "run",
               NEW i \in DOMAIN oddsProc'[q].read, NEW v \in Venues \ oddsProc'[q].doubt
        PROVE  OneAnswer(oddsProc'[q].read[i][v])
    <2>1. CASE q = p
      BY <1>2, <2>1
    <2>2. CASE q # p
      <3>1. oddsProc'[q] = oddsProc[q]
        BY <2>2 DEF OddsOthers
      <3> QED
        BY <1>2, <3>1 DEF BookInv
    <2> QED
      BY <2>1, <2>2
  <1>3. /\ \A e \in Events, v \in Venues : <<e, v>> \notin torn' =>
             \E n : /\ \A s \in Outcomes : prices'[e][v][s] \in {Odds!None, n}
                    /\ \A q \in Odds!Replacing(<<e, v>>)' : oddsProc'[q].n = n
        /\ \A q \in Procs : oddsProc'[q].cmd = "run" =>
             \A i \in DOMAIN oddsProc'[q].read, v \in Venues \ oddsProc'[q].doubt :
               OneAnswer(oddsProc'[q].read[i][v])
    BY <1>1, <1>2
  <1> QED
    BY <1>3 DEF BookInv, OneAnswer, Odds!None

LEMMA BookOnDelete ==
    ASSUME BookInv, OddsTyped, NEW p \in Procs, Odds!DeletePrices(p)
    PROVE  BookInv'
  <1>1. PICK e \in Events, v \in Venues :
          /\ Fetching(oddsProc[p]) /\ OddsOthers(p) /\ Fetching(oddsProc'[p])
          /\ oddsProc[p].pc = "delete" /\ oddsProc'[p].pc = "insert"
          /\ oddsProc'[p].at = <<e, v>> /\ oddsProc'[p].left = oddsProc[p].left
          /\ oddsProc'[p].todo = oddsProc[p].todo
          /\ prices' = [prices EXCEPT ![e][v] = Odds!Blank]
          /\ torn' = (IF Odds!Replacing(<<e, v>>) = {} THEN torn \ {<<e, v>>}
                      ELSE torn \cup {<<e, v>>})
          /\ UNCHANGED <<stored, listed, answers, lost>>
    BY OddsDelete
  <1>2. /\ oddsProc[p].cmd = "fetch" /\ oddsProc'[p].cmd = "fetch"
        /\ \A f \in Events, w \in Venues :
             <<f, w>> # <<e, v>> => prices'[f][w] = prices[f][w]
        /\ prices'[e][v] = Odds!Blank
    BY <1>1 DEF Fetching, OddsTyped, Books
  <1>3. ASSUME NEW f \in Events, NEW w \in Venues, <<f, w>> \notin torn'
        PROVE  \E n : /\ \A s \in Outcomes : prices'[f][w][s] \in {Odds!None, n}
                      /\ \A q \in Odds!Replacing(<<f, w>>)' : oddsProc'[q].n = n
    <2>1. CASE <<f, w>> = <<e, v>>
      <3>1. Odds!Replacing(<<e, v>>) = {}
        BY <1>1, <1>3, <2>1
      <3>2. ASSUME NEW q \in Odds!Replacing(<<f, w>>)'
            PROVE  q = p
        <4>1. q \in Procs
          BY DEF Odds!Replacing
        <4> QED
          BY <1>1, <2>1, <3>1, <3>2, <4>1, ReplacingIs, ReplacingNext DEF OddsOthers
      <3>3. \A s \in Outcomes : prices'[f][w][s] = Odds!None
        BY <1>2, <2>1 DEF Odds!Blank
      <3> QED
        BY <3>2, <3>3
    <2>2. CASE <<f, w>> # <<e, v>>
      <3>1. <<f, w>> \notin torn
        BY <1>1, <1>3, <2>2
      <3>2. PICK n : /\ \A s \in Outcomes : prices[f][w][s] \in {Odds!None, n}
                     /\ \A q \in Odds!Replacing(<<f, w>>) : oddsProc[q].n = n
        BY <3>1 DEF BookInv
      <3>3. ASSUME NEW q \in Odds!Replacing(<<f, w>>)'
            PROVE  oddsProc'[q].n = n
        <4>1. q \in Procs
          BY DEF Odds!Replacing
        <4>2. q # p
          BY <1>1, <2>2, <3>3, <4>1, ReplacingNext
        <4>3. oddsProc'[q] = oddsProc[q]
          BY <1>1, <4>1, <4>2 DEF OddsOthers
        <4> QED
          BY <3>2, <3>3, <4>1, <4>3, ReplacingIs, ReplacingNext
      <3> QED
        BY <1>2, <2>2, <3>2, <3>3
    <2> QED
      BY <2>1, <2>2
  <1>4. ASSUME NEW q \in Procs, oddsProc'[q].cmd = "run"
        PROVE  oddsProc'[q] = oddsProc[q]
    BY <1>1, <1>2, <1>4 DEF OddsOthers
  <1>5. \A q \in Procs : oddsProc'[q].cmd = "run" =>
          \A i \in DOMAIN oddsProc'[q].read, w \in Venues \ oddsProc'[q].doubt :
            OneAnswer(oddsProc'[q].read[i][w])
    BY <1>4 DEF BookInv
  <1>6. \A f \in Events, w \in Venues : <<f, w>> \notin torn' =>
          \E n : /\ \A s \in Outcomes : prices'[f][w][s] \in {Odds!None, n}
                 /\ \A q \in Odds!Replacing(<<f, w>>)' : oddsProc'[q].n = n
    BY <1>3
  <1> QED
    BY <1>5, <1>6 DEF BookInv, OneAnswer, Odds!None

LEMMA BookOnInsert ==
    ASSUME BookInv, OddsTyped, NEW p \in Procs, Odds!InsertPrice(p)
    PROVE  BookInv'
  <1>1. PICK e \in Events, v \in Venues, s \in {Head(oddsProc[p].rows)} :
          /\ Fetching(oddsProc[p]) /\ OddsOthers(p) /\ Fetching(oddsProc'[p])
          /\ oddsProc[p].pc = "insert" /\ oddsProc[p].at = <<e, v>>
          /\ oddsProc'[p].pc = "insert" => oddsProc'[p].at = <<e, v>>
          /\ oddsProc'[p].n = oddsProc[p].n /\ oddsProc'[p].left = oddsProc[p].left
          /\ oddsProc'[p].todo = oddsProc[p].todo
          /\ prices' = [prices EXCEPT ![e][v][s] = oddsProc[p].n]
          /\ UNCHANGED <<stored, listed, answers, torn, lost>>
    BY OddsInsert
  <1>2. /\ oddsProc[p].cmd = "fetch" /\ oddsProc'[p].cmd = "fetch"
        /\ \A f \in Events, w \in Venues :
             <<f, w>> # <<e, v>> => prices'[f][w] = prices[f][w]
    BY <1>1 DEF Fetching, OddsTyped, Books
  <1>3. \A u \in Outcomes : prices'[e][v][u] \in {prices[e][v][u], oddsProc[p].n}
    BY <1>1 DEF OddsTyped, Books
  <1>4. ASSUME NEW f \in Events, NEW w \in Venues, <<f, w>> \notin torn'
        PROVE  \E n : /\ \A u \in Outcomes : prices'[f][w][u] \in {Odds!None, n}
                      /\ \A q \in Odds!Replacing(<<f, w>>)' : oddsProc'[q].n = n
    <2>1. PICK n : /\ \A u \in Outcomes : prices[f][w][u] \in {Odds!None, n}
                   /\ \A q \in Odds!Replacing(<<f, w>>) : oddsProc[q].n = n
      BY <1>1, <1>4 DEF BookInv
    <2>2. ASSUME NEW q \in Odds!Replacing(<<f, w>>)'
          PROVE  oddsProc'[q].n = n
      <3>1. q \in Procs
        BY DEF Odds!Replacing
      <3>2. q \in Odds!Replacing(<<f, w>>) /\ oddsProc'[q].n = oddsProc[q].n
        <4>1. CASE q = p
          BY <1>1, <1>2, <2>2, <4>1, ReplacingIs, ReplacingNext
        <4>2. CASE q # p
          BY <1>1, <2>2, <3>1, <4>2, ReplacingIs, ReplacingNext DEF OddsOthers
        <4> QED
          BY <4>1, <4>2
      <3> QED
        BY <2>1, <3>2
    <2>3. \A u \in Outcomes : prices'[f][w][u] \in {Odds!None, n}
      <3>1. CASE <<f, w>> = <<e, v>>
        <4>1. oddsProc[p].n = n
          BY <1>1, <1>2, <2>1, <3>1, ReplacingIs
        <4> QED
          BY <1>3, <2>1, <3>1, <4>1
      <3>2. CASE <<f, w>> # <<e, v>>
        BY <1>2, <2>1, <3>2
      <3> QED
        BY <3>1, <3>2
    <2> QED
      BY <2>2, <2>3
  <1>5. ASSUME NEW q \in Procs, oddsProc'[q].cmd = "run"
        PROVE  oddsProc'[q] = oddsProc[q]
    BY <1>1, <1>2, <1>5 DEF OddsOthers
  <1>6. \A q \in Procs : oddsProc'[q].cmd = "run" =>
          \A i \in DOMAIN oddsProc'[q].read, w \in Venues \ oddsProc'[q].doubt :
            OneAnswer(oddsProc'[q].read[i][w])
    BY <1>5 DEF BookInv
  <1>7. \A f \in Events, w \in Venues : <<f, w>> \notin torn' =>
          \E n : /\ \A u \in Outcomes : prices'[f][w][u] \in {Odds!None, n}
                 /\ \A q \in Odds!Replacing(<<f, w>>)' : oddsProc'[q].n = n
    BY <1>4
  <1> QED
    BY <1>6, <1>7 DEF BookInv, OneAnswer, Odds!None

\* A run reads the rows of one event as they are.
LEMMA BookOnRead ==
    ASSUME BookInv, OddsTyped, NEW p \in Procs, Odds!ReadPrices(p)
    PROVE  BookInv'
  <1>1. PICK e \in Events :
          /\ Running(oddsProc[p]) /\ OddsOthers(p) /\ Running(oddsProc'[p])
          /\ oddsProc'[p].read = Append(oddsProc[p].read, prices[e])
          /\ oddsProc'[p].doubt = oddsProc[p].doubt \cup {v \in Venues : <<e, v>> \in torn}
          /\ UNCHANGED <<stored, listed, prices, answers, torn, lost>>
    BY OddsReads
  <1>2. /\ oddsProc[p].cmd = "run" /\ oddsProc'[p].cmd = "run"
        /\ oddsProc[p].read \in Seq(Books)
    BY <1>1 DEF Running
  <1>3. ASSUME NEW i \in DOMAIN oddsProc'[p].read, NEW v \in Venues \ oddsProc'[p].doubt
        PROVE  OneAnswer(oddsProc'[p].read[i][v])
    <2>1. \/ oddsProc'[p].read[i] = prices[e]
          \/ i \in DOMAIN oddsProc[p].read /\ oddsProc'[p].read[i] = oddsProc[p].read[i]
      BY <1>1, <1>2, <1>3
    <2>2. v \notin oddsProc[p].doubt /\ <<e, v>> \notin torn
      BY <1>1, <1>3
    <2>3. OneAnswer(prices[e][v])
      BY <2>2 DEF BookInv, OneAnswer
    <2>4. CASE oddsProc'[p].read[i] = prices[e]
      BY <2>3, <2>4
    <2>5. CASE i \in DOMAIN oddsProc[p].read /\ oddsProc'[p].read[i] = oddsProc[p].read[i]
      BY <1>2, <2>2, <2>5 DEF BookInv
    <2> QED
      BY <2>1, <2>4, <2>5
  <1>4. torn \subseteq torn' /\ UNCHANGED prices /\ OddsOthers(p)
    BY <1>1
  <1>5. \A i \in DOMAIN oddsProc'[p].read, v \in Venues \ oddsProc'[p].doubt :
          OneAnswer(oddsProc'[p].read[i][v])
    BY <1>3
  <1>6. oddsProc'[p].cmd # "fetch"
    BY <1>2
  <1> QED
    BY <1>4, <1>5, <1>6, BookAside

LEMMA BookInvStep ==
    ASSUME BookInv, OddsTyped, [Odds!Next]_oddsVars
    PROVE  BookInv'
  <1>1. CASE UNCHANGED oddsVars
    <2>1. UNCHANGED <<prices, torn, oddsProc>>
      BY <1>1 DEF oddsVars
    <2>2. ASSUME NEW e \in Events, NEW v \in Venues
          PROVE  Odds!Replacing(<<e, v>>)' = Odds!Replacing(<<e, v>>)
      BY <2>1 DEF Odds!Replacing, Odds!Refreshing
    <2>3. ASSUME NEW e \in Events, NEW v \in Venues, <<e, v>> \notin torn'
          PROVE  \E n : /\ \A s \in Outcomes : prices'[e][v][s] \in {Odds!None, n}
                        /\ \A p \in Odds!Replacing(<<e, v>>)' : oddsProc'[p].n = n
      <3>1. PICK n : /\ \A s \in Outcomes : prices[e][v][s] \in {Odds!None, n}
                     /\ \A p \in Odds!Replacing(<<e, v>>) : oddsProc[p].n = n
        BY <2>1, <2>3 DEF BookInv
      <3> QED
        BY <2>1, <2>2, <3>1
    <2>5. \A e \in Events, v \in Venues : <<e, v>> \notin torn' =>
            \E n : /\ \A s \in Outcomes : prices'[e][v][s] \in {Odds!None, n}
                   /\ \A p \in Odds!Replacing(<<e, v>>)' : oddsProc'[p].n = n
      BY <2>3
    <2>4. \A p \in Procs : oddsProc'[p].cmd = "run" =>
            \A i \in DOMAIN oddsProc'[p].read, v \in Venues \ oddsProc'[p].doubt :
              OneAnswer(oddsProc'[p].read[i][v])
      BY <2>1 DEF BookInv
    <2> QED
      BY <2>4, <2>5 DEF BookInv, OneAnswer, Odds!None
  <1>2. ASSUME NEW p \in Procs,
               \/ Odds!Start(p) \/ Odds!Fails(p) \/ Odds!MarkOk(p) \/ Odds!FindEvents(p)
               \/ Odds!Done(p) \/ Odds!InsertClashes(p) \/ Odds!Kill(p)
        PROVE  BookInv'
    <2>1. /\ OddsOthers(p)
          /\ \/ Waiting(oddsProc'[p])
             \/ Running(oddsProc'[p]) /\ oddsProc'[p].read = <<>>
          /\ UNCHANGED <<prices, torn>>
      BY <1>2, OddsEnds
    <2>2. oddsProc'[p].cmd = "fetch" => oddsProc'[p].pc # "insert"
      BY <2>1 DEF Waiting, Running
    <2>3. oddsProc'[p].cmd = "run" => DOMAIN oddsProc'[p].read = {}
      BY <2>1 DEF Waiting
    <2> QED
      BY <2>1, <2>2, <2>3, BookAside
  <1>3. ASSUME NEW p \in Procs,
               Odds!Answered(p) \/ Odds!UpsertEvent(p) \/ Odds!ResolveEvent(p)
        PROVE  BookInv'
    <2>1. /\ OddsOthers(p) /\ Fetching(oddsProc'[p]) /\ oddsProc'[p].pc # "insert"
          /\ UNCHANGED <<prices, torn>>
      <3>1. CASE Odds!Answered(p)
        BY <3>1, OddsAnswered
      <3>2. CASE Odds!UpsertEvent(p)
        BY <3>2, OddsUpsert
      <3>3. CASE Odds!ResolveEvent(p)
        <4>1. PICK e \in Events :
                /\ OddsOthers(p) /\ Fetching(oddsProc'[p]) /\ oddsProc'[p].pc = "resolve"
                /\ UNCHANGED <<prices, torn>>
          BY <3>3, OddsResolve
        <4> QED
          BY <4>1
      <3> QED
        BY <1>3, <3>1, <3>2, <3>3
    <2>2. oddsProc'[p].cmd # "run"
      BY <2>1 DEF Fetching
    <2> QED
      BY <2>1, <2>2, BookAside
  <1> QED
    BY <1>1, <1>2, <1>3, BookOnDelete, BookOnInsert, BookOnRead
    DEF Odds!Next, Odds!Horizon, Odds!vars, Odds!tables, oddsVars

-----------------------------------------------------------------------------
\* Of fewer than two rows that quote a venue, every side of the merged book is read from the
\* one that quotes any.
LEMMA OneSource ==
    ASSUME NEW n \in Nat, NEW T \in SUBSET (1 .. n), Cardinality(T) < 2,
           NEW i \in T, NEW j \in T
    PROVE  i = j
  <1> SUFFICES ASSUME i # j
               PROVE  FALSE
    OBVIOUS
  <1>1. IsFiniteSet(1 .. n)
    BY FS_Interval
  <1>2. IsFiniteSet(T)
    BY <1>1, FS_Subset
  <1>3. Cardinality({i, j}) = 2
    <2>1. IsFiniteSet({i}) /\ Cardinality({i}) = 1
      BY FS_Singleton
    <2>2. Cardinality({i} \cup {j}) = 2
      BY <2>1, FS_AddElement
    <2>3. {i, j} = {i} \cup {j}
      OBVIOUS
    <2> QED
      BY <2>2, <2>3
  <1>4. Cardinality({i, j}) <= Cardinality(T)
    <2>1. {i, j} \in SUBSET T
      OBVIOUS
    <2> QED
      BY <1>2, <2>1, FS_Subset
  <1>5. Cardinality(T) \in Nat
    BY <1>2, FS_CardinalityType
  <1> QED
    BY <1>3, <1>4, <1>5

LEMMA CardinalityIsOne == \A S : Odds!Cardinality(S) = Cardinality(S)
  BY DEF Cardinality, Odds!Cardinality, IsFiniteSet, Odds!IsFiniteSet

LEMMA BookInvIsOneAnswer ==
    ASSUME BookInv, OddsTyped, Odds!OddsAssumption
    PROVE  FairBookIsOneAnswer
  <1> SUFFICES ASSUME NEW p \in Procs, oddsProc[p].cmd = "run", oddsProc[p].pc = "merged",
                      NEW v \in Venues, Odds!Devigged(Odds!Merged(p, v)),
                      v \notin oddsProc[p].doubt,
                      Odds!Cardinality({i \in DOMAIN oddsProc[p].read :
                                          oddsProc[p].read[i][v] # Odds!Blank}) < 2
               PROVE  Odds!Cardinality(Odds!Quotes(Odds!Merged(p, v))) = 1
    BY DEF FairBookIsOneAnswer, Odds!FairBookIsOneAnswer
  <1>1. PICK read \in Seq(Books) : read = oddsProc[p].read
    BY DEF OddsTyped, Waiting, Fetching, Running
  <1>2. PICK sources : sources = {i \in DOMAIN read : read[i][v] # Odds!Blank}
    OBVIOUS
  <1>3. Cardinality(sources) < 2
    BY <1>1, <1>2, CardinalityIsOne
  <1> DEFINE with(s) == {i \in DOMAIN read : read[i][v][s] # Odds!None}
             book == Odds!Merged(p, v)
  <1>4. book = [s \in Outcomes |-> IF with(s) = {} THEN Odds!None
                                   ELSE read[Odds!Max(with(s))][v][s]]
    BY <1>1 DEF Odds!Merged
  <1>5. \A s \in Outcomes : book[s] # Odds!None
    BY DEF Odds!Devigged, Odds!Quotes
  <1>6. \A s \in Outcomes : with(s) # {} /\ book[s] = read[Odds!Max(with(s))][v][s]
    BY <1>4, <1>5
  <1>7. PICK s0 : s0 \in Outcomes
    BY DEF Odds!OddsAssumption
  <1>8. PICK i0 \in with(s0) : TRUE
    BY <1>6, <1>7
  <1> HIDE DEF book
  <1>9. \A s \in Outcomes : with(s) \subseteq sources
    BY <1>2 DEF Odds!Blank
  <1>10. DOMAIN read = 1 .. Len(read) /\ Len(read) \in Nat
    BY <1>1
  <1>11. ASSUME NEW s \in Outcomes
         PROVE  with(s) = {i0} /\ Odds!Max(with(s)) = i0
    <2>1. sources \in SUBSET (1 .. Len(read)) /\ i0 \in sources
      BY <1>2, <1>7, <1>9, <1>10
    <2>2. \A i \in sources : i = i0
      BY <1>3, <1>10, <2>1, OneSource
    <2>3. with(s) = {i0}
      BY <1>6, <1>9, <2>2
    <2>4. Odds!Max({i0}) = i0
      BY <1>10, <2>1 DEF Odds!Max
    <2> QED
      BY <2>3, <2>4
  <1>12. PICK n : \A s \in Outcomes : read[i0][v][s] \in {Odds!None, n}
    BY <1>1 DEF BookInv, OneAnswer
  <1>13. \A s \in Outcomes : book[s] = n
    BY <1>5, <1>6, <1>11, <1>12
  <1>14. Odds!Quotes(book) = {n}
    BY <1>7, <1>13 DEF Odds!Quotes
  <1>15. Cardinality({n}) = 1
    BY FS_Singleton
  <1> QED
    BY <1>14, <1>15, CardinalityIsOne DEF book

-----------------------------------------------------------------------------
(* The three caches together                                                 *)

SquadInv == SquadTyped /\ CardsInv /\ PenaltyInv /\ LineupsInv
OddsInv == OddsTyped /\ Odds!UnresolvedIsOwed /\ BookInv
EloInv == EloTyped /\ RatedInv /\ BoundInv /\ LabelInv
CachesInv == SquadInv /\ OddsInv /\ EloInv

LEMMA CachesInvInit == CachesInit => CachesInv
  <1> SUFFICES ASSUME SquadInit, Odds!Init, Elo!Init
               PROVE  CachesInv
    BY DEF CachesInit
  <1>1. SquadInv
    BY SquadTypedInit, CardsInvInit, PenaltyInvInit, LineupsInvInit DEF SquadInv
  <1>2. OddsInv
    BY OddsTypedInit, OwedInvInit, BookInvInit DEF OddsInv
  <1>3. EloInv
    BY EloTypedInit, RatedInvInit, BoundInvInit, LabelInvInit DEF EloInv
  <1> QED
    BY <1>1, <1>2, <1>3 DEF CachesInv

\* A step is one of a cache, and leaves the others as they are.
LEMMA CachesInvStep ==
    ASSUME CachesInv, [CachesNext]_<<squadVars, oddsVars, eloVars>>
    PROVE  CachesInv'
  <1>1. /\ [SquadNext]_squadVars
        /\ [Odds!Next]_oddsVars
        /\ [Elo!Next]_eloVars
    BY DEF CachesNext
  <1>2. SquadAssumption /\ Elo!EloAssumption
    BY SquadAssumption, CachesAssumption
  <1>3. SquadTyped' /\ CardsInv' /\ PenaltyInv' /\ LineupsInv'
    BY <1>1, <1>2, SquadTypedStep, CardsInvStep, PenaltyInvStep, LineupsInvStep
       DEF CachesInv, SquadInv
  <1>4. OddsTyped' /\ Odds!UnresolvedIsOwed' /\ BookInv'
    BY <1>1, OddsTypedStep, OwedInvStep, BookInvStep DEF CachesInv, OddsInv
  <1>5. EloTyped' /\ RatedInv' /\ BoundInv' /\ LabelInv'
    BY <1>1, <1>2, EloTypedStep, RatedInvStep, BoundInvStep, LabelInvStep DEF CachesInv, EloInv
  <1> QED
    BY <1>3, <1>4, <1>5 DEF CachesInv, SquadInv, OddsInv, EloInv

LEMMA CachesInvAlways == CachesSpec => []CachesInv
  BY CachesInvInit, CachesInvStep, PTL DEF CachesSpec

\* refresh_all deletes a team's injuries, inserts them one by one and stores the Elo they cost
\* last: whatever commands overlap, and wherever one ends, a team that is not being replaced
\* and whose last replacement nothing crossed is charged for the rows it has.
THEOREM PenaltyIsOfTheRowsAlways == CachesSpec => []PenaltyIsOfTheRows
  <1>1. CachesInv => PenaltyIsOfTheRows
    BY PenaltyInvIsOfTheRows DEF CachesInv, SquadInv
  <1> QED
    BY <1>1, CachesInvAlways, PTL

\* reconcile_with_injuries takes the risk off whoever the injuries list as suspended, from rows
\* it read a while before the cards are stored: a row that still says both was reconciled
\* before the suspension was written.
THEOREM SuspensionWinsAlways == CachesSpec => []SuspensionWins
  <1>1. CachesInv => SuspensionWins
    BY CardsInvIsSuspensionWins DEF CachesInv, SquadInv
  <1> QED
    BY <1>1, CachesInvAlways, PTL

\* lineup_for_team takes the latest XI of any match unless the run knows the fixture: a run
\* that starts once the match is resolved names no other match's XI, and names the side's own
\* if that had landed, whatever refresh comes or ends in the middle of the run.
THEOREM OwnXIAlways == CachesSpec => []OwnXI
  <1>1. CachesInv => OwnXI
    BY DEF CachesInv, SquadInv, LineupsInv
  <1> QED
    BY <1>1, CachesInvAlways, PTL

\* upsert_event blanks the resolution of every event it stores, and refresh_all resolves them
\* at its end: an event that no run finds is owed by a refresh under way, or was lost by one
\* that failed or was killed.
THEOREM UnresolvedIsOwedAlways == CachesSpec => []UnresolvedIsOwed
  <1>1. CachesInv => UnresolvedIsOwed
    BY DEF CachesInv, OddsInv, UnresolvedIsOwed
  <1> QED
    BY <1>1, CachesInvAlways, PTL

\* A venue is de-vigged from quotes of one answer of the vendor, although a run reads between
\* the DELETE and the INSERTs of a refresh, and a refresh may be killed or give up there:
\* what is left is short of a side, and venue_prices_from_oddsapi passes it over.
THEOREM FairBookIsOneAnswerAlways == CachesSpec => []FairBookIsOneAnswer
  <1>1. CachesInv => FairBookIsOneAnswer
    BY BookInvIsOneAnswer, CachesAssumption DEF CachesInv, OddsInv
  <1> QED
    BY <1>1, CachesInvAlways, PTL

\* refresh_nationals stores the table row by row: a rating is never older than the last
\* feed stored for its team while no other refresh had the team to store, whatever crosses
\* or is killed; and it is of the newest feed that was accepted and listed the team, unless
\* a refresh is about to store it, was killed before it could or met another, or the feed
\* should have been refused for the rows it lost in parsing.
THEOREM RatedByTheNewestAlways == CachesSpec => []RatedByTheNewest
  <1>1. CachesInv => RatedByTheNewest
    BY RatedInvIsByTheNewest DEF CachesInv, EloInv
  <1> QED
    BY <1>1, CachesInvAlways, PTL

\* The outrights never simulate a seed under a live label, and a match only with a team whose
\* first rating landed between its statements; a live rating is never labelled a seed.
THEOREM LabelledAsRatedAlways == CachesSpec => []LabelledAsRated
  <1>1. CachesInv => LabelledAsRated
    BY LabelInvIsAsRated DEF CachesInv, EloInv
  <1> QED
    BY <1>1, CachesInvAlways, PTL
=============================================================================
