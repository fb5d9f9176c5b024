------------------------------ MODULE MailLoop -----------------------------
(* A loop that mails once a day: it looks every hour whether this is the     *)
(* hour, and asks a state file whether today's mail has gone out             *)
(* (daily_report_loop.py and daily_report.py, site_qa_loop.py and site_qa.py *)
(* alike). The registry can switch it off, an operator can mail from the     *)
(* command line, deploys end it anywhere. An hour is HourLen units of time.  *)
EXTENDS Registry

CONSTANTS
    Mailer,      \* its row in the registry
    HourLen,     \* units in an hour: the time between two looks
    DayHours,    \* hours in a day
    MailHour,    \* DAILY_REPORT_HOUR
    Late,        \* bound: units by which a sleep may overrun
    Work,        \* bound: units it takes to build and send a mail
    MaxDay,      \* bound: days
    MaxDeploys, MaxFailures, MaxManual   \* bounds

ASSUME MailAssumption ==
    /\ Mailer \in Loops
    /\ {HourLen, DayHours} \subseteq Nat \ {0}
    /\ MailHour \in 0 .. DayHours - 1
    /\ {Late, Work, MaxDay, MaxDeploys, MaxFailures, MaxManual} \subseteq Nat

VARIABLES
    now,
    sender,    \* the loop and the command line: where each is, for which day
    wake,      \* when the loop looks again
    lastSent,  \* last_sent.json: the day after the one mailed last, 0 if none
    mails,     \* mails that went out for each day
    deploys, failures, manual,
    \* Observed, for the properties only:
    due,       \* days the loop has looked at within their hour, switched on
    slips,     \* of each day: starts beside another sender, mails left without their mark
    excused    \* days whose mail failed, or was cut short by a deploy

mailVars == <<now, sender, wake, lastSent, mails, deploys, failures, manual,
              due, slips, excused>>
vars == <<registryVars, mailVars>>

-----------------------------------------------------------------------------
Senders == {"loop", "cli"}
Days == 0 .. MaxDay
DayLen == DayHours * HourLen
MaxTime == (MaxDay + 1) * DayLen - 1
PollLen == 1                          \* a paused loop looks every minute

Today == now \div DayLen
HourStart(d) == d * DayLen + MailHour * HourLen
HourEnd(d) == HourStart(d) + HourLen
InHour(d) == HourStart(d) <= now /\ now < HourEnd(d)

MailTypeOK ==
    /\ now \in 0 .. MaxTime
    /\ sender \in [Senders -> [pc : {"idle", "build", "mark"}, day : Days, since : 0 .. MaxTime]]
    /\ lastSent \in 0 .. MaxDay + 1
    /\ slips \in [Days -> Nat] /\ excused \subseteq Days /\ due \subseteq Days

Idle == [pc |-> "idle", day |-> 0, since |-> 0]

MailInit ==
    /\ now \in 0 .. HourLen - 1
    /\ sender = [s \in Senders |-> Idle]
    /\ wake = now /\ lastSent = 0
    /\ mails = [d \in Days |-> 0]
    /\ deploys = 0 /\ failures = 0 /\ manual = 0
    /\ due = {} /\ slips = [d \in Days |-> 0] /\ excused = {}

-----------------------------------------------------------------------------
\* Faulty: any mail counts as today's.
AlreadySent_Ever(d, read) == read # 0

\* Faulty: the mark is compared with the day the mail reports on, the day before.
AlreadySent_ReportDay(d, read) == read = d

AlreadySent(d, read) == read = d + 1

\* _read_state: a file that another sender has truncated and not filled yet reads as {}.
Reads(s) ==
    {lastSent} \cup (IF \E u \in Senders \ {s} : sender[u].pc = "mark" THEN {0} ELSE {})

\* run_once, up to its guard.
StartMail(s) ==
    /\ sender' = [sender EXCEPT ![s] = [pc |-> "build", day |-> Today, since |-> now]]
    /\ slips' = IF \E u \in Senders \ {s} : sender[u].pc # "idle"
                THEN [slips EXCEPT ![Today] = @ + 1] ELSE slips

\* The loop wakes, and looks at the switch, the hour and the state file.
Look ==
    LET inHour == IsEnabled(Mailer) /\ InHour(Today) IN
    /\ sender["loop"].pc = "idle" /\ now >= wake
    /\ due' = IF inHour THEN due \cup {Today} ELSE due
    /\ \/ /\ inHour /\ \E read \in Reads("loop") : ~AlreadySent(Today, read)
          /\ StartMail("loop") /\ UNCHANGED wake
       \/ /\ inHour => \E read \in Reads("loop") : AlreadySent(Today, read)
          /\ wake' = now + (IF IsEnabled(Mailer) THEN HourLen ELSE PollLen)
          /\ UNCHANGED <<sender, slips>>
    /\ UNCHANGED <<now, lastSent, mails, deploys, failures, manual, excused, registryVars>>

\* python daily_report.py --once
Manual ==
    /\ manual < MaxManual /\ sender["cli"].pc = "idle"
    /\ \E read \in Reads("cli") : ~AlreadySent(Today, read)
    /\ manual' = manual + 1
    /\ StartMail("cli")
    /\ UNCHANGED <<now, wake, lastSent, mails, deploys, failures, due, excused, registryVars>>

Return(s) ==
    /\ sender' = [sender EXCEPT ![s] = Idle]
    /\ wake' = IF s = "loop" THEN now + HourLen ELSE wake

\* The database or the mail server fails. The loop swallows it until its next look.
MailFails(s) ==
    /\ sender[s].pc = "build" /\ failures < MaxFailures
    /\ failures' = failures + 1
    /\ Return(s)
    /\ excused' = excused \cup {sender[s].day}
    /\ UNCHANGED <<now, lastSent, mails, deploys, manual, due, slips, registryVars>>

\* send_email
Send(s) ==
    /\ sender[s].pc = "build"
    /\ mails' = [mails EXCEPT ![sender[s].day] = @ + 1]
    /\ sender' = [sender EXCEPT ![s].pc = "mark"]
    /\ UNCHANGED <<now, wake, lastSent, deploys, failures, manual, due, slips, excused,
                   registryVars>>

\* mark_sent
MarkSent(s) ==
    /\ sender[s].pc = "mark"
    /\ lastSent' = sender[s].day + 1
    /\ Return(s)
    /\ UNCHANGED <<now, mails, deploys, failures, manual, due, slips, excused, registryVars>>

\* What the file holds once a write of it has stopped before its end: write_text truncates
\* the file before it writes, and a part of the document reads as {}.
CutShort == lastSent' \in {lastSent, 0}

Slipped(d) == slips' = [slips EXCEPT ![d] = @ + 1]

\* mark_sent raises (no directory, no space): the mail is out, and the loop swallows it.
MarkFails(s) ==
    /\ sender[s].pc = "mark" /\ failures < MaxFailures
    /\ failures' = failures + 1
    /\ CutShort
    /\ Return(s)
    /\ Slipped(sender[s].day)
    /\ UNCHANGED <<now, mails, deploys, manual, due, excused, registryVars>>

\* The process of the server and its loops ends and starts again.
Deploy ==
    /\ deploys < MaxDeploys
    /\ deploys' = deploys + 1
    /\ KillRequests
    /\ sender' = [sender EXCEPT !["loop"] = Idle]
    /\ wake' = now + PollLen
    /\ IF sender["loop"].pc = "mark"
       THEN CutShort /\ Slipped(sender["loop"].day)
       ELSE UNCHANGED <<lastSent, slips>>
    /\ excused' = IF sender["loop"].pc = "build" THEN excused \cup {sender["loop"].day} ELSE excused
    /\ UNCHANGED <<now, mails, failures, manual, due>>

Pass ==
    /\ now < MaxTime
    /\ sender["loop"].pc = "idle" => now < wake + Late
    /\ \A s \in Senders : sender[s].pc # "idle" => now < sender[s].since + Work
    /\ now' = now + 1
    /\ UNCHANGED <<sender, wake, lastSent, mails, deploys, failures, manual, due, slips,
                   excused, registryVars>>

\* The bound of the clock.
Horizon == now = MaxTime /\ UNCHANGED vars

Init == RegistryInit /\ MailInit

Next ==
    \/ RegistryNext /\ UNCHANGED mailVars
    \/ Look \/ Manual
    \/ \E s \in Senders : MailFails(s) \/ Send(s) \/ MarkSent(s) \/ MarkFails(s)
    \/ Deploy
    \/ Pass
    \/ Horizon

Spec == Init /\ [][Next]_vars

-----------------------------------------------------------------------------
\* "one per day": a day has one mail, and at most one more for each time a sender began
\* it beside another one, or left its mail without the mark (a deploy, or a write of the
\* state file that failed): whatever else interleaves, nothing mails a day again.
OneMailPerDay == \A d \in Days : mails[d] <= 1 + slips[d]

\* "emailed once per day": a day the loop has looked at in its hour has its mail when
\* the loop goes back to sleep, unless sending it failed or a deploy cut it short.
\* (It need not look in the hour: its sleeps of an hour and its work drift past it.)
DayIsMailed ==
    \A d \in due \ excused : sender["loop"].pc = "idle" => mails[d] >= 1
=============================================================================
