---------------------------- MODULE RefreshLoop ----------------------------
(* When the desk refresh ticks (desk_refresh_loop.py): a loop that sleeps to *)
(* the next scheduled hour in chunks, in truncated seconds, while an         *)
(* operator edits control.json, ticks run past a slot, and deploys restart   *)
(* the process. Time is counted in half seconds, so that an instant may lie  *)
(* between two seconds; an hour and a day are as short as the constants say. *)
EXTENDS Integers

CONSTANTS
    HourSec,     \* seconds in an hour
    DayHours,    \* hours in a day
    ChunkSec,    \* longest sleep before control.json is read again (300)
    IdleSec,     \* sleep while paused or without hours (IDLE_POLL_SEC)
    BootSec,     \* INITIAL_DELAY_SEC
    Late,        \* bound: half seconds by which a sleep may overrun
    MinTick,     \* bounds: half seconds a tick takes, at least
    MaxTick,     \* and at most
    MaxTime,     \* bound: the last instant
    MaxEdits,    \* bound: edits of control.json
    MaxRestarts  \* bound: deploys

ASSUME RefreshAssumption ==
    /\ {HourSec, DayHours, ChunkSec, IdleSec, BootSec} \subseteq Nat \ {0}
    /\ {Late, MinTick, MaxTick, MaxTime, MaxEdits, MaxRestarts} \subseteq Nat
    /\ IdleSec <= ChunkSec
    \* A tick launches three interpreters one after the other: it outlasts a second.
    /\ 2 <= MinTick /\ MinTick <= MaxTick

VARIABLES
    now,
    control,    \* control.json
    loop,       \* run_desk_loop: where it is, when it wakes, whether a tick is due then
    edits, restarts,
    \* Observed, for the properties only:
    changed,    \* when control.json last changed
    tick,       \* the last tick: whether a slot or a boot began it, and when
    prior,      \* when the last tick of a slot before that one began
    ended       \* when the last tick ended

vars == <<now, control, loop, edits, restarts, changed, tick, prior, ended>>

-----------------------------------------------------------------------------
Never == -1
Instants == 0 .. MaxTime
Hours == 0 .. DayHours - 1
Hour == 2 * HourSec
Day == DayHours * Hour

Control == [enabled : BOOLEAN, hours : SUBSET Hours]
Loop == [pc : {"boot", "poll", "sleep", "tick"}, wake : Nat, due : BOOLEAN]

Booting(t) == [pc |-> "boot", wake |-> t + 2 * BootSec, due |-> FALSE]
Polling == [pc |-> "poll", wake |-> 0, due |-> FALSE]
Ticking == [pc |-> "tick", wake |-> 0, due |-> FALSE]
Sleeping(t, due) == [pc |-> "sleep", wake |-> t, due |-> due]

TypeOK ==
    /\ now \in Instants
    /\ control \in Control
    /\ loop \in Loop
    /\ edits \in 0 .. MaxEdits /\ restarts \in 0 .. MaxRestarts
    /\ tick \in [by : {"none", "boot", "slot"}, at : Instants \cup {Never}]
    /\ {changed, prior, ended} \subseteq Instants \cup {Never}

-----------------------------------------------------------------------------
(* The instants of the scheduled hours, today and tomorrow.                  *)
Upcoming(hours, t) ==
    LET today == Day * (t \div Day)
    IN  {d + h * Hour : d \in {today, today + Day}, h \in hours}

NextSlot(hours, t) ==
    CHOOSE s \in Upcoming(hours, t) : s > t /\ \A u \in Upcoming(hours, t) : u > t => s <= u

SecondsUntil_SameHour(hours, t) ==
    IF (t \div Hour) % DayHours \in hours THEN 0 ELSE (NextSlot(hours, t) - t) \div 2

\* Whole seconds, truncated, to the next slot strictly later than t.
SecondsUntil(hours, t) == (NextSlot(hours, t) - t) \div 2

Nap_OneSleep(c, t) ==
    IF ~c.enabled \/ c.hours = {} THEN Sleeping(t + 2 * IdleSec, FALSE)
    ELSE Sleeping(t + 2 * SecondsUntil(c.hours, t), TRUE)

Nap_ForgetsPause(c, t) ==
    IF c.hours = {} THEN Sleeping(t + 2 * IdleSec, FALSE)
    ELSE LET sleep == SecondsUntil(c.hours, t)
             chunk == IF sleep < ChunkSec THEN sleep ELSE ChunkSec
         IN  Sleeping(t + 2 * chunk, chunk = sleep)

\* What one pass of the while loop goes to sleep for.
Nap(c, t) ==
    IF ~c.enabled \/ c.hours = {} THEN Sleeping(t + 2 * IdleSec, FALSE)
    ELSE LET sleep == SecondsUntil(c.hours, t)
             chunk == IF sleep < ChunkSec THEN sleep ELSE ChunkSec
         IN  Sleeping(t + 2 * chunk, chunk = sleep)

-----------------------------------------------------------------------------
Init ==
    /\ now \in 0 .. Hour - 1
    /\ control \in Control
    /\ loop = Booting(now)
    /\ edits = 0 /\ restarts = 0
    /\ tick = [by |-> "none", at |-> Never]
    /\ changed = Never /\ prior = Never /\ ended = Never

Begin(by) ==
    /\ loop' = Ticking
    /\ tick' = [by |-> by, at |-> now]
    /\ prior' = IF tick.by = "slot" THEN tick.at ELSE prior

\* After the initial delay: a tick at once if anything is scheduled, or if
\* DESK_FORCE_TICK_ON_BOOT says so.
Boot(force) ==
    /\ loop.pc = "boot" /\ now >= loop.wake
    /\ IF force \/ (control.enabled /\ control.hours # {})
       THEN Begin("boot")
       ELSE loop' = Polling /\ UNCHANGED <<tick, prior>>
    /\ UNCHANGED <<now, control, edits, restarts, changed, ended>>

Poll ==
    /\ loop.pc = "poll"
    /\ loop' = Nap(control, now)
    /\ UNCHANGED <<now, control, edits, restarts, changed, tick, prior, ended>>

\* control.json is not read again between the sleep and the tick.
Wake ==
    /\ loop.pc = "sleep" /\ now >= loop.wake
    /\ IF loop.due THEN Begin("slot") ELSE loop' = Polling /\ UNCHANGED <<tick, prior>>
    /\ UNCHANGED <<now, control, edits, restarts, changed, ended>>

\* _tick returns or raises: the loop goes on either way.
EndTick ==
    /\ loop.pc = "tick" /\ now >= tick.at + MinTick
    /\ loop' = Polling
    /\ ended' = now
    /\ UNCHANGED <<now, control, edits, restarts, changed, tick, prior>>

\* put_control, post_loop_enabled for desk_refresh.
Edit(c) ==
    /\ edits < MaxEdits /\ c # control
    /\ control' = c
    /\ changed' = now
    /\ edits' = edits + 1
    /\ UNCHANGED <<now, loop, restarts, tick, prior, ended>>

\* A deploy ends the process, and the tick with it.
Restart ==
    /\ restarts < MaxRestarts
    /\ restarts' = restarts + 1
    /\ loop' = Booting(now)
    /\ ended' = IF loop.pc = "tick" THEN now ELSE ended
    /\ UNCHANGED <<now, control, edits, changed, tick, prior>>

\* A sleeper wakes at most Late after its time; a tick ends by MaxTick (each of its
\* subprocesses has a timeout).
Pass ==
    /\ now < MaxTime
    /\ CASE loop.pc \in {"boot", "sleep"} -> now < loop.wake + Late
         [] loop.pc = "tick" -> now < tick.at + MaxTick
         [] OTHER -> FALSE
    /\ now' = now + 1
    /\ UNCHANGED <<control, loop, edits, restarts, changed, tick, prior, ended>>

\* The bound of the clock, not an end of the loop.
Horizon == now = MaxTime /\ UNCHANGED vars

Next ==
    \/ \E force \in BOOLEAN : Boot(force)
    \/ Poll \/ Wake \/ EndTick
    \/ \E c \in Control : Edit(c)
    \/ Restart
    \/ Pass
    \/ Horizon

Spec == Init /\ [][Next]_vars

-----------------------------------------------------------------------------
(* A tick begun less than a second before an hour, or after it, is that      *)
(* hour's.                                                                   *)
HourOf(t) == (t + 1) \div Hour

Schedules(c, hour) == c.enabled /\ hour % DayHours \in c.hours

\* "the loop fires exactly once per day" (desk_refresh_loop.py:32-33), at most: no
\* hour begins two ticks, although a truncated sleep may end before the hour, which
\* is then still ahead when the tick is over; and a tick of a slot begins on time.
OncePerSlot ==
    tick.by = "slot" =>
        /\ prior # Never => HourOf(prior) < HourOf(tick.at)
        /\ (tick.at + 1) % Hour <= Late + 1

\* A tick nobody wants any more can only be due to an edit of the last chunks of sleep, or
\* made while it runs: control.json is as old as that when it is acted on, and no older.
PauseIsHeard ==
    loop.pc = "tick" /\ tick.by = "slot" /\ ~Schedules(control, HourOf(tick.at))
        => changed >= tick.at - 2 * ChunkSec - Late

\* "exactly once per day", at least: an hour that has been scheduled for longer than a
\* chunk of sleep began a tick, unless a tick was running then or the process is only
\* now starting, deploys notwithstanding.
SlotIsServed ==
    LET s == Hour * (now \div Hour)
    IN  /\ Schedules(control, now \div Hour)
        /\ changed < s - 2 * ChunkSec - Late
        /\ now > s + Late
        /\ loop.pc \notin {"boot", "tick"}
        => tick.at >= s - 1 \/ ended >= s
=============================================================================
