------------------------------- MODULE Roundup -------------------------------
(* The weekly roundup (draft_weekly of social/runner.py, build_weekly_roundup  *)
(* of social/selector.py, social_weekly_cron.py) over the files the runs of    *)
(* the desk leave: a run decides every match the venue lists and withdraws     *)
(* those of the index it did not find; once a week the picks that stand in a   *)
(* file are drafted.  Failures, kills and overlaps of runs are in Publish, the *)
(* life of a draft in SocialDraft; how picks are ranked is left out.           *)
EXTENDS Week

CONSTANTS
    Matches,
    Kickoff,   \* of each match
    MaxTime    \* bound

RoundupAssumption ==
    /\ WeekAssumption
    /\ Kickoff \in [Matches -> Nat] /\ MaxTime \in Nat

VARIABLES
    now,
    venue,    \* of each match: before its market, while it is listed, after it closed
    file,     \* the verdict in each match's file
    index,    \* the matches of index.json
    drafts,   \* the rows of kind weekly_roundup: the picks of each week drafted
    wake,     \* when the loop fires
    \* Observed, for the property only:
    called,   \* the matches that were a pick when a run last decided them
    fired     \* the weeks draft-weekly was asked for, each with its `called`

vars == <<now, venue, file, index, drafts, wake, called, fired>>

-----------------------------------------------------------------------------
States == {"none", "pick", "pass", "withdrawn"}

TypeOK ==
    /\ now \in 0 .. MaxTime
    /\ venue \in [Matches -> {"before", "listed", "closed"}]
    /\ file \in [Matches -> States]
    /\ index \subseteq Matches
    /\ \A d \in drafts : d.week \in Int /\ d.picks \subseteq Matches
    /\ wake \in Nat
    /\ called \subseteq Matches

Init ==
    /\ now = 0
    /\ venue = [m \in Matches |-> "before"]
    /\ file = [m \in Matches |-> "none"]
    /\ index = {} /\ drafts = {} /\ called = {} /\ fired = {}
    /\ wake = SleepLen(now)

-----------------------------------------------------------------------------
(* The venue: a market opens before the match and closes once it is settled.   *)

Open(m) ==
    /\ venue[m] = "before" /\ now < Kickoff[m]
    /\ venue' = [venue EXCEPT ![m] = "listed"]
    /\ UNCHANGED <<now, file, index, drafts, wake, called, fired>>

Close(m) ==
    /\ venue[m] = "listed" /\ now > Kickoff[m]
    /\ venue' = [venue EXCEPT ![m] = "closed"]
    /\ UNCHANGED <<now, file, index, drafts, wake, called, fired>>

-----------------------------------------------------------------------------
(* A run of the desk.                                                          *)

\* The events asked for are those with closed = false.
Listed == {m \in Matches : venue[m] = "listed"}

\* prior_ids - current, but for what has terminated already.
Missing == {m \in index \ Listed : file[m] # "withdrawn"}

\* A sport without fixtures is skipped; otherwise all of them are decided anew, also those
\* in play, and the index is what was published.
Run ==
    /\ Listed # {}
    /\ \E picks \in SUBSET Listed :
         /\ file' = [m \in Matches |->
                       CASE m \in picks -> "pick"
                         [] m \in Listed \ picks -> "pass"
                         [] m \in Missing -> "withdrawn"
                         [] OTHER -> file[m]]
         /\ called' = (called \ Listed) \cup picks
    /\ index' = Listed
    /\ UNCHANGED <<now, venue, drafts, wake, fired>>

-----------------------------------------------------------------------------
(* draft-weekly, when its loop fires.                                          *)

\* _load_published_matches and the filter of build_weekly_roundup.
Standing == {m \in Matches : file[m] = "pick" /\ InWindow(Kickoff[m], now)}

Drafted == \E d \in drafts : d.week = WindowStart(now)

Fire ==
    /\ now = wake
    /\ drafts' = IF Drafted \/ Standing = {} THEN drafts
                 ELSE drafts \cup {[week |-> WindowStart(now), picks |-> Standing]}
    /\ fired' = fired \cup {[week |-> WindowStart(now),
                             picks |-> {m \in called : InWindow(Kickoff[m], now)}]}
    /\ wake' = now + SleepLen(now)
    /\ UNCHANGED <<now, venue, file, index, called>>

\* The subprocess fails or the loop is paused: there is no second try this week.
Skip ==
    /\ now = wake
    /\ wake' = now + SleepLen(now)
    /\ UNCHANGED <<now, venue, file, index, drafts, called, fired>>

Pass ==
    /\ now < MaxTime /\ now < wake
    /\ now' = now + 1
    /\ UNCHANGED <<venue, file, index, drafts, wake, called, fired>>

\* The bound is reached.
Horizon == now = MaxTime /\ UNCHANGED vars

Next ==
    \/ \E m \in Matches : Open(m) \/ Close(m)
    \/ Run \/ Fire \/ Skip \/ Pass \/ Horizon

-----------------------------------------------------------------------------
\* "hit_rate: of last week's published Picks that have now resolved (...) computable from
\* existing JSON": what is drafted for a week has every match of the week that was a pick
\* when it was last decided.
RoundupHasThePicks ==
    \A f \in fired : f.picks # {} => \E d \in drafts : d.week = f.week /\ f.picks \subseteq d.picks

\* A week has one roundup, and no match is in two.
RoundupsAreApart ==
    \A d, e \in drafts : d # e => d.week # e.week /\ d.picks \cap e.picks = {}

\* What the first roundup of a week misses of the matches that were a pick when last decided
\* are matches a run has withdrawn, after their market had closed.
MissesAreWithdrawn ==
    Fire /\ ~Drafted =>
        \A m \in called : InWindow(Kickoff[m], now) =>
            \/ \E d \in drafts' : d.week = WindowStart(now) /\ m \in d.picks
            \/ file[m] = "withdrawn" /\ venue[m] = "closed"

OnlyWithdrawnAreMissed == [][MissesAreWithdrawn]_vars
=============================================================================
