------------------------------ MODULE Activity -----------------------------
(* What readers do, and what they are shown of it (activity/router.py,       *)
(* jobs.py, activity_refresh_loop.py): votes of one visitor, whose requests  *)
(* run side by side, one SQL statement at a time; views and votes of one     *)
(* match, with the rows the seed job tops them up with, the aggregate the    *)
(* page reads, and the job that prunes old views.                            *)
(*                                                                           *)
(* Time is kept in classes, each as wide as the code tells apart: rows grow  *)
(* older a class at a time.                                                  *)
EXTENDS Integers, FiniteSets, FiniteSetsExt

CONSTANTS
    Matches,       \* what the visitor may vote on
    Match,         \* the one whose views, seeds and aggregate are kept
    Requests,      \* the visitor's vote requests in flight
    DailyMax,      \* VOTE_PER_ANON_DAILY_MAX
    ViewTargets,   \* what view_target_day may come to, before the cap
    VoteTargets,   \* the same of vote_target_lifetime
    ViewCap,       \* _HARD_CAP_VIEWS_DAY
    VoteCap,       \* _HARD_CAP_VOTES_LIFETIME
    DecayViews, DecayVotes,   \* _AUTO_DECAY_REAL_VIEWS, _AUTO_DECAY_REAL_VOTES
    MaxReaders, MaxVotes, MaxSeeds, MaxOutages   \* bounds

ActivityAssumption ==
    /\ IsFiniteSet(Matches) /\ Match \in Matches /\ IsFiniteSet(Requests)
    /\ DailyMax \in Nat \ {0}
    /\ ViewTargets \subseteq Nat /\ VoteTargets \subseteq Nat
    /\ {ViewCap, VoteCap, DecayViews, DecayVotes} \subseteq Nat
    /\ {MaxReaders, MaxVotes, MaxSeeds, MaxOutages} \subseteq Nat

VARIABLES
    row,        \* match_reactions: the visitor's vote on each match
    request,    \* the vote requests
    votes,      \* answered votes
    views,      \* match_views of Match: rows of readers and seeds, by age
    seeded,     \* its seeded votes
    aggregate,  \* its row of match_aggregates
    seeder,     \* the pass of the seed job
    seeds, readers,
    down,       \* the aggregate job is switched off or fails for days
    outages

voteVars == <<row, request, votes>>
jobVars == <<views, seeded, aggregate, seeder, seeds, readers, down, outages>>
vars == <<voteVars, jobVars>>

-----------------------------------------------------------------------------
\* Of a vote: within the 30 s cooldown, within its 24 h, past them.
VoteAges == {"none", "cooling", "open", "old"}

\* Of a view: within 24 h, older, older and known to an aggregate as such.
ViewAges == {"fresh", "aged", "settled"}

NoViews == [a \in ViewAges |-> 0]
Idle == [pc |-> "idle", match |-> Match, saw |-> "none"]

TypeOK ==
    /\ row \in [Matches -> [age : VoteAges, locked : BOOLEAN]]
    /\ request \in [Requests -> [pc : {"idle", "count", "read", "insert", "lock", "flip"},
                                 match : Matches, saw : VoteAges]]
    /\ \A kind \in {"reader", "seed"} : views[kind] \in [ViewAges -> Nat]
    /\ seeded \in Nat
    /\ aggregate \in [exists : BOOLEAN, views24 : Nat, votes : Nat, disabled : BOOLEAN]
    /\ seeder \in [pc : {"idle", "views", "votes"}, left : Nat]
    /\ down \in BOOLEAN

Init ==
    /\ row = [m \in Matches |-> [age |-> "none", locked |-> FALSE]]
    /\ request = [r \in Requests |-> Idle]
    /\ votes = 0
    /\ views = [kind \in {"reader", "seed"} |-> NoViews]
    /\ seeded = 0
    /\ aggregate = [exists |-> FALSE, views24 |-> 0, votes |-> 0, disabled |-> FALSE]
    /\ seeder = [pc |-> "idle", left |-> 0]
    /\ seeds = 0 /\ readers = 0 /\ outages = 0
    /\ down = FALSE

-----------------------------------------------------------------------------
(* post_vote: each step is one statement, committed by itself.               *)

\* The visitor's rows younger than a day.
VotedToday == {m \in Matches : row[m].age \in {"cooling", "open"}}

Step(r, pc) == request' = [request EXCEPT ![r].pc = pc]
Answer(r) == request' = [request EXCEPT ![r] = Idle]

Vote(r, m) ==
    /\ request[r].pc = "idle" /\ votes < MaxVotes
    /\ votes' = votes + 1
    /\ request' = [request EXCEPT ![r] = [pc |-> "count", match |-> m, saw |-> "none"]]
    /\ UNCHANGED <<row, jobVars>>

\* Faulty: the ceiling lets one more through.
TooMany_OneMore == Cardinality(VotedToday) > DailyMax

TooMany == Cardinality(VotedToday) >= DailyMax

\* The daily ceiling; beyond it, 429.
CountToday(r) ==
    /\ request[r].pc = "count"
    /\ IF TooMany THEN Answer(r) ELSE Step(r, "read")
    /\ UNCHANGED <<row, votes, jobVars>>

\* Faulty: nothing locks a vote.
NextStep_NeverLocks(m) ==
    CASE row[m].age = "none" -> "insert"
      [] row[m].locked \/ row[m].age = "cooling" -> "idle"
      [] OTHER -> "flip"

\* No row: insert one. A lock or the cooldown: 409 or 429. An old row gets its lock.
NextStep(m) ==
    CASE row[m].age = "none" -> "insert"
      [] row[m].locked \/ row[m].age = "cooling" -> "idle"
      [] row[m].age = "old" -> "lock"
      [] OTHER -> "flip"

ReadRow(r) ==
    LET m == request[r].match IN
    /\ request[r].pc = "read"
    /\ IF NextStep(m) = "idle" THEN Answer(r)
       ELSE request' = [request EXCEPT ![r].pc = NextStep(m), ![r].saw = row[m].age]
    /\ UNCHANGED <<row, votes, jobVars>>

\* The primary key is (match, visitor): a second insert raises, and the route answers 500.
InsertVote(r) ==
    LET m == request[r].match IN
    /\ request[r].pc = "insert" /\ Answer(r)
    /\ row' = IF row[m].age = "none" THEN [row EXCEPT ![m].age = "cooling"] ELSE row
    /\ UNCHANGED <<votes, jobVars>>

LockVote(r) ==
    /\ request[r].pc = "lock" /\ Answer(r)
    /\ row' = [row EXCEPT ![request[r].match].locked = TRUE]
    /\ UNCHANGED <<votes, jobVars>>

\* A change starts the row's time again: voted_at = now().
FlipVote(r) ==
    /\ request[r].pc = "flip" /\ Answer(r)
    /\ row' = [row EXCEPT ![request[r].match].age = "cooling"]
    /\ UNCHANGED <<votes, jobVars>>

VoteAges24h(m) ==
    /\ row[m].age \in {"cooling", "open"}
    /\ row' = [row EXCEPT ![m].age = IF @ = "cooling" THEN "open" ELSE "old"]
    /\ UNCHANGED <<request, votes, jobVars>>

-----------------------------------------------------------------------------
(* Views and the jobs.                                                       *)

Total(kind) == views[kind]["fresh"] + views[kind]["aged"] + views[kind]["settled"]
RealVotes == IF row[Match].age = "none" THEN 0 ELSE 1
HasRows == Total("reader") + Total("seed") + seeded + RealVotes > 0

\* post_view. Each of these readers is another one.
PostView ==
    /\ readers < MaxReaders
    /\ readers' = readers + 1
    /\ views' = [views EXCEPT !["reader"]["fresh"] = @ + 1]
    /\ UNCHANGED <<voteVars, seeded, aggregate, seeder, seeds, down, outages>>

\* A day, and six more, go over a view. The aggregate job, every minute, runs in between
\* unless it is down for that long.
ViewAgesOneClass(kind, a) ==
    /\ views[kind][a] > 0
    /\ views' = CASE a = "fresh" -> [views EXCEPT ![kind]["fresh"] = @ - 1, ![kind]["aged"] = @ + 1]
                  [] OTHER -> [views EXCEPT ![kind]["aged"] = @ - 1, ![kind]["settled"] = @ + 1]
    /\ a = "fresh" \/ (a = "aged" /\ down)
    /\ UNCHANGED <<voteVars, seeded, aggregate, seeder, seeds, readers, down, outages>>

\* prune_old_views: what is older than seven days.
Prune(kind) ==
    /\ views[kind]["settled"] > 0
    /\ views' = [views EXCEPT ![kind]["settled"] = 0]
    /\ UNCHANGED <<voteVars, seeded, aggregate, seeder, seeds, readers, down, outages>>

\* Faulty: every view kept counts as one of the last 24 hours.
Recomputed_AllKept ==
    [aggregate EXCEPT !.exists = TRUE, !.views24 = Total("reader") + Total("seed"),
                      !.votes = seeded + RealVotes]

\* The row of _AGGREGATE_SQL: seed_disabled is not among what it sets.
Recomputed ==
    [aggregate EXCEPT !.exists = TRUE,
                      !.views24 = views["reader"]["fresh"] + views["seed"]["fresh"],
                      !.votes = seeded + RealVotes]

\* aggregate_match_activity: only matches that still have a view or a vote.
Aggregate ==
    /\ ~down
    /\ aggregate' = IF HasRows THEN Recomputed ELSE aggregate
    /\ views' = [kind \in DOMAIN views |->
                   [fresh |-> views[kind]["fresh"], aged |-> 0,
                    settled |-> views[kind]["settled"] + views[kind]["aged"]]]
    /\ UNCHANGED <<voteVars, seeded, seeder, seeds, readers, down, outages>>

\* The switch of the job, or its database, is off for days; then it is back.
Outage ==
    /\ \/ ~down /\ outages < MaxOutages /\ outages' = outages + 1
       \/ down /\ outages' = outages
    /\ down' = ~down
    /\ UNCHANGED <<voteVars, views, seeded, aggregate, seeder, seeds, readers>>

-----------------------------------------------------------------------------
(* seed_match_activity, one match of its pass.                               *)

Crossed == views["reader"]["fresh"] >= DecayViews /\ RealVotes >= DecayVotes

\* What the day's target leaves to this pass.
ViewRoom(target) == target - views["seed"]["fresh"]

\* The match is left alone once disabled, and disabled once readers have come. Otherwise
\* the views of this pass are counted against what is there already.
SeedBegin ==
    /\ seeder.pc = "idle" /\ ~aggregate.disabled /\ seeds < MaxSeeds
    /\ IF Crossed
       THEN /\ aggregate' = [aggregate EXCEPT !.exists = TRUE, !.disabled = TRUE]
            /\ UNCHANGED seeder
       ELSE /\ \E t \in ViewTargets : \E n \in 0 .. Max({0, ViewRoom(Min({t, ViewCap}))}) :
                 seeder' = [pc |-> "views", left |-> n]
            /\ UNCHANGED aggregate
    /\ UNCHANGED <<voteVars, views, seeded, seeds, readers, down, outages>>

InsertSeedView ==
    /\ seeder.pc = "views" /\ seeder.left > 0 /\ seeds < MaxSeeds
    /\ seeds' = seeds + 1
    /\ views' = [views EXCEPT !["seed"]["fresh"] = @ + 1]
    /\ seeder' = [seeder EXCEPT !.left = @ - 1]
    /\ UNCHANGED <<voteVars, seeded, aggregate, readers, down, outages>>

\* The votes: a part of the gap to the lifetime target, at least one.
SeedVotes ==
    /\ seeder.pc = "views" /\ seeder.left = 0
    /\ \E t \in VoteTargets :
         LET gap == Min({t, VoteCap}) - seeded IN
         seeder' = IF gap <= 0 THEN [pc |-> "idle", left |-> 0]
                   ELSE [pc |-> "votes", left |-> Min({gap, Max({1, gap \div 60})})]
    /\ UNCHANGED <<voteVars, views, seeded, aggregate, seeds, readers, down, outages>>

InsertSeedVote ==
    /\ seeder.pc = "votes" /\ seeds < MaxSeeds
    /\ seeds' = seeds + 1
    /\ seeded' = seeded + 1
    /\ seeder' = IF seeder.left > 1 THEN [seeder EXCEPT !.left = @ - 1]
                 ELSE [pc |-> "idle", left |-> 0]
    /\ UNCHANGED <<voteVars, views, aggregate, readers, down, outages>>

\* A failed statement or a deploy: the rows inserted so far stay.
SeedEnds ==
    /\ seeder.pc # "idle"
    /\ seeder' = [pc |-> "idle", left |-> 0]
    /\ UNCHANGED <<voteVars, views, seeded, aggregate, seeds, readers, down, outages>>

Next ==
    \/ \E r \in Requests :
         \/ \E m \in Matches : Vote(r, m)
         \/ CountToday(r) \/ ReadRow(r) \/ InsertVote(r) \/ LockVote(r) \/ FlipVote(r)
    \/ \E m \in Matches : VoteAges24h(m)
    \/ PostView
    \/ \E kind \in {"reader", "seed"} :
         (\E a \in ViewAges : ViewAgesOneClass(kind, a)) \/ Prune(kind)
    \/ Aggregate \/ Outage
    \/ SeedBegin \/ InsertSeedView \/ SeedVotes \/ InsertSeedVote \/ SeedEnds

Spec == Init /\ [][Next]_vars

-----------------------------------------------------------------------------
\* "Daily ceiling per anon": requests side by side may all count before one of them
\* inserts; the ceiling is passed by no more than the others in flight.
DailyCeiling == Cardinality(VotedToday) <= DailyMax + Cardinality(Requests) - 1

Frozen(m) == row[m].age = "old" \/ row[m].locked

\* A request in flight has read the match's row while it could be changed.
Overdue(m) ==
    \E r \in Requests :
        request[r].match = m /\ request[r].pc = "flip" /\ request[r].saw = "open"

\* "after that the row is frozen": a vote past its 24 h, or locked, is never changed
\* again, but by a request that read the row before.
FrozenVoteStays ==
    [][\A m \in Matches :
          Frozen(m) /\ ~Overdue(m) =>
              /\ row[m].locked => row'[m].locked
              /\ row'[m].age = "cooling" => row[m].age = "cooling"]_vars

\* "views_24h": a match nobody has read for a week shows no readers of today, unless the
\* aggregate job was away: it leaves out the matches whose rows are all gone, and what it
\* showed of them last would stay.
NoGhostReaders ==
    ~HasRows /\ outages = 0 => aggregate.views24 = 0
=============================================================================
