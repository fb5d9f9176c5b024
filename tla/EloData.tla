------------------------------- MODULE EloData -------------------------------
(* The ratings of national teams (desk/data/elo): `desk fetch-elo` reads the  *)
(* table of eloratings.net, checks that it is plausible, and stores it row by *)
(* row; whatever fails leaves the last good rows.  A run of the desk takes    *)
(* value and label of both teams of a match in four statements, falling back  *)
(* to a static seed team by team (EloRuntime, build_features); the outrights  *)
(* take label and value of every team (live_elo).  A team the seed does not   *)
(* know is labelled "stub", and a match with a stub is never a pick.          *)
(*                                                                            *)
(* The commands share an SQLite file in autocommit mode.  A rating is the     *)
(* number of the feed it came from and whether it lies in the plausible range.*)
EXTENDS Integers, Sequences

CONSTANTS
    Teams,
    Seeded,       \* the teams of the seed table
    Fixture,      \* the two teams of a match
    Field,        \* the teams of the outright, in some order
    Feeds,        \* what World.tsv may hold: its lines, and the rows that parse
    Procs,        \* operating-system processes
    MinRows,      \* MIN_PLAUSIBLE_ROWS
    MaxFeeds, MaxReads, MaxKills   \* bounds

EloAssumption ==
    /\ Seeded \subseteq Teams /\ Fixture \in Teams \X Teams /\ Field \in Seq(Teams)
    /\ \A f \in Feeds : f.lines \in Nat /\ f.rows \in Seq([team : Teams, sane : BOOLEAN])
    /\ {MinRows, MaxFeeds, MaxReads, MaxKills} \subseteq Nat

VARIABLES
    rating,     \* national_elo: the rows there are
    mark,       \* elo_fetches: the last status
    proc,       \* the commands under way
    feeds, reads, kills,
    \* Observed, for the properties only:
    newest,     \* per team: the last feed that passed the checks and listed it
    floor,      \* per team: the last feed stored while no other refresh had it to store
    half,       \* feeds that passed the checks although fewer rows of them parse
    doubt       \* teams that a killed refresh, or two at once, have left open

vars == <<rating, mark, proc, feeds, reads, kills, newest, floor, half, doubt>>

-----------------------------------------------------------------------------
Idle == [cmd |-> "none"]

Live == "eloratings"

\* What EloRuntime falls back to: feed 0 is the seed, or its default.
Seed == [n |-> 0, sane |-> TRUE]

\* national_elo, national_elo_source
ValueOf(t) == IF t \in DOMAIN rating THEN rating[t] ELSE Seed
LabelOf(t) ==
    IF t \in DOMAIN rating THEN Live ELSE IF t \in Seeded THEN "wiki" ELSE "stub"

\* The teams a refresh has yet to store.
Listed(rows) == {rows[i].team : i \in DOMAIN rows}
Coming == UNION {Listed(proc[p].left) : p \in {p \in Procs : proc[p].cmd = "walk"}}
Beside(p) == {q \in Procs \ {p} : proc[q].cmd = "walk"}

TypeOK ==
    /\ DOMAIN rating \subseteq Teams
    /\ \A t \in DOMAIN rating : rating[t] \in [n : 1 .. MaxFeeds, sane : BOOLEAN]
    /\ mark \in {"none", "ok", "error", "parser_mismatch"}
    /\ \A p \in Procs : proc[p].cmd \in {"none", "ask", "walk", "match", "field"}
    /\ {newest, floor} \subseteq [Teams -> 0 .. MaxFeeds]
    /\ half \subseteq 1 .. MaxFeeds /\ doubt \subseteq Teams

Init ==
    /\ rating = [t \in {} |-> Seed] /\ mark = "none"
    /\ proc = [p \in Procs |-> Idle]
    /\ feeds = 0 /\ reads = 0 /\ kills = 0
    /\ newest = [t \in Teams |-> 0] /\ floor = newest
    /\ half = {} /\ doubt = {}

-----------------------------------------------------------------------------
(* refresh_nationals                                                         *)

\* parse_world_tsv.  The lines are counted as read, not as parsed; four fifths of the rows
\* that parse must lie in the range.
Plausible(f) ==
    /\ f.lines >= MinRows /\ f.rows # <<>>
    /\ 5 * Len(SelectSeq(f.rows, LAMBDA r : r.sane)) >= 4 * Len(f.rows)

\* Faulty: what is there already stays.
Stored_NewOnly(t, new) == IF t \in DOMAIN rating THEN rating[t] ELSE new

\* upsert_national: ON CONFLICT DO UPDATE
Stored(t, new) == new

Start(p) ==
    /\ proc[p] = Idle /\ feeds < MaxFeeds
    /\ proc' = [proc EXCEPT ![p] = [cmd |-> "ask"]]
    /\ UNCHANGED <<rating, mark, feeds, reads, kills, newest, floor, half, doubt>>

\* A transport error, or a status other than 200.
Fails(p) ==
    /\ proc[p].cmd = "ask"
    /\ mark' = "error"
    /\ proc' = [proc EXCEPT ![p] = Idle]
    /\ UNCHANGED <<rating, feeds, reads, kills, newest, floor, half, doubt>>

\* The last good rows stay.
Refused(p) ==
    /\ proc[p].cmd = "ask" /\ feeds < MaxFeeds
    /\ \E f \in Feeds : ~Plausible(f)
    /\ feeds' = feeds + 1
    /\ mark' = "parser_mismatch"
    /\ proc' = [proc EXCEPT ![p] = Idle]
    /\ UNCHANGED <<rating, reads, kills, newest, floor, half, doubt>>

\* What another refresh has yet to store, it will store over these rows or before them.
Accepted(p) ==
    /\ proc[p].cmd = "ask" /\ feeds < MaxFeeds
    /\ feeds' = feeds + 1
    /\ \E f \in Feeds :
         LET listed == Listed(f.rows) IN
         /\ Plausible(f)
         /\ proc' = [proc EXCEPT ![p] = [cmd |-> "walk", n |-> feeds + 1, left |-> f.rows]]
         /\ newest' = [t \in Teams |-> IF t \in listed THEN feeds + 1 ELSE newest[t]]
         /\ doubt' = (doubt \ listed) \cup (listed \cap Coming)
         /\ half' = IF Len(f.rows) < MinRows THEN half \cup {feeds + 1} ELSE half
    /\ UNCHANGED <<rating, mark, reads, kills, floor>>

\* One row.
Upsert(p) ==
    /\ proc[p].cmd = "walk" /\ proc[p].left # <<>>
    /\ LET r == Head(proc[p].left) IN
       /\ rating' = [t \in DOMAIN rating \cup {r.team} |->
                       IF t = r.team THEN Stored(t, [n |-> proc[p].n, sane |-> r.sane])
                       ELSE rating[t]]
       /\ floor' = IF \E q \in Beside(p) : r.team \in Listed(proc[q].left) THEN floor
                   ELSE [floor EXCEPT ![r.team] = proc[p].n]
    /\ proc' = [proc EXCEPT ![p].left = Tail(@)]
    /\ UNCHANGED <<mark, feeds, reads, kills, newest, half, doubt>>

MarkOk(p) ==
    /\ proc[p].cmd = "walk" /\ proc[p].left = <<>>
    /\ mark' = "ok"
    /\ proc' = [proc EXCEPT ![p] = Idle]
    /\ UNCHANGED <<rating, feeds, reads, kills, newest, floor, half, doubt>>

\* The timeout of the loop, or the end of the process.
Kill(p) ==
    /\ proc[p].cmd = "walk" /\ kills < MaxKills
    /\ kills' = kills + 1
    /\ proc' = [proc EXCEPT ![p] = Idle]
    /\ doubt' = doubt \cup Listed(proc[p].left)
    /\ UNCHANGED <<rating, mark, feeds, reads, newest, floor, half>>

-----------------------------------------------------------------------------
(* The readers: what they ask, one statement at a time                       *)

Value(t) == [ask |-> "value", team |-> t]
Label(t) == [ask |-> "label", team |-> t]

\* build_features: both values, then both labels.
MatchPlan == <<Value(Fixture[1]), Value(Fixture[2]), Label(Fixture[1]), Label(Fixture[2])>>

\* live_elo_overrides_for_field: label and value of each team.
FieldPlan ==
    [i \in 1 .. 2 * Len(Field) |->
       IF i % 2 = 1 THEN Label(Field[(i + 1) \div 2]) ELSE Value(Field[i \div 2])]

PlanOf(cmd) == IF cmd = "match" THEN MatchPlan ELSE FieldPlan

\* Faulty: a team without a live rating is asked for its value all the same.
Onward_AnyLabel(cmd, label) == 1

\* The outrights go on to the next team if the rating is not live.
Onward(cmd, label) == IF cmd = "field" /\ label # Live THEN 2 ELSE 1

\* A run of the desk comes to a match, a run of the outrights to its field.
Read(p, cmd) ==
    /\ proc[p] = Idle /\ reads < MaxReads
    /\ reads' = reads + 1
    /\ proc' = [proc EXCEPT ![p] =
         [cmd |-> cmd, next |-> 1, had |-> DOMAIN rating, value |-> <<>>, label |-> <<>>]]
    /\ UNCHANGED <<rating, mark, feeds, kills, newest, floor, half, doubt>>

Reading(p) == proc[p].cmd \in {"match", "field"}
Through(p) == proc[p].next > Len(PlanOf(proc[p].cmd))
Got(f, t, x) == [u \in DOMAIN f \cup {t} |-> IF u = t THEN x ELSE f[u]]

AskValue(p) ==
    /\ Reading(p) /\ ~Through(p)
    /\ LET a == PlanOf(proc[p].cmd)[proc[p].next] IN
       /\ a.ask = "value"
       /\ proc' = [proc EXCEPT ![p].next = @ + 1,
                               ![p].value = Got(@, a.team, ValueOf(a.team))]
    /\ UNCHANGED <<rating, mark, feeds, reads, kills, newest, floor, half, doubt>>

AskLabel(p) ==
    /\ Reading(p) /\ ~Through(p)
    /\ LET a == PlanOf(proc[p].cmd)[proc[p].next] IN
       /\ a.ask = "label"
       /\ proc' = [proc EXCEPT ![p].next = @ + Onward(proc[p].cmd, LabelOf(a.team)),
                               ![p].label = Got(@, a.team, LabelOf(a.team))]
    /\ UNCHANGED <<rating, mark, feeds, reads, kills, newest, floor, half, doubt>>

\* The match is decided, the outright simulated.
Priced(p) ==
    /\ Reading(p) /\ Through(p)
    /\ proc' = [proc EXCEPT ![p] = Idle]
    /\ UNCHANGED <<rating, mark, feeds, reads, kills, newest, floor, half, doubt>>

-----------------------------------------------------------------------------
\* Past the bounds nothing happens.
Horizon ==
    /\ feeds = MaxFeeds /\ reads = MaxReads
    /\ \A p \in Procs : proc[p].cmd \in {"none", "ask"}
    /\ UNCHANGED vars

Next ==
    \/ \E p \in Procs :
         \/ Start(p) \/ Fails(p) \/ Refused(p) \/ Accepted(p) \/ Upsert(p) \/ MarkOk(p)
         \/ Kill(p)
         \/ Read(p, "match") \/ Read(p, "field")
         \/ AskValue(p) \/ AskLabel(p) \/ Priced(p)
    \/ Horizon

Spec == Init /\ [][Next]_vars

-----------------------------------------------------------------------------
\* A rating is never of an older feed than the last one that was stored alone, nor of a
\* feed that was not accepted, whatever crosses or dies; and it is that of the latest feed
\* that was accepted and listed the team, unless a refresh is about to store it, was killed
\* before, or met another, or the feed should have been refused (HalfParsedIsRefused).
RatedByTheNewest ==
    \A t \in Teams :
        /\ floor[t] <= ValueOf(t).n /\ ValueOf(t).n <= newest[t]
        /\ t \notin Coming \cup doubt /\ newest[t] \notin half => ValueOf(t).n = newest[t]

\* "never overwrite the cache from a half-parsed feed", "aborts the whole parse on ... too
\* few rows after parse": no rating is of a feed fewer than MinRows rows of which parse.
\* The code counts the lines before it parses them: refuted.
HalfParsedIsRefused == \A t \in DOMAIN rating : rating[t].n \notin half

\* "Preserves the stub-Elo gate": a live rating is never labelled as a seed, and what is
\* labelled live is live.  A match asks for the labels last, so a team whose first row
\* lands between the two statements passes the gate with the default of the seed; the
\* outrights ask in the other order, and hold whatever crosses.
LabelledAsRated ==
    \A p \in Procs : Reading(p) =>
        \A t \in DOMAIN proc[p].value \cap DOMAIN proc[p].label :
            /\ proc[p].value[t] # Seed => proc[p].label[t] = Live
            /\ proc[p].label[t] = Live /\ (proc[p].cmd = "field" \/ t \in proc[p].had)
                 => proc[p].value[t] # Seed
=============================================================================
