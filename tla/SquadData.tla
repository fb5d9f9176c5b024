------------------------------ MODULE SquadData ------------------------------
(* What the desk knows of the squads (desk/data/api_football): the injuries   *)
(* of each team and the Elo penalty drawn from them, the cards and who is one *)
(* booking from a ban, the lineups of each match.  The commands that fetch    *)
(* them, started by the refresh tick, by the lineups loop and by hand, share  *)
(* one SQLite file in autocommit mode: every statement is a step, a command   *)
(* may be killed after any of them (timeouts of 300 s), and another command   *)
(* or a run of the desk may come between any two.                             *)
EXTENDS Integers, FiniteSetsExt

CONSTANTS
    Teams, Players, Matches,
    Sides,           \* the two teams of each match
    Procs,           \* operating-system processes
    NoMatch,
    InjuryAnswers,   \* what /injuries may list of a team
    CardAnswers,     \* what /players may list of a team
    Weight, Cap,     \* INJURY_BASE_PENALTY by position, INJURY_MAX_TOTAL_ELO_PER_TEAM
    Threshold,       \* yellow_ban_threshold
    MaxRuns, MaxKills   \* bounds

Types == {"Suspended", "Missing Fixture", "Questionable"}
COUNTED_INJURY_TYPES == {"Suspended", "Missing Fixture"}

ASSUME SquadAssumption ==
    /\ Sides \in [Matches -> SUBSET Teams] /\ NoMatch \notin Matches
    /\ InjuryAnswers \subseteq SUBSET [player : Players, type : Types]
    /\ CardAnswers \subseteq SUBSET [player : Players, yellows : Nat]
    /\ Weight \in [Players -> Nat]
    /\ {Cap, Threshold, MaxRuns, MaxKills} \subseteq Nat

VARIABLES
    known,      \* team_resolution: the teams whose id is cached
    injury,     \* the rows of injuries of each team
    penalty,    \* injury_penalties: the row of each team, none or one number
    card,       \* the rows of card_accumulation of each team
    resolved,   \* fixture_resolution: the matches whose fixture is cached
    lineup,     \* lineups: when the XI of a match and team was fetched
    proc,       \* the commands under way
    fetches,    \* the answers of /fixtures/lineups so far: the order of fetched_at
    runs, kills,
    \* Observed, for the properties only (so is "sure" in the rows of card):
    crossed,    \* teams whose last replacement of injuries was crossed or cut short
    news        \* the XI last shown for each match and team, and what the run
                \* that showed it found there when it started

tables == <<known, injury, penalty, card, resolved, lineup>>
squadVars == <<tables, proc, fetches, runs, kills, crossed, news>>

-----------------------------------------------------------------------------
Never == 0
Slots == {x \in Matches \X Teams : x[2] \in Sides[x[1]]}

NoCommand ==
    [cmd |-> "none", pc |-> "idle", left |-> {}, at |-> NoMatch, rows |-> {},
     number |-> 0, found |-> {}, landed |-> {}]

\* The replacements of t's injuries under way.
Replacing(t) == {p \in Procs : /\ proc[p].cmd = "injuries" /\ proc[p].at = t
                               /\ proc[p].pc \in {"insert", "score"}}

Suspended(t) == {r.player : r \in {r \in injury[t] : r.type = "Suspended"}}

\* compute_injury_penalty
Charge(rows) ==
    LET counted == {r \in rows : r.type \in COUNTED_INJURY_TYPES}
        total == MapThenSumSet(LAMBDA r : Weight[r.player], counted)
    IN  IF total < Cap THEN total ELSE Cap

\* Faulty: the suspensions are not reconciled out.
Reconciled_AtRiskAnyway(answer, t) ==
    {[player |-> r.player, sure |-> TRUE, risk |-> r.yellows = Threshold - 1] : r \in answer}

\* _suspended_player_ids, card_data_to_rows, derive_at_risk: at risk is one booking from
\* the ban and not suspended.
Reconciled(answer, t) ==
    {[player |-> r.player, sure |-> TRUE,
      risk |-> r.yellows = Threshold - 1 /\ r.player \notin Suspended(t)] : r \in answer}

\* A suspension of q was written: what was reconciled before says nothing of it.
Doubted(rows, q) == {IF r.player = q THEN [r EXCEPT !.sure = FALSE] ELSE r : r \in rows}

\* Faulty: a row of the fixture is looked up first, and any row of the team if none landed.
Candidates_AnyRow(x) ==
    IF x[1] \in resolved /\ lineup[x] # Never THEN {x[1]} ELSE Matches

\* lineup_for_match_iso3: the matches whose rows may answer for the team of x.
Candidates(x) == IF x[1] \in resolved THEN {x[1]} ELSE Matches

\* lineup_for, lineup_for_team: of those, the row with the latest fetched_at.
XIOf(t, ms) ==
    LET landed == {m \in ms : <<m, t>> \in Slots /\ lineup[<<m, t>>] # Never}
    IN  IF landed = {} THEN NoMatch
        ELSE CHOOSE m \in landed : \A n \in landed : lineup[<<n, t>>] <= lineup[<<m, t>>]

-----------------------------------------------------------------------------
TypeOK ==
    /\ known \subseteq Teams /\ resolved \subseteq Matches
    /\ injury \in [Teams -> SUBSET [player : Players, type : Types]]
    /\ \A t \in Teams : penalty[t] \subseteq Nat /\ Cardinality(penalty[t]) < 2
    /\ card \in [Teams -> SUBSET [player : Players, risk : BOOLEAN, sure : BOOLEAN]]
    /\ lineup \in [Slots -> Nat]
    /\ \A p \in Procs : proc[p].cmd \in {"none", "injuries", "cards", "lineups", "run"}
    /\ crossed \subseteq Teams

SquadInit ==
    /\ known = {} /\ resolved = {}
    /\ injury = [t \in Teams |-> {}]
    /\ penalty = [t \in Teams |-> {}]
    /\ card = [t \in Teams |-> {}]
    /\ lineup = [x \in Slots |-> Never]
    /\ proc = [p \in Procs |-> NoCommand]
    /\ fetches = 0 /\ runs = 0 /\ kills = 0
    /\ crossed = {}
    /\ news = [x \in Slots |-> [xi |-> NoMatch, own |-> FALSE, landed |-> FALSE]]

-----------------------------------------------------------------------------
(* The walk over teams or matches.                                           *)

\* What a command walks over: the registry, the fixtures inside the window, or what a run
\* of the desk prices.
Walks(cmd) ==
    CASE cmd \in {"injuries", "cards"} -> {Teams}
      [] cmd = "lineups" -> SUBSET Matches \ {{}}
      [] cmd = "run" -> {Slots}

\* desk fetch-injuries, fetch-cards, fetch-lineups, run --once
Start(p, cmd) ==
    /\ proc[p].pc = "idle" /\ runs < MaxRuns
    /\ \E walk \in Walks(cmd) :
         proc' = [proc EXCEPT ![p] =
                    [NoCommand EXCEPT !.cmd = cmd, !.pc = "next", !.left = walk,
                                      !.found = resolved, !.landed = {x \in Slots : lineup[x] # Never}]]
    /\ runs' = runs + 1
    /\ UNCHANGED <<tables, fetches, kills, crossed, news>>

\* The walk goes on without x; the command is over after the last one.
Skip(p, x) ==
    LET left == proc[p].left \ {x} IN
    proc' = [proc EXCEPT ![p] =
               IF left = {} THEN NoCommand
               ELSE [@ EXCEPT !.pc = "next", !.at = NoMatch, !.rows = {}, !.number = 0,
                              !.left = left]]

\* An auth failure ends the walk: "no point probing a dead key".
Abort(p) == proc' = [proc EXCEPT ![p] = NoCommand]

\* resolve_team_id: from the cache, or asked once; no match and failures skip the team.
ResolveTeam(p, t) ==
    /\ proc[p].pc = "next" /\ proc[p].cmd \in {"injuries", "cards"} /\ t \in proc[p].left
    /\ \/ /\ proc' = [proc EXCEPT ![p].pc = "fetch", ![p].at = t]
          /\ known' = known \cup {t}
       \/ /\ t \notin known
          /\ Skip(p, t) \/ Abort(p)
          /\ UNCHANGED known
    /\ UNCHANGED <<injury, penalty, card, resolved, lineup, fetches, runs, kills, crossed, news>>

\* A fetch that failed: the team keeps its rows.
FetchFails(p) ==
    /\ proc[p].pc = "fetch"
    /\ Skip(p, proc[p].at) \/ (proc[p].cmd # "lineups" /\ Abort(p))
    /\ UNCHANGED <<tables, fetches, runs, kills, crossed, news>>

-----------------------------------------------------------------------------
(* refresh_injuries_one                                                      *)

FetchInjuries(p) ==
    /\ proc[p].pc = "fetch" /\ proc[p].cmd = "injuries"
    /\ \E answer \in InjuryAnswers :
         proc' = [proc EXCEPT ![p].pc = "delete", ![p].rows = answer,
                              ![p].number = Charge(answer)]
    /\ UNCHANGED <<tables, fetches, runs, kills, crossed, news>>

\* Faulty: the rows stay, as upserts would have it.
DeleteInjuries_Kept(p) ==
    LET t == proc[p].at IN
    /\ proc[p].pc = "delete" /\ proc[p].cmd = "injuries"
    /\ proc' = [proc EXCEPT ![p].pc = IF proc[p].rows = {} THEN "score" ELSE "insert"]
    /\ crossed' = IF Replacing(t) = {} THEN crossed \ {t} ELSE crossed \cup {t}
    /\ UNCHANGED <<tables, fetches, runs, kills, news>>

\* replace_injuries_for_team: the DELETE commits by itself.
DeleteInjuries(p) ==
    LET t == proc[p].at IN
    /\ proc[p].pc = "delete" /\ proc[p].cmd = "injuries"
    /\ injury' = [injury EXCEPT ![t] = {}]
    /\ proc' = [proc EXCEPT ![p].pc = IF proc[p].rows = {} THEN "score" ELSE "insert"]
    /\ crossed' = IF Replacing(t) = {} THEN crossed \ {t} ELSE crossed \cup {t}
    /\ UNCHANGED <<known, penalty, card, resolved, lineup, fetches, runs, kills, news>>

\* One INSERT.  A suspension makes what others reconciled doubtful.
InsertInjury(p) ==
    LET t == proc[p].at IN
    /\ proc[p].pc = "insert" /\ proc[p].cmd = "injuries"
    /\ \E r \in proc[p].rows :
         /\ \A row \in injury[t] : row.player # r.player
         /\ injury' = [injury EXCEPT ![t] = @ \cup {r}]
         /\ card' = IF r.type = "Suspended"
                    THEN [card EXCEPT ![t] = Doubted(@, r.player)] ELSE card
         /\ proc' = [q \in Procs |->
              CASE q = p -> [proc[p] EXCEPT !.rows = @ \ {r},
                               !.pc = IF proc[p].rows = {r} THEN "score" ELSE "insert"]
                [] /\ proc[q].cmd = "cards" /\ proc[q].at = t
                   /\ proc[q].pc \in {"delete", "insert"} /\ r.type = "Suspended"
                     -> [proc[q] EXCEPT !.rows = Doubted(@, r.player)]
                [] OTHER -> proc[q]]
    /\ UNCHANGED <<known, penalty, resolved, lineup, fetches, runs, kills, crossed, news>>

\* upsert_injury_penalty, of what was fetched.
Score(p) ==
    /\ proc[p].pc = "score"
    /\ penalty' = [penalty EXCEPT ![proc[p].at] = {proc[p].number}]
    /\ Skip(p, proc[p].at)
    /\ UNCHANGED <<known, injury, card, resolved, lineup, fetches, runs, kills, crossed, news>>

-----------------------------------------------------------------------------
(* refresh_cards_one                                                         *)

FetchCards(p) ==
    /\ proc[p].pc = "fetch" /\ proc[p].cmd = "cards"
    /\ \E answer \in CardAnswers :
         proc' = [proc EXCEPT ![p].pc = "reconcile", ![p].rows = answer]
    /\ UNCHANGED <<tables, fetches, runs, kills, crossed, news>>

\* The suspensions are read once the answer is in.
Reconcile(p) ==
    /\ proc[p].pc = "reconcile"
    /\ proc' = [proc EXCEPT ![p].pc = "delete", ![p].rows = Reconciled(@, proc[p].at)]
    /\ UNCHANGED <<tables, fetches, runs, kills, crossed, news>>

\* replace_cards_for_team
DeleteCards(p) ==
    /\ proc[p].pc = "delete" /\ proc[p].cmd = "cards"
    /\ card' = [card EXCEPT ![proc[p].at] = {}]
    /\ IF proc[p].rows = {} THEN Skip(p, proc[p].at) ELSE proc' = [proc EXCEPT ![p].pc = "insert"]
    /\ UNCHANGED <<known, injury, penalty, resolved, lineup, fetches, runs, kills, crossed, news>>

InsertCard(p) ==
    LET t == proc[p].at IN
    /\ proc[p].pc = "insert" /\ proc[p].cmd = "cards"
    /\ \E r \in proc[p].rows :
         /\ \A row \in card[t] : row.player # r.player
         /\ card' = [card EXCEPT ![t] = @ \cup {r}]
         /\ IF proc[p].rows = {r} THEN Skip(p, t)
            ELSE proc' = [proc EXCEPT ![p].rows = @ \ {r}]
    /\ UNCHANGED <<known, injury, penalty, resolved, lineup, fetches, runs, kills, crossed, news>>

\* A player listed twice, or a row another command has just inserted: the IntegrityError of
\* the primary key is not an APIFootballError and ends the command, not the team.
InsertClashes(p) ==
    LET t == proc[p].at
        table == IF proc[p].cmd = "cards" THEN card[t] ELSE injury[t]
    IN  /\ proc[p].pc = "insert" /\ proc[p].cmd \in {"injuries", "cards"}
        /\ \E r \in proc[p].rows, row \in table : row.player = r.player
        /\ Abort(p)
        /\ crossed' = IF proc[p].cmd = "injuries" THEN crossed \cup {t} ELSE crossed
        /\ UNCHANGED <<tables, fetches, runs, kills, news>>

-----------------------------------------------------------------------------
(* refresh_lineup_for_match                                                  *)

\* Both team ids come from the cache, the fixture from the cache or from /fixtures; else
\* the match is skipped.  Nothing here ends the walk: only the outcome of a missing team
\* carries an error text.
ResolveFixture(p, m) ==
    /\ proc[p].pc = "next" /\ proc[p].cmd = "lineups" /\ m \in proc[p].left
    /\ \/ /\ Sides[m] \subseteq known
          /\ resolved' = resolved \cup {m}
          /\ proc' = [proc EXCEPT ![p].pc = "fetch", ![p].at = m]
       \/ /\ m \notin resolved
          /\ Skip(p, m)
          /\ UNCHANGED resolved
    /\ UNCHANGED <<known, injury, penalty, card, lineup, fetches, runs, kills, crossed, news>>

\* fetch_lineups_for_fixture: one side or both.
FetchLineups(p) ==
    /\ proc[p].pc = "fetch" /\ proc[p].cmd = "lineups"
    /\ \E ts \in SUBSET Sides[proc[p].at] \ {{}} :
         proc' = [proc EXCEPT ![p].pc = "insert", ![p].rows = ts, ![p].number = fetches + 1]
    /\ fetches' = fetches + 1
    /\ UNCHANGED <<tables, runs, kills, crossed, news>>

\* upsert_lineup, one side at a time.
UpsertLineup(p) ==
    LET m == proc[p].at IN
    /\ proc[p].pc = "insert" /\ proc[p].cmd = "lineups"
    /\ \E t \in proc[p].rows :
         /\ lineup' = [lineup EXCEPT ![<<m, t>>] = proc[p].number]
         /\ IF proc[p].rows = {t} THEN Skip(p, m) ELSE proc' = [proc EXCEPT ![p].rows = @ \ {t}]
    /\ UNCHANGED <<known, injury, penalty, card, resolved, fetches, runs, kills, crossed, news>>

-----------------------------------------------------------------------------
(* The run of the desk reads the XI of each side in two statements.          *)

\* fixture_resolution_for
AskFixture(p, x) ==
    /\ proc[p].pc = "next" /\ proc[p].cmd = "run" /\ x \in proc[p].left
    /\ proc' = [proc EXCEPT ![p].pc = "show", ![p].at = x, ![p].rows = Candidates(x)]
    /\ UNCHANGED <<tables, fetches, runs, kills, crossed, news>>

\* lineup_for or lineup_for_team, and what is shown of it.
Show(p) ==
    LET x == proc[p].at IN
    /\ proc[p].pc = "show"
    /\ news' = [news EXCEPT ![x] = [xi |-> XIOf(x[2], proc[p].rows),
                                    own |-> x[1] \in proc[p].found,
                                    landed |-> x \in proc[p].landed]]
    /\ Skip(p, x)
    /\ UNCHANGED <<tables, fetches, runs, kills, crossed>>

-----------------------------------------------------------------------------
\* The timeout of a command, or the end of its process.
Kill(p) ==
    /\ proc[p].pc # "idle" /\ kills < MaxKills
    /\ Abort(p)
    /\ kills' = kills + 1
    /\ crossed' = crossed \cup {t \in Teams : p \in Replacing(t)}
    /\ UNCHANGED <<tables, fetches, runs, news>>

\* Past the bounds nothing happens.
SquadHorizon == runs = MaxRuns /\ (\A p \in Procs : proc[p].pc = "idle") /\ UNCHANGED squadVars

SquadNext ==
    \/ \E p \in Procs :
         \/ \E cmd \in {"injuries", "cards", "lineups", "run"} : Start(p, cmd)
         \/ \E t \in Teams : ResolveTeam(p, t)
         \/ FetchFails(p)
         \/ FetchInjuries(p) \/ DeleteInjuries(p) \/ InsertInjury(p) \/ Score(p)
         \/ FetchCards(p) \/ Reconcile(p) \/ DeleteCards(p) \/ InsertCard(p)
         \/ InsertClashes(p)
         \/ \E m \in Matches : ResolveFixture(p, m)
         \/ FetchLineups(p) \/ UpsertLineup(p)
         \/ \E x \in Slots : AskFixture(p, x)
         \/ Show(p) \/ Kill(p)
    \/ SquadHorizon

SquadSpec == SquadInit /\ [][SquadNext]_squadVars

-----------------------------------------------------------------------------
\* A read between the DELETE and the upsert of the penalty finds the two apart, and so
\* does every read after a replacement that a kill, a player listed twice or another
\* command cut into; the next replacement that nothing crosses puts it right, whatever
\* came before: the penalty that Elo is charged is that of the absences the news names.
PenaltyIsOfTheRows ==
    \A t \in Teams : Replacing(t) = {} /\ t \notin crossed =>
        IF penalty[t] = {} THEN injury[t] = {} ELSE penalty[t] = {Charge(injury[t])}

\* "suspension wins": a player is on record as suspended and one booking from a ban only
\* if the suspension was written after the row of cards was reconciled, whatever commands
\* crossed or died.
SuspensionWins ==
    \A t \in Teams : \A r \in card[t] : r.risk /\ r.sure => r.player \notin Suspended(t)

\* Lineups are never deleted, and lineup_for_team takes the latest of any match.  A run
\* that starts once the match is resolved names no XI of another match, and one that starts
\* once the side's XI has landed names it, whatever was killed between the two.
OwnXI ==
    \A x \in Slots :
        /\ news[x].own => news[x].xi \in {x[1], NoMatch}
        /\ news[x].landed => news[x].xi = x[1]
=============================================================================
