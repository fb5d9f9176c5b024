------------------------------ MODULE OddsData -------------------------------
(* The bookmakers' quotes of one match (desk/data/oddsapi): `desk fetch-odds` *)
(* asks The Odds API for every event of a league and stores events and        *)
(* prices; a run of the desk looks up the events of its match and merges      *)
(* their prices into its snapshot (sports/football/oddsapi_prices.py).  The   *)
(* refresh tick and a manual tick start these commands, which share an SQLite *)
(* file in autocommit mode: each statement is a step of its own.              *)
(*                                                                            *)
(* The vendor may list the match under several ids.  A quote is the number of *)
(* the answer that carried it.                                                *)
EXTENDS Integers, Sequences, SequencesExt, FiniteSets

CONSTANTS
    Events,     \* the vendor's ids of the match
    Venues,     \* LAUNCH_VENUE_IDS
    Sides,      \* the outcomes of the market
    Listings,   \* the quotes a venue may come with: sequences of sides
    Procs,      \* operating-system processes
    MaxAnswers, MaxRuns, MaxFaults   \* bounds

OddsAssumption ==
    /\ Listings \subseteq Seq(Sides) /\ <<>> \in Listings
    /\ IsFiniteSet(Sides) /\ Sides # {}
    /\ {MaxAnswers, MaxRuns, MaxFaults} \subseteq Nat

VARIABLES
    stored,     \* oddsapi_events, in the order of the rows
    resolved,   \* those whose resolved_match_id is the match
    prices,     \* oddsapi_prices
    mark,       \* oddsapi_fetches: the last status
    proc,       \* the commands under way
    answers, runs, faults,
    \* Observed, for the properties only:
    torn,       \* the events and venues whose last replacement was crossed by another
    lost        \* events whose refresh ended before it resolved them again

tables == <<stored, resolved, prices, mark>>
vars == <<tables, proc, answers, runs, faults, torn, lost>>

-----------------------------------------------------------------------------
None == 0
Book == [Sides -> 0 .. MaxAnswers]
Blank == [s \in Sides |-> None]
Slots == Events \X Venues
Answers == UNION {[es -> [Venues -> Listings]] : es \in SUBSET Events}

Idle == [cmd |-> "none", pc |-> "idle"]

\* A refresh with its answer: the events it has not stored yet, the one it is at, the
\* venues and quotes left of it, the events it has not resolved yet.
Refresh(n, answer) ==
    [cmd |-> "fetch", pc |-> "event", n |-> n, answer |-> answer, left |-> DOMAIN answer,
     at |-> <<>>, venues |-> {}, rows |-> <<>>, todo |-> DOMAIN answer]

\* A run: the events it has found and not read yet, and what it read of the others.
Reading(events) ==
    [cmd |-> "run", pc |-> "prices", left |-> events, read |-> <<>>, doubt |-> {}]

Refreshing(p) == proc[p].cmd = "fetch" /\ proc[p].pc # "ask"

\* The replacements of one event and venue under way.
Replacing(x) == {p \in Procs : Refreshing(p) /\ proc[p].pc = "insert" /\ proc[p].at = x}

\* Reset by p, and not resolved again yet.
Owed(p) == IF Refreshing(p) THEN proc[p].todo \ proc[p].left ELSE {}

Quotes(book) == {book[s] : s \in Sides}

\* venue_prices_from_oddsapi: a venue is de-vigged if it priced every side.
Devigged(book) == None \notin Quotes(book)

\* merge_oddsapi_into_snapshot: by venue and side, the row that is read last.
Merged(p, v) ==
    [s \in Sides |->
       LET with == {i \in DOMAIN proc[p].read : proc[p].read[i][v][s] # None}
       IN  IF with = {} THEN None ELSE proc[p].read[Max(with)][v][s]]

-----------------------------------------------------------------------------
TypeOK ==
    /\ ToSet(stored) \subseteq Events /\ IsInjective(stored)
    /\ resolved \subseteq ToSet(stored)
    /\ prices \in [Events -> [Venues -> Book]]
    /\ mark \in {"none", "ok", "error"}
    /\ \A p \in Procs : proc[p].cmd \in {"none", "fetch", "run"}
    /\ torn \subseteq Slots /\ lost \subseteq Events

Init ==
    /\ stored = <<>> /\ resolved = {} /\ mark = "none"
    /\ prices = [e \in Events |-> [v \in Venues |-> Blank]]
    /\ proc = [p \in Procs |-> Idle]
    /\ answers = 0 /\ runs = 0 /\ faults = 0
    /\ torn = {} /\ lost = {}

-----------------------------------------------------------------------------
(* Faulty variants, one plausible slip each, that no action uses.            *)

\* One event per match, as fixtures_from_oddsapi_payload would have it.
ToResolve_FirstOnly(answer) ==
    IF answer = <<>> THEN {} ELSE {CHOOSE e \in DOMAIN answer : TRUE}

\* Only the sides about to be inserted are deleted.
Wiped_ListedOnly(book, listing) ==
    [s \in Sides |-> IF s \in ToSet(listing) THEN None ELSE book[s]]

-----------------------------------------------------------------------------
(* refresh_all                                                               *)

\* _resolve_event_match_ids is asked about every event of the answer.
ToResolve(answer) == DOMAIN answer

\* DELETE ... WHERE event_id = ? AND venue_id = ?
Wiped(book, listing) == Blank

\* Where a refresh goes from an event of which these venues are left.
Onward(r, venues, left) ==
    IF venues # {} THEN [r EXCEPT !.pc = "delete", !.venues = venues, !.left = left]
    ELSE IF left # {} THEN [r EXCEPT !.pc = "event", !.venues = {}, !.left = left]
    ELSE [r EXCEPT !.pc = "resolve", !.venues = {}, !.left = {}, !.todo = ToResolve(r.answer)]

Start(p) ==
    /\ proc[p] = Idle /\ answers < MaxAnswers
    /\ proc' = [proc EXCEPT ![p] = [cmd |-> "fetch", pc |-> "ask"]]
    /\ UNCHANGED <<tables, answers, runs, faults, torn, lost>>

\* fetch_events_h2h: any event may have gone or come, any venue quote any sides.
Answered(p) ==
    /\ proc[p].pc = "ask" /\ answers < MaxAnswers
    /\ answers' = answers + 1
    /\ \E answer \in Answers :
         proc' = [proc EXCEPT ![p] = Onward(Refresh(answers + 1, answer), {}, DOMAIN answer)]
    /\ UNCHANGED <<tables, runs, faults, torn, lost>>

\* OddsAPIError: nothing but the mark is written.
Fails(p) ==
    /\ proc[p].pc = "ask"
    /\ mark' = "error"
    /\ proc' = [proc EXCEPT ![p] = Idle]
    /\ UNCHANGED <<stored, resolved, prices, answers, runs, faults, torn, lost>>

\* upsert_event: on a conflict the resolution is overwritten with ''.
UpsertEvent(p) ==
    /\ proc[p].pc = "event"
    /\ \E e \in proc[p].left :
         /\ stored' = IF e \in ToSet(stored) THEN stored ELSE Append(stored, e)
         /\ resolved' = resolved \ {e}
         /\ lost' = lost \ {e}
         /\ proc' = [proc EXCEPT ![p] =
              Onward([@ EXCEPT !.at = <<e>>],
                     {v \in Venues : @.answer[e][v] # <<>>}, @.left \ {e})]
    /\ UNCHANGED <<prices, mark, answers, runs, faults, torn>>

\* replace_prices_for_event_venue: the DELETE commits by itself.
DeletePrices(p) ==
    /\ proc[p].pc = "delete"
    /\ \E v \in proc[p].venues :
         LET e == proc[p].at[1]
             listing == proc[p].answer[e][v]
         IN  /\ prices' = [prices EXCEPT ![e][v] = Wiped(@, listing)]
             /\ proc' = [proc EXCEPT ![p].pc = "insert", ![p].rows = listing,
                                     ![p].at = <<e, v>>]
             /\ torn' = IF Replacing(<<e, v>>) = {} THEN torn \ {<<e, v>>}
                        ELSE torn \cup {<<e, v>>}
    /\ UNCHANGED <<stored, resolved, mark, answers, runs, faults, lost>>

\* One INSERT.
InsertPrice(p) ==
    /\ proc[p].pc = "insert"
    /\ LET e == proc[p].at[1]
           v == proc[p].at[2]
           s == Head(proc[p].rows)
       IN  /\ prices[e][v][s] = None
           /\ prices' = [prices EXCEPT ![e][v][s] = proc[p].n]
           /\ proc' = [proc EXCEPT ![p] =
                IF Len(@.rows) > 1 THEN [@ EXCEPT !.rows = Tail(proc[p].rows)]
                ELSE Onward([@ EXCEPT !.rows = <<>>, !.at = <<e>>], @.venues \ {v}, @.left)]
    /\ UNCHANGED <<stored, resolved, mark, answers, runs, faults, torn, lost>>

\* The command is gone, and with it what it owed; the rows it was replacing stay as they are.
Cut(p) ==
    /\ proc' = [proc EXCEPT ![p] = Idle]
    /\ lost' = lost \cup Owed(p)

\* An outcome listed twice ("Draw" and "Tie"), or a row another refresh has just inserted:
\* the IntegrityError is no OddsAPIError.
InsertClashes(p) ==
    /\ proc[p].pc = "insert"
    /\ prices[proc[p].at[1]][proc[p].at[2]][Head(proc[p].rows)] # None
    /\ Cut(p)
    /\ UNCHANGED <<tables, answers, runs, faults, torn>>

\* set_event_resolution, event by event; one that fails is logged and passed over.
ResolveEvent(p) ==
    /\ proc[p].pc = "resolve"
    /\ \E e \in proc[p].todo :
         /\ \/ /\ resolved' = resolved \cup {e}
               /\ lost' = lost \ {e}
               /\ UNCHANGED faults
            \/ /\ faults < MaxFaults
               /\ faults' = faults + 1
               /\ lost' = lost \cup {e}
               /\ UNCHANGED resolved
         /\ proc' = [proc EXCEPT ![p].todo = @ \ {e}]
    /\ UNCHANGED <<stored, prices, mark, answers, runs, torn>>

\* mark_fetch
MarkOk(p) ==
    /\ proc[p].pc = "resolve" /\ proc[p].todo = {}
    /\ mark' = "ok"
    /\ proc' = [proc EXCEPT ![p] = Idle]
    /\ UNCHANGED <<stored, resolved, prices, answers, runs, faults, torn, lost>>

-----------------------------------------------------------------------------
(* merge_oddsapi_into_snapshot                                               *)

\* events_for_match_id; a run that finds none leaves its snapshot as it is.
FindEvents(p) ==
    /\ proc[p] = Idle /\ runs < MaxRuns /\ resolved # {}
    /\ runs' = runs + 1
    /\ proc' = [proc EXCEPT ![p] = Reading(resolved)]
    /\ UNCHANGED <<tables, answers, faults, torn, lost>>

\* prices_for_event, in the order of the rows.
ReadPrices(p) ==
    /\ proc[p].pc = "prices"
    /\ \E i \in DOMAIN stored :
         LET e == stored[i] IN
         /\ e \in proc[p].left /\ \A j \in 1 .. i - 1 : stored[j] \notin proc[p].left
         /\ proc' = [proc EXCEPT
              ![p].left = @ \ {e},
              ![p].read = Append(@, prices[e]),
              ![p].doubt = @ \cup {v \in Venues : <<e, v>> \in torn},
              ![p].pc = IF proc[p].left = {e} THEN "merged" ELSE "prices"]
    /\ UNCHANGED <<tables, answers, runs, faults, torn, lost>>

\* The verdict is made of it.
Done(p) ==
    /\ proc[p].pc = "merged"
    /\ proc' = [proc EXCEPT ![p] = Idle]
    /\ UNCHANGED <<tables, answers, runs, faults, torn, lost>>

-----------------------------------------------------------------------------
\* The timeout of 120 s, or the end of the process.
Kill(p) ==
    /\ proc[p].cmd = "fetch" /\ faults < MaxFaults
    /\ Cut(p)
    /\ faults' = faults + 1
    /\ UNCHANGED <<tables, answers, runs, torn>>

\* Past the bounds nothing happens.
Horizon ==
    /\ answers = MaxAnswers /\ (runs = MaxRuns \/ resolved = {})
    /\ \A p \in Procs : proc[p] = Idle
    /\ UNCHANGED vars

Next ==
    \/ \E p \in Procs :
         \/ Start(p) \/ Answered(p) \/ Fails(p) \/ UpsertEvent(p) \/ DeletePrices(p)
         \/ InsertPrice(p) \/ InsertClashes(p) \/ ResolveEvent(p) \/ MarkOk(p)
         \/ FindEvents(p) \/ ReadPrices(p) \/ Done(p) \/ Kill(p)
    \/ Horizon

Spec == Init /\ [][Next]_vars

-----------------------------------------------------------------------------
\* upsert_event takes the resolution of every event away, and it comes back at the end of
\* the refresh only.  An event that no run can find is owed by a refresh under way, or the
\* last one that took it away ended before it had resolved it.
UnresolvedIsOwed ==
    \A e \in ToSet(stored) \ resolved : e \in lost \/ \E p \in Procs : e \in Owed(p)

\* The fair price of a venue that a run works with, in the middle of a refresh or after a
\* refresh that was killed or gave up there, is de-vigged from quotes of one answer, unless
\* two refreshes crossed in its rows or two events of the match quote the venue.
FairBookIsOneAnswer ==
    \A p \in Procs : proc[p].cmd = "run" /\ proc[p].pc = "merged" =>
        \A v \in Venues :
            LET sources == {i \in DOMAIN proc[p].read : proc[p].read[i][v] # Blank} IN
            Devigged(Merged(p, v)) /\ v \notin proc[p].doubt /\ Cardinality(sources) < 2
                => Cardinality(Quotes(Merged(p, v))) = 1
=============================================================================
