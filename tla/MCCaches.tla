------------------------------ MODULE MCCaches -------------------------------
(* The data caches of the desk, SquadData, OddsData and EloData, on small     *)
(* instances.  They are three files that share no table, and a command opens  *)
(* one of them: an execution moves one, from the start of the others.         *)
EXTENDS SquadData, Sequences, TLC

CONSTANTS
    p1, p2, ta, tb,     \* two of the players, and two of the teams that are rated
    \* Of OddsData; its sides are the outcomes here.
    Events, Venues, Outcomes, Listings, MaxAnswers, MaxMerges, MaxFaults,
    \* Of EloData; its teams are the rated ones here.
    Rated, Seeded, Fixture, Field, Feeds, MinRows, MaxFeeds, MaxReads

TwoLegs == [m \in Matches |-> Teams]
Weights == (p1 :> 45) @@ (p2 :> 30)

\* Nobody; one suspended and one doubtful; both out, beyond the cap; one listed for two
\* fixtures.
Injuries ==
    {{},
     {[player |-> p2, type |-> "Suspended"], [player |-> p1, type |-> "Questionable"]},
     {[player |-> p2, type |-> "Missing Fixture"], [player |-> p1, type |-> "Missing Fixture"]},
     {[player |-> p2, type |-> "Missing Fixture"], [player |-> p2, type |-> "Suspended"]}}

\* No cards; both listed, one of them booked.
Cards ==
    {{},
     {[player |-> p1, yellows |-> 0], [player |-> p2, yellows |-> 1]}}

-----------------------------------------------------------------------------
(* Odds                                                                      *)

VARIABLES stored, listed, prices, oddsMark, oddsProc, answers, merges, faults,
          torn, lost

oddsVars == <<stored, listed, prices, oddsMark, oddsProc, answers, merges, faults,
              torn, lost>>

\* Not quoted; both sides; one of them, twice.
Quoted == {<<>>, <<"a", "b">>, <<"b", "b">>}

Odds == INSTANCE OddsData WITH
    Sides <- Outcomes, MaxRuns <- MaxMerges, resolved <- listed, mark <- oddsMark,
    proc <- oddsProc, runs <- merges

-----------------------------------------------------------------------------
(* Elo                                                                       *)

VARIABLES rating, eloMark, eloProc, feeds, reads, eloKills, newest, floor, half, doubt

eloVars == <<rating, eloMark, eloProc, feeds, reads, eloKills, newest, floor, half, doubt>>

TwoTeams == <<ta, tb>>

Row(t, sane) == [team |-> t, sane |-> sane]

\* Both; one of the teams gone; the other one first; columns shifted; a few lines; nothing
\* that parses.
Tables ==
    {[lines |-> 2, rows |-> <<Row(ta, TRUE), Row(tb, TRUE)>>],
     [lines |-> 2, rows |-> <<Row(ta, TRUE)>>],
     [lines |-> 2, rows |-> <<Row(tb, TRUE), Row(ta, TRUE)>>],
     [lines |-> 2, rows |-> <<Row(ta, FALSE), Row(tb, FALSE)>>],
     [lines |-> 1, rows |-> <<Row(tb, TRUE)>>],
     [lines |-> 2, rows |-> <<>>]}

Elo == INSTANCE EloData WITH
    Teams <- Rated, mark <- eloMark, proc <- eloProc, kills <- eloKills

-----------------------------------------------------------------------------
ASSUME CachesAssumption == Odds!OddsAssumption /\ Elo!EloAssumption

CachesInit == SquadInit /\ Odds!Init /\ Elo!Init

CachesNext ==
    \/ Odds!Init /\ Elo!Init /\ SquadNext /\ UNCHANGED <<oddsVars, eloVars>>
    \/ SquadInit /\ Elo!Init /\ Odds!Next /\ UNCHANGED <<squadVars, eloVars>>
    \/ SquadInit /\ Odds!Init /\ Elo!Next /\ UNCHANGED <<squadVars, oddsVars>>

CachesSpec == CachesInit /\ [][CachesNext]_<<squadVars, oddsVars, eloVars>>

\* Of OddsData and EloData, where they are stated.
UnresolvedIsOwed == Odds!UnresolvedIsOwed
FairBookIsOneAnswer == Odds!FairBookIsOneAnswer
RatedByTheNewest == Elo!RatedByTheNewest
LabelledAsRated == Elo!LabelledAsRated
HalfParsedIsRefused == Elo!HalfParsedIsRefused

\* Neither the matches of the squad nor the ids of the odds are told apart: the latest row
\* of several is one, since no two fetches bear the same number.
Symmetry == Permutations(Procs) \cup Permutations(Matches) \cup Permutations(Events)
=============================================================================
