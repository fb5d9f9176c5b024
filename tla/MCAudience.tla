----------------------------- MODULE MCAudience ------------------------------
(* What people do with the picks, on small instances: the operator's drafts    *)
(* (SocialDraft), the weekly roundup (Roundup), readers' votes and views       *)
(* (Activity).  They share no table: an execution is of one of them.           *)
EXTENDS SocialDraft, Week, TLC

CONSTANTS
    Fixtures,       \* the matches readers vote on
    Seeded,         \* the one that is seeded
    Voters,         \* the requests of a visitor
    ViewTargets, VoteTargets, ViewCap, VoteCap, DecayViews, DecayVotes,
    DailyMax, MaxReaders, MaxVotes, MaxSeeds, MaxOutages,
    x, y,           \* two matches
    Games, KickoffOf, MaxTime,
    Parts           \* of "drafts", "roundup" and "activity", those that are run

VARIABLES part,
    row, request, votes, views, seeded, aggregate, seeder, seeds, readers, down, outages,
    now, venue, file, index, weekly, wake, called, fired

activityVars == <<row, request, votes, views, seeded, aggregate, seeder, seeds, readers,
                  down, outages>>
roundupVars == <<now, venue, file, index, weekly, wake, called, fired>>

Act == INSTANCE Activity WITH
    Matches <- Fixtures, Match <- Seeded, Requests <- Voters

Sunday == INSTANCE Roundup WITH
    Matches <- Games, Kickoff <- KickoffOf, drafts <- weekly

\* Days of two units; a match on the first Saturday and one on the Sunday after the next.
MCGames == {x, y}
MCKickoff == x :> 11 @@ y :> 26

ASSUME AudienceAssumption == Act!ActivityAssumption /\ Sunday!RoundupAssumption

AudienceInit ==
    /\ Init /\ Act!Init /\ Sunday!Init
    /\ part \in Parts

AudienceNext ==
    /\ \/ part = "drafts" /\ Next /\ UNCHANGED <<activityVars, roundupVars>>
       \/ part = "roundup" /\ Sunday!Next /\ UNCHANGED <<vars, activityVars>>
       \/ part = "activity" /\ Act!Next /\ UNCHANGED <<vars, roundupVars>>
    /\ UNCHANGED part

AudienceSpec == AudienceInit /\ [][AudienceNext]_<<vars, activityVars, roundupVars, part>>

\* Of Activity and Roundup, where they are stated.
DailyCeiling == part = "activity" => Act!DailyCeiling
NoGhostReaders == part = "activity" => Act!NoGhostReaders
FrozenVoteStays == Act!FrozenVoteStays
RoundupHasThePicks == Sunday!RoundupHasThePicks

\* Nothing tells a visitor's requests apart, nor the matches but the one seeded.
Symmetry == Permutations(Voters) \cup Permutations(Fixtures \ {Seeded})
=============================================================================
