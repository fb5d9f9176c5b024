--------------------------- MODULE OutrightLadder ---------------------------
(* The verdict on the winner of the tournament (desk/outrights: decide.py and *)
(* the ladder of publish.py): of every team a YES and a NO position, each     *)
(* bought at a price of its own; one position becomes the headline, and the   *)
(* ladder says pick or pass of every team.  The two are computed apart.       *)
(* Numbers are on the scale of Verdict.                                       *)
EXTENDS Verdict

CONSTANT Teams   \* the teams that are priced and that the model knows

\* The model's win probability with its bounds, and both prices, per team.
IsOutright(o) ==
    \A t \in Teams :
        /\ {o[t].p, o[t].lower, o[t].upper, o[t].yes, o[t].no} \subseteq 0 .. One
        /\ o[t].lower <= o[t].upper

-----------------------------------------------------------------------------
(* build_positions                                                           *)

Positions == Teams \X {"yes", "no"}

Chance(o, x) == IF x[2] = "yes" THEN o[x[1]].p ELSE One - o[x[1]].p

\* The bounds of NO are those of YES from the other end.
LowerChance(o, x) == IF x[2] = "yes" THEN o[x[1]].lower ELSE One - o[x[1]].upper

Price(o, x) == IF x[2] = "yes" THEN o[x[1]].yes ELSE o[x[1]].no

PointEdge(o, x) == Chance(o, x) - Price(o, x)
LowerEdge(o, x) == LowerChance(o, x) - Price(o, x)

-----------------------------------------------------------------------------
(* decide                                                                    *)

Clears(o, x) == LowerEdge(o, x) >= PickPp
Clearing(o) == {x \in Positions : Clears(o, x)}

Surest(o) == {x \in Clearing(o) : \A y \in Clearing(o) : LowerEdge(o, y) <= LowerEdge(o, x)}

\* The positions are gone through by point edge, and a later one has to be surer.
Candidate(o) == CHOOSE x \in Surest(o) : \A y \in Surest(o) : PointEdge(o, y) <= PointEdge(o, x)

Headline(o) ==
    IF Clearing(o) = {} THEN [state |-> "pass"]
    ELSE [state |-> "pick", team |-> Candidate(o)[1], side |-> Candidate(o)[2]]

-----------------------------------------------------------------------------
(* _ladder_dict                                                              *)

PickedSide(o, t) ==
    LET yes == <<t, "yes">>
        no  == <<t, "no">>
    IN  IF Clears(o, yes) /\ LowerEdge(o, yes) >= LowerEdge(o, no) THEN "yes"
        ELSE IF Clears(o, no) THEN "no"
        ELSE "none"

Row(o, t) ==
    [state |-> IF PickedSide(o, t) = "none" THEN "pass" ELSE "pick", side |-> PickedSide(o, t)]
=============================================================================
