------------------------------ MODULE Verdict ------------------------------
(* The Pick / Pass / Avoid ladder (desk/verdict: decide.py, compare.py,      *)
(* liquidity.py, thresholds.py): a pure function of a fixture's model        *)
(* probabilities and of the venues' quotes. Probabilities, prices, edges and *)
(* thresholds are integers on one scale (hundredths of a percentage point,   *)
(* say); wording, American odds and rounding for print are left out.         *)
EXTENDS Integers

CONSTANTS
    Sides,            \* market outcomes of the sport
    One,              \* probability 1 on the scale
    PickPp, AvoidPp,  \* Thresholds (pass_pp is read by nothing)
    MinP, MaxP        \* LiquidityRules

NoTruePrice == -1

\* VenuePrice; true_price is None on a quote that was not enriched.
IsQuote(q) ==
    q.side \in Sides /\ q.implied \in Nat /\ q.true \in Nat \cup {NoTruePrice}

\* What decide() is given: the point estimate p, the band's lower bound (if banded), the
\* quotes of the snapshot, whether an Elo is the stub's, whether a link to the market is
\* known, and the cross-venue flag.
IsInput(d) ==
    /\ d.p \in [Sides -> 0 .. One] /\ d.lower \in [Sides -> 0 .. One]
    /\ \A q \in d.quotes : IsQuote(q)
    /\ {d.banded, d.stub, d.linked, d.cross} \subseteq BOOLEAN

-----------------------------------------------------------------------------
(* MarketSnapshot                                                            *)

Of(quotes, s) == {q \in quotes : q.side = s}

BestFor(quotes, s) ==
    CHOOSE q \in Of(quotes, s) : \A r \in Of(quotes, s) : q.implied <= r.implied

\* By true price, or as before when some quote has none.
BestForTruePrice(quotes, s) ==
    IF \E q \in Of(quotes, s) : q.true = NoTruePrice THEN BestFor(quotes, s)
    ELSE CHOOSE q \in Of(quotes, s) : \A r \in Of(quotes, s) : q.true <= r.true

Best(d, s) == IF d.cross THEN BestForTruePrice(d.quotes, s) ELSE BestFor(d.quotes, s)

\* What acting on the best quote costs.
Cost(d, s) ==
    IF d.cross /\ Best(d, s).true # NoTruePrice THEN Best(d, s).true ELSE Best(d, s).implied

\* is_liquid: every side is quoted, and none at an extreme.
IsLiquid(quotes) ==
    \A s \in Sides :
        /\ Of(quotes, s) # {}
        /\ MinP < BestFor(quotes, s).implied /\ BestFor(quotes, s).implied < MaxP

-----------------------------------------------------------------------------
(* decide                                                                    *)

Edge(d, s) == d.p[s] - Cost(d, s)

\* pick_candidates: with a band, its lower bound has to clear the threshold.
Candidates(d) ==
    {s \in Sides : (IF d.banded THEN d.lower[s] ELSE d.p[s]) - Cost(d, s) >= PickPp}

PickSide(d) == CHOOSE s \in Candidates(d) : \A r \in Candidates(d) : Edge(d, r) <= Edge(d, s)

\* Every edge at or below avoid_pp.
Overpriced(d) == \A s \in Sides : Edge(d, s) <= AvoidPp

Pass(why) == [state |-> "pass", forced |-> why]
Pick(d) == [state |-> "pick", forced |-> "no", side |-> PickSide(d), quote |-> Best(d, PickSide(d)),
            edge |-> Edge(d, PickSide(d))]

Decide(d) ==
    IF d.stub THEN Pass("stub_elo")
    ELSE IF ~IsLiquid(d.quotes) THEN Pass("illiquid")
    ELSE IF Candidates(d) # {} THEN IF d.linked THEN Pick(d) ELSE Pass("no")
    ELSE IF Overpriced(d) THEN [state |-> "avoid", forced |-> "no"]
    ELSE Pass("no")
=============================================================================
