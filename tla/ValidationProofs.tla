-------------------------- MODULE ValidationProofs --------------------------
(* What the verdict ladder promises, for every set of sides, thresholds,     *)
(* model output and snapshot; of the prices it is reached from, for any odds *)
(* and fees; of the tournament's ladder, for every set of teams; and what    *)
(* resolving the predictions promises, for any matches, ingests, buffer,     *)
(* timeout and bounds.                                                       *)
EXTENDS Validation, OutrightLadder, Pricing, WellFoundedInduction, TLAPS

LessThan == {ss \in Nat \X Nat : ss[1] < ss[2]}

LEMMA LessThanIsWellFounded == IsWellFoundedOn(LessThan, Nat)
  BY NatLessThanWellFounded DEF OpToRel, LessThan

\* Any set of naturals has a least member.
LEMMA LeastExists ==
    ASSUME NEW S, S \subseteq Nat, S # {}
    PROVE  \E x \in S : \A y \in S : x <= y
  <1>1. PICK x \in S : \A y \in S : ~(<<y, x>> \in LessThan)
    BY LessThanIsWellFounded, WFMin, Zenon
  <1>2. \A y \in S : ~(y < x)
    BY <1>1 DEF LessThan
  <1> QED
    BY <1>2

\* best_for returns a quote of the side at the least implied probability.
LEMMA BestForIsLeast ==
    ASSUME NEW quotes, \A q \in quotes : IsQuote(q), NEW s \in Sides, Of(quotes, s) # {}
    PROVE  /\ BestFor(quotes, s) \in Of(quotes, s)
           /\ \A r \in Of(quotes, s) : BestFor(quotes, s).implied <= r.implied
  <1> DEFINE S == {q.implied : q \in Of(quotes, s)}
  <1>1. S \subseteq Nat /\ S # {}
    BY DEF Of, IsQuote
  <1>2. PICK x \in S : \A y \in S : x <= y
    BY <1>1, LeastExists
  <1>3. PICK q \in Of(quotes, s) : q.implied = x
    BY <1>2
  <1>4. \A r \in Of(quotes, s) : q.implied <= r.implied
    BY <1>2, <1>3
  <1> QED
    BY <1>4 DEF BestFor

\* best_for_true_price returns a quote of the side, the least by true price when all the
\* quotes have one.
LEMMA BestForTruePriceIsLeast ==
    ASSUME NEW quotes, \A q \in quotes : IsQuote(q), NEW s \in Sides, Of(quotes, s) # {},
           \A q \in Of(quotes, s) : q.true # NoTruePrice
    PROVE  /\ BestForTruePrice(quotes, s) \in Of(quotes, s)
           /\ \A r \in Of(quotes, s) : BestForTruePrice(quotes, s).true <= r.true
  <1> DEFINE S == {q.true : q \in Of(quotes, s)}
  <1>1. S \subseteq Nat /\ S # {}
    BY DEF Of, IsQuote
  <1>2. PICK x \in S : \A y \in S : x <= y
    BY <1>1, LeastExists
  <1>3. PICK q \in Of(quotes, s) : q.true = x
    BY <1>2
  <1>4. \A r \in Of(quotes, s) : q.true <= r.true
    BY <1>2, <1>3
  <1> QED
    BY <1>4 DEF BestForTruePrice

\* The best quote is one of the side's, and acting on it costs a natural number.
LEMMA CostIsOfAQuote ==
    ASSUME NEW d, IsInput(d), NEW s \in Sides, Of(d.quotes, s) # {}
    PROVE  /\ Best(d, s) \in Of(d.quotes, s)
           /\ Cost(d, s) \in Nat
           /\ Cost(d, s) \in {Best(d, s).implied, Best(d, s).true}
  <1>1. \A q \in d.quotes : IsQuote(q)
    BY DEF IsInput
  <1>2. BestFor(d.quotes, s) \in Of(d.quotes, s)
    BY <1>1, BestForIsLeast
  <1>3. BestForTruePrice(d.quotes, s) \in Of(d.quotes, s)
    <2>1. CASE \E q \in Of(d.quotes, s) : q.true = NoTruePrice
      BY <1>2, <2>1 DEF BestForTruePrice
    <2>2. CASE \A q \in Of(d.quotes, s) : q.true # NoTruePrice
      BY <1>1, <2>2, BestForTruePriceIsLeast
    <2> QED
      BY <2>1, <2>2
  <1>4. Best(d, s) \in Of(d.quotes, s)
    BY <1>2, <1>3 DEF Best
  <1>5. IsQuote(Best(d, s))
    BY <1>1, <1>4 DEF Of
  <1> QED
    BY <1>4, <1>5 DEF Cost, IsQuote, NoTruePrice

-----------------------------------------------------------------------------
\* What each verdict says of the input it was reached from.
LEMMA VerdictOf ==
    ASSUME NEW d
    PROVE  /\ Decide(d).state = "pick" <=>
                 ~d.stub /\ IsLiquid(d.quotes) /\ Candidates(d) # {} /\ d.linked
           /\ Decide(d).state = "pick" => Decide(d) = Pick(d)
           /\ Decide(d).state = "avoid" =>
                 ~d.stub /\ IsLiquid(d.quotes) /\ Candidates(d) = {} /\ Overpriced(d)
  BY DEF Decide, Pass, Pick

\* PickSide is a candidate, and none has a larger edge.
LEMMA PickSideIsBest ==
    ASSUME NEW d, IsInput(d), One \in Nat, IsLiquid(d.quotes), Candidates(d) # {}
    PROVE  /\ PickSide(d) \in Candidates(d)
           /\ \A r \in Candidates(d) : Edge(d, r) <= Edge(d, PickSide(d))
  <1> DEFINE S == {One - Edge(d, s) : s \in Candidates(d)}
  <1>1. \A s \in Candidates(d) : s \in Sides /\ Cost(d, s) \in Nat
    BY CostIsOfAQuote DEF IsLiquid, Candidates
  <1>2. \A s \in Candidates(d) : Edge(d, s) \in Int /\ One - Edge(d, s) \in Nat
    BY <1>1 DEF IsInput, Edge
  <1>3. S \subseteq Nat /\ S # {}
    BY <1>2
  <1>4. PICK x \in S : \A y \in S : x <= y
    BY <1>3, LeastExists
  <1>5. PICK s \in Candidates(d) : One - Edge(d, s) = x
    BY <1>4
  <1>6. \A r \in Candidates(d) : Edge(d, r) <= Edge(d, s)
    <2> SUFFICES ASSUME NEW r \in Candidates(d) PROVE Edge(d, r) <= Edge(d, s)
      OBVIOUS
    <2>1. One - Edge(d, s) <= One - Edge(d, r)
      BY <1>4, <1>5
    <2> QED
      BY <2>1, <1>2
  <1> QED
    BY <1>6 DEF PickSide

\* "a Pick fires only when the lower bound of the model's probability clears the threshold"
\* and "we take it whenever it's available": a Pick names a side whose bound clears pick_pp
\* against what acting on its best quote costs, no side that clears it has a larger edge, and
\* the cheapest quote of every side lies inside the tails.
THEOREM PickIsJustified ==
    ASSUME NEW d, IsInput(d), One \in Nat, Decide(d).state = "pick"
    PROVE  LET v == Decide(d) IN
           /\ ~d.stub /\ d.linked
           /\ v.side \in Sides /\ v.quote \in Of(d.quotes, v.side)
           /\ (IF d.banded THEN d.lower[v.side] ELSE d.p[v.side]) - Cost(d, v.side) >= PickPp
           /\ \A r \in Candidates(d) : Edge(d, r) <= v.edge
           /\ \A s \in Sides : \E q \in Of(d.quotes, s) :
                 /\ MinP < q.implied /\ q.implied < MaxP
                 /\ \A r \in Of(d.quotes, s) : q.implied <= r.implied
  <1>1. ~d.stub /\ IsLiquid(d.quotes) /\ Candidates(d) # {} /\ d.linked /\ Decide(d) = Pick(d)
    BY VerdictOf
  <1>2. PickSide(d) \in Candidates(d) /\ \A r \in Candidates(d) : Edge(d, r) <= Edge(d, PickSide(d))
    BY <1>1, PickSideIsBest
  <1>3. PickSide(d) \in Sides
    BY <1>2 DEF Candidates
  <1>4. Best(d, PickSide(d)) \in Of(d.quotes, PickSide(d))
    BY <1>1, <1>3, CostIsOfAQuote DEF IsLiquid
  <1>5. ASSUME NEW s \in Sides
        PROVE  \E q \in Of(d.quotes, s) :
                  /\ MinP < q.implied /\ q.implied < MaxP
                  /\ \A r \in Of(d.quotes, s) : q.implied <= r.implied
    <2>1. Of(d.quotes, s) # {} /\ MinP < BestFor(d.quotes, s).implied
                               /\ BestFor(d.quotes, s).implied < MaxP
      BY <1>1 DEF IsLiquid
    <2>2. /\ BestFor(d.quotes, s) \in Of(d.quotes, s)
          /\ \A r \in Of(d.quotes, s) : BestFor(d.quotes, s).implied <= r.implied
      BY <2>1, BestForIsLeast DEF IsInput
    <2> QED
      BY <2>1, <2>2
  <1>6. (IF d.banded THEN d.lower[PickSide(d)] ELSE d.p[PickSide(d)]) - Cost(d, PickSide(d)) >= PickPp
    BY <1>2 DEF Candidates
  <1>7. /\ Decide(d).side = PickSide(d)
        /\ Decide(d).quote = Best(d, PickSide(d))
        /\ Decide(d).edge = Edge(d, PickSide(d))
    BY <1>1 DEF Pick
  <1> QED
    BY <1>1, <1>2, <1>3, <1>4, <1>5, <1>6, <1>7

\* "Pick wins ties when more than one branch could fire": with the band below the point
\* estimate and avoid_pp below pick_pp no two ever can, so the order of the branches in
\* decide() changes no verdict.
THEOREM PickOrAvoid ==
    ASSUME NEW d, IsInput(d), One \in Nat, IsLiquid(d.quotes),
           AvoidPp \in Int, PickPp \in Int, AvoidPp < PickPp,
           \A s \in Sides : d.lower[s] <= d.p[s]
    PROVE  ~(Candidates(d) # {} /\ Overpriced(d))
  <1> SUFFICES ASSUME NEW s \in Candidates(d), Overpriced(d) PROVE FALSE
    OBVIOUS
  <1>1. s \in Sides /\ Cost(d, s) \in Nat
    BY CostIsOfAQuote DEF IsLiquid, Candidates
  <1>2. d.p[s] \in Int /\ d.lower[s] \in Int /\ d.lower[s] <= d.p[s]
    BY <1>1 DEF IsInput
  <1>3. d.p[s] - Cost(d, s) >= PickPp
    BY <1>1, <1>2 DEF Candidates
  <1>4. d.p[s] - Cost(d, s) <= AvoidPp
    BY <1>1 DEF Overpriced, Edge
  <1> QED
    BY <1>1, <1>2, <1>3, <1>4

\* The confidence band "forces the engine to be conservative": supplying one removes Picks
\* and adds none.
THEOREM BandOnlyRemoves ==
    ASSUME NEW d, IsInput(d), One \in Nat, PickPp \in Int, NEW e, IsInput(e),
           d.banded, ~e.banded, e.p = d.p, e.quotes = d.quotes, e.cross = d.cross,
           e.stub = d.stub, e.linked = d.linked,
           \A s \in Sides : d.lower[s] <= d.p[s],
           Decide(d).state = "pick"
    PROVE  Decide(e).state = "pick"
  <1>1. ~d.stub /\ IsLiquid(d.quotes) /\ Candidates(d) # {} /\ d.linked
    BY VerdictOf
  <1>2. PICK s \in Candidates(d) : TRUE
    BY <1>1
  <1>3. s \in Sides /\ Cost(d, s) \in Nat /\ Cost(e, s) = Cost(d, s)
    BY <1>1, <1>2, CostIsOfAQuote DEF IsLiquid, Candidates, Cost, Best
  <1>4. d.p[s] \in Int /\ d.lower[s] \in Int /\ d.lower[s] <= d.p[s]
    BY <1>3 DEF IsInput
  <1>5. d.lower[s] - Cost(d, s) >= PickPp
    BY <1>2 DEF Candidates
  <1>6. s \in Candidates(e)
    BY <1>3, <1>4, <1>5 DEF Candidates
  <1> QED
    BY <1>1, <1>6, VerdictOf

\* "the rule is structurally impossible: both probability triplets sum to 1": on one venue
\* whose prices sum to what the model's probabilities sum to, there is no Avoid
\* (thresholds.py), whatever negative avoid_pp is set.
THEOREM NoAvoidOnOneVenue ==
    ASSUME NEW d, IsInput(d), One \in Nat, Sides = {"a", "draw", "b"}, AvoidPp \in Int, AvoidPp < 0,
           IsLiquid(d.quotes),
           Cost(d, "a") + Cost(d, "draw") + Cost(d, "b") = d.p["a"] + d.p["draw"] + d.p["b"]
    PROVE  Decide(d).state # "avoid"
  <1> SUFFICES ASSUME Overpriced(d) PROVE FALSE
    BY VerdictOf
  <1>1. \A s \in Sides : Cost(d, s) \in Nat /\ d.p[s] \in Int
    BY CostIsOfAQuote DEF IsLiquid, IsInput
  <1>2. \A s \in Sides : d.p[s] - Cost(d, s) <= AvoidPp
    BY DEF Overpriced, Edge
  <1>3. /\ Cost(d, "a") \in Int /\ Cost(d, "draw") \in Int /\ Cost(d, "b") \in Int
        /\ d.p["a"] \in Int /\ d.p["draw"] \in Int /\ d.p["b"] \in Int
    BY <1>1
  <1>4. /\ d.p["a"] - Cost(d, "a") <= AvoidPp
        /\ d.p["draw"] - Cost(d, "draw") <= AvoidPp
        /\ d.p["b"] - Cost(d, "b") <= AvoidPp
    BY <1>2
  <1> QED
    BY <1>3, <1>4

\* A side nobody quotes is a thin market: such a fixture is always counted as illiquid, and
\* the branch of decide() for missing market data is never reached.
THEOREM UnquotedIsIlliquid ==
    ASSUME NEW d, NEW s \in Sides, Of(d.quotes, s) = {}, ~d.stub
    PROVE  Decide(d) = Pass("illiquid")
  BY DEF Decide, IsLiquid
-----------------------------------------------------------------------------
(* The winner of the tournament                                              *)

\* Every edge is an integer that probability 1 bounds.
LEMMA EdgesAreBounded ==
    ASSUME NEW o, IsOutright(o), One \in Nat, NEW x \in Positions
    PROVE  /\ x[1] \in Teams /\ x[2] \in {"yes", "no"} /\ x = <<x[1], x[2]>>
           /\ LowerEdge(o, x) \in Int /\ LowerEdge(o, x) <= One
           /\ PointEdge(o, x) \in Int /\ PointEdge(o, x) <= One
  <1>1. x[1] \in Teams /\ x[2] \in {"yes", "no"} /\ x = <<x[1], x[2]>>
    BY DEF Positions
  <1>2. /\ o[x[1]].p \in 0 .. One /\ o[x[1]].lower \in 0 .. One /\ o[x[1]].upper \in 0 .. One
        /\ o[x[1]].yes \in 0 .. One /\ o[x[1]].no \in 0 .. One
    BY <1>1 DEF IsOutright
  <1> QED
    BY <1>1, <1>2 DEF LowerEdge, PointEdge, LowerChance, Chance, Price

\* When a position clears the threshold the candidate is one that does, and none is surer.
LEMMA CandidateIsSurest ==
    ASSUME NEW o, IsOutright(o), One \in Nat, Clearing(o) # {}
    PROVE  /\ Candidate(o) \in Clearing(o)
           /\ \A y \in Clearing(o) : LowerEdge(o, y) <= LowerEdge(o, Candidate(o))
  <1> DEFINE S == {One - LowerEdge(o, x) : x \in Clearing(o)}
             P == {One - PointEdge(o, x) : x \in Surest(o)}
  <1>1. \A x \in Clearing(o) : /\ LowerEdge(o, x) \in Int /\ One - LowerEdge(o, x) \in Nat
                               /\ PointEdge(o, x) \in Int /\ One - PointEdge(o, x) \in Nat
    <2> SUFFICES ASSUME NEW x \in Clearing(o)
                 PROVE  /\ LowerEdge(o, x) \in Int /\ One - LowerEdge(o, x) \in Nat
                        /\ PointEdge(o, x) \in Int /\ One - PointEdge(o, x) \in Nat
      OBVIOUS
    <2>1. x \in Positions
      BY DEF Clearing
    <2> QED
      BY <2>1, EdgesAreBounded
  <1>2. Surest(o) # {}
    <2>1. S \subseteq Nat /\ S # {}
      BY <1>1
    <2>2. PICK m \in S : \A y \in S : m <= y
      BY <2>1, LeastExists
    <2>3. PICK x \in Clearing(o) : One - LowerEdge(o, x) = m
      BY <2>2
    <2>4. ASSUME NEW y \in Clearing(o) PROVE LowerEdge(o, y) <= LowerEdge(o, x)
      <3>1. One - LowerEdge(o, x) <= One - LowerEdge(o, y)
        BY <2>2, <2>3
      <3> QED
        BY <3>1, <1>1
    <2> QED
      BY <2>4 DEF Surest
  <1>3. Candidate(o) \in Surest(o)
    <2>1. P \subseteq Nat /\ P # {}
      BY <1>1, <1>2 DEF Surest
    <2>2. PICK m \in P : \A y \in P : m <= y
      BY <2>1, LeastExists
    <2>3. PICK x \in Surest(o) : One - PointEdge(o, x) = m
      BY <2>2
    <2>4. ASSUME NEW y \in Surest(o) PROVE PointEdge(o, y) <= PointEdge(o, x)
      <3>1. One - PointEdge(o, x) <= One - PointEdge(o, y)
        BY <2>2, <2>3
      <3> QED
        BY <3>1, <1>1 DEF Surest
    <2> QED
      BY <2>4 DEF Candidate
  <1> QED
    BY <1>3 DEF Surest

\* When the two prices of a team cost a whole unit at least and the threshold is positive, at
\* most one of its sides clears it: the two lower bounds never add up to more than a unit.
LEMMA OneSideClears ==
    ASSUME NEW o, IsOutright(o), One \in Nat, PickPp \in Int, PickPp > 0,
           NEW t \in Teams, o[t].yes + o[t].no >= One
    PROVE  ~(Clears(o, <<t, "yes">>) /\ Clears(o, <<t, "no">>))
  <1>1. /\ o[t].lower \in 0 .. One /\ o[t].upper \in 0 .. One /\ o[t].lower <= o[t].upper
        /\ o[t].yes \in 0 .. One /\ o[t].no \in 0 .. One
    BY DEF IsOutright
  <1>2. /\ LowerEdge(o, <<t, "yes">>) = o[t].lower - o[t].yes
        /\ LowerEdge(o, <<t, "no">>) = (One - o[t].upper) - o[t].no
    BY DEF LowerEdge, LowerChance, Price
  <1> QED
    BY <1>1, <1>2 DEF Clears

\* The headline of decide() and the ladder of _ladder_dict are two computations over the same
\* positions; the page shows both. A team's row says pick exactly when one of its positions
\* clears the threshold, so the headline is a pass exactly when every row is.
THEOREM HeadlineMatchesLadder ==
    ASSUME NEW o, IsOutright(o), One \in Nat, PickPp \in Int
    PROVE  /\ Headline(o).state = "pass" <=> \A t \in Teams : Row(o, t).state = "pass"
           /\ Headline(o).state = "pick" => /\ Headline(o).team \in Teams
                                           /\ Row(o, Headline(o).team).state = "pick"
  <1>1. ASSUME NEW t \in Teams
        PROVE  Row(o, t).state = "pick" <=> \E x \in Clearing(o) : x[1] = t
    <2>1. <<t, "yes">> \in Positions /\ <<t, "no">> \in Positions
      BY DEF Positions
    <2>2. /\ LowerEdge(o, <<t, "yes">>) \in Int /\ LowerEdge(o, <<t, "no">>) \in Int
      BY <2>1, EdgesAreBounded
    <2>3. Row(o, t).state = "pick" <=> Clears(o, <<t, "yes">>) \/ Clears(o, <<t, "no">>)
      BY <2>2 DEF Row, PickedSide, Clears
    <2>4. ASSUME NEW x \in Clearing(o), x[1] = t
          PROVE  Clears(o, <<t, "yes">>) \/ Clears(o, <<t, "no">>)
      <3>1. x \in Positions /\ Clears(o, x)
        BY DEF Clearing
      <3>2. x = <<t, "yes">> \/ x = <<t, "no">>
        BY <3>1, <2>4, EdgesAreBounded
      <3> QED
        BY <3>1, <3>2
    <2>5. ASSUME NEW s \in {"yes", "no"}, Clears(o, <<t, s>>)
          PROVE  \E x \in Clearing(o) : x[1] = t
      BY <2>1, <2>5 DEF Clearing
    <2> QED
      BY <2>3, <2>4, <2>5
  <1>2. CASE Clearing(o) = {}
    <2>1. Headline(o).state = "pass"
      BY <1>2 DEF Headline
    <2>2. \A t \in Teams : Row(o, t).state = "pass"
      BY <1>1, <1>2 DEF Row
    <2> QED
      BY <2>1, <2>2
  <1>3. CASE Clearing(o) # {}
    <2>1. Candidate(o) \in Clearing(o)
      BY <1>3, CandidateIsSurest
    <2>2. Candidate(o)[1] \in Teams
      BY <2>1, EdgesAreBounded DEF Clearing
    <2>3. Headline(o).state = "pick" /\ Headline(o).team = Candidate(o)[1]
      BY <1>3 DEF Headline
    <2> QED
      BY <1>1, <2>1, <2>2, <2>3
  <1> QED
    BY <1>2, <1>3

\* "picks the maximum-edge candidate clearing the lower-bound gate": the headline's position
\* clears the threshold, no position that does has a larger lower edge, and where the market
\* takes its margin (YES and NO of the team together cost a unit or more) the ladder names the
\* same side of that team.
THEOREM HeadlineIsSurest ==
    ASSUME NEW o, IsOutright(o), One \in Nat, PickPp \in Int, Headline(o).state = "pick"
    PROVE  LET h == <<Headline(o).team, Headline(o).side>>
               t == Headline(o).team
           IN  /\ h \in Positions /\ LowerEdge(o, h) >= PickPp
               /\ \A x \in Positions : LowerEdge(o, x) >= PickPp => LowerEdge(o, x) <= LowerEdge(o, h)
               /\ PickPp > 0 /\ o[t].yes + o[t].no >= One => Row(o, t).side = Headline(o).side
  <1>1. Clearing(o) # {}
    BY DEF Headline
  <1>2. /\ Candidate(o) \in Clearing(o)
        /\ \A y \in Clearing(o) : LowerEdge(o, y) <= LowerEdge(o, Candidate(o))
    BY <1>1, CandidateIsSurest
  <1>3. Candidate(o) \in Positions /\ Clears(o, Candidate(o))
    BY <1>2 DEF Clearing
  <1> DEFINE t == Candidate(o)[1]
             s == Candidate(o)[2]
  <1>4. t \in Teams /\ s \in {"yes", "no"} /\ Candidate(o) = <<t, s>>
    BY <1>3, EdgesAreBounded
  <1>5. Headline(o).team = t /\ Headline(o).side = s
    BY <1>1 DEF Headline
  <1>6. ASSUME PickPp > 0, o[t].yes + o[t].no >= One
        PROVE  Row(o, t).side = s
    <2>1. ~(Clears(o, <<t, "yes">>) /\ Clears(o, <<t, "no">>))
      BY <1>4, <1>6, OneSideClears
    <2>2. <<t, "yes">> \in Positions /\ <<t, "no">> \in Positions
      BY <1>4 DEF Positions
    <2>3. LowerEdge(o, <<t, "yes">>) \in Int /\ LowerEdge(o, <<t, "no">>) \in Int
      BY <2>2, EdgesAreBounded
    <2>4. Clears(o, <<t, s>>)
      BY <1>3, <1>4
    <2>5. CASE s = "yes"
      <3>1. LowerEdge(o, <<t, "yes">>) >= LowerEdge(o, <<t, "no">>)
        BY <2>1, <2>3, <2>4, <2>5 DEF Clears
      <3> QED
        BY <2>4, <2>5, <3>1 DEF Row, PickedSide
    <2>6. CASE s = "no"
      BY <2>1, <2>4, <2>6 DEF Row, PickedSide
    <2> QED
      BY <1>4, <2>5, <2>6
  <1> QED
    BY <1>2, <1>3, <1>4, <1>5, <1>6 DEF Clearing, Clears
-----------------------------------------------------------------------------
(* The quotes                                                                *)

\* A quotient, and what it leaves.
LEMMA QuotientBounds ==
    ASSUME NEW n \in Nat, NEW k \in Nat \ {0}
    PROVE  /\ n \div k \in Nat
           /\ (n \div k) * k <= n
           /\ n < (n \div k + 1) * k
  <1>1. n \div k \in Nat
    BY SMT
  <1>2. n = k * (n \div k) + (n % k) /\ (n % k) \in 0 .. k - 1
    BY SMT
  <1> DEFINE q == n \div k
  <1>3. q \in Int
    BY <1>1
  <1>4. k * q = q * k /\ (q + 1) * k = q * k + k
    BY <1>3, SMT
  <1> QED
    BY <1>1, <1>2, <1>4

\* Products keep an order, and give it back.
LEMMA ProductOrder ==
    ASSUME NEW a \in Int, NEW b \in Int, NEW k \in Nat \ {0}
    PROVE  /\ a <= b => a * k <= b * k
           /\ a * k < b * k => a < b
  <1>1. ASSUME NEW x \in Int, NEW y \in Int, x <= y PROVE x * k <= y * k
    <2>1. (y - x) * k >= 0
      BY <1>1, SMT
    <2>2. (y - x) * k = y * k - x * k
      BY SMT
    <2>3. x * k \in Int /\ y * k \in Int
      BY SMT
    <2> QED
      BY <2>1, <2>2, <2>3
  <1>2. a * k \in Int /\ b * k \in Int
    BY SMT
  <1>3. a < b \/ b <= a
    OBVIOUS
  <1> QED
    BY <1>1, <1>2, <1>3

\* A commission never makes an exchange cheaper than its odds say.
LEMMA CommissionCosts ==
    ASSUME PricingAssumption, NEW odds \in Nat, odds > Unit
    PROVE  /\ SportsbookPrice(odds) \in Nat /\ SportsbookPrice(odds) <= One
           /\ ExchangePrice(odds) \in Nat
           /\ SportsbookPrice(odds) <= ExchangePrice(odds)
  <1> DEFINE n == One * Unit
             d == Return(odds)
             i == n \div odds
             e == (n * One) \div d
  <1>1. /\ One \in Nat \ {0} /\ Unit \in Nat \ {0} /\ odds \in Nat \ {0}
        /\ Commission \in Nat /\ Commission < One
    BY DEF PricingAssumption
  <1>2. n \in Nat /\ n * One \in Nat
    BY <1>1, SMT
  <1>3. d \in Nat \ {0} /\ d <= odds * One
    <2>1. Unit * One \in Nat \ {0}
      BY <1>1, SMT
    <2> DEFINE w == odds - Unit
    <2>2. w \in Nat /\ odds = Unit + w
      BY <1>1
    <2>3. w * (One - Commission) \in Nat /\ w * Commission \in Nat
      BY <1>1, <2>2, SMT
    <2>4. w * (One - Commission) = w * One - w * Commission
      BY <1>1, <2>2, SMT
    <2>5. odds * One = Unit * One + w * One
      BY <1>1, <2>2, SMT
    <2>6. w * One \in Nat
      BY <1>1, <2>2, SMT
    <2> QED
      BY <2>1, <2>2, <2>3, <2>4, <2>5, <2>6 DEF Return
  <1>4. /\ i \in Nat /\ i * odds <= n
        /\ e \in Nat /\ n * One < (e + 1) * d
    BY <1>1, <1>2, <1>3, QuotientBounds
  <1>5. i <= e
    <2>1. (i * odds) * One <= n * One
      BY <1>1, <1>2, <1>4, ProductOrder
    <2>2. (e + 1) * d <= (e + 1) * (odds * One)
      <3>1. d * (e + 1) <= (odds * One) * (e + 1)
        <4>1. odds * One \in Int
          BY <1>1, SMT
        <4> QED
          BY <1>3, <1>4, <4>1, ProductOrder
      <3>2. d * (e + 1) = (e + 1) * d /\ (odds * One) * (e + 1) = (e + 1) * (odds * One)
        BY <1>1, <1>3, <1>4, SMT
      <3> QED
        BY <3>1, <3>2
    <2> DEFINE m == odds * One
    <2>3. m \in Nat \ {0} /\ (i * odds) * One = i * m
      BY <1>1, <1>4, SMT
    <2>4. i * m \in Int /\ (e + 1) * m \in Int /\ (e + 1) * d \in Int
      BY <1>3, <1>4, <2>3, SMT
    <2>5. i * m < (e + 1) * m
      BY <1>2, <1>4, <2>1, <2>2, <2>3, <2>4
    <2>6. i < e + 1
      BY <1>4, <2>3, <2>5, ProductOrder
    <2> QED
      BY <1>4, <2>6
  <1>6. i <= One
    <2>1. Unit * One <= odds * One
      BY <1>1, ProductOrder
    <2>2. n = Unit * One /\ odds * One = One * odds
      BY <1>1, SMT
    <2>3. /\ i * odds \in Int /\ One * odds \in Int
          /\ (One + 1) * odds \in Int /\ (One + 1) * odds = One * odds + odds
      BY <1>1, <1>4, SMT
    <2>4. i * odds < (One + 1) * odds
      BY <1>1, <1>2, <1>4, <2>1, <2>2, <2>3
    <2>5. i < One + 1
      BY <1>1, <1>4, <2>4, ProductOrder
    <2> QED
      BY <1>1, <1>4, <2>5
  <1> QED
    BY <1>4, <1>5, <1>6 DEF SportsbookPrice, ExchangePrice

\* "effective implied probability paid all-in (margin + fee + spread + commission)": every
\* quote of a snapshot, merged or not, is one the ladder can read, and costs at least its
\* implied probability and at most a unit.
THEOREM TruePriceIsNeverCheaper ==
    ASSUME PricingAssumption, NEW quotes, IsAsked(quotes), NEW rows, IsRows(rows),
           NEW q \in Merged(quotes, rows)
    PROVE  /\ IsQuote(q) /\ q.implied <= One
           /\ q.true = NoTruePrice \/ (q.implied <= q.true /\ q.true <= One)
  <1>1. ASSUME q \in quotes
        PROVE  q.side \in Sides /\ q.implied \in 0 .. One /\ q.true = NoTruePrice
    BY <1>1 DEF IsAsked
  <1>2. CASE q \in quotes
    BY <1>1, <1>2 DEF IsQuote, PricingAssumption
  <1>3. ASSUME NEW p \in quotes, q = Enriched(quotes, p), Complete(quotes, p.venue)
        PROVE  IsQuote(q) /\ q.implied <= One /\ q.implied <= q.true /\ q.true <= One
    <2>1. p.venue \in Markets /\ p.side \in Sides /\ p.implied \in 0 .. One
      BY DEF IsAsked
    <2>2. TakerFee[p.venue] \in Nat /\ One \in Nat
      BY <2>1 DEF PricingAssumption
    <2>3. q.side = p.side /\ q.implied = p.implied
      BY <1>3 DEF Enriched
    <2>4. q.true = Clamp(p.implied + TakerFee[p.venue])
      <3>1. q = [p EXCEPT !.true = Clamp(MarketPrice(p.venue, p.implied))]
        BY <1>3 DEF Enriched
      <3> QED
        BY <3>1 DEF MarketPrice
    <2> QED
      BY <2>1, <2>2, <2>3, <2>4 DEF Clamp, IsQuote
  <1>4. ASSUME NEW r \in rows, Usable(r), q = Quoted(r)
        PROVE  IsQuote(q) /\ q.implied <= One /\ q.implied <= q.true /\ q.true <= One
    <2>1. r.odds \in Nat /\ r.odds > Unit /\ r.side \in Sides
      BY <1>4 DEF IsRows, Usable
    <2>2. /\ SportsbookPrice(r.odds) \in Nat /\ SportsbookPrice(r.odds) <= One
          /\ ExchangePrice(r.odds) \in Nat /\ SportsbookPrice(r.odds) <= ExchangePrice(r.odds)
      BY <2>1, CommissionCosts
    <2>3. q.side = r.side /\ q.implied = SportsbookPrice(r.odds)
      BY <1>4 DEF Quoted, SportsbookPrice
    <2>4. q.true = Clamp(IF r.venue \in Books THEN SportsbookPrice(r.odds) ELSE ExchangePrice(r.odds))
      BY <1>4 DEF Quoted
    <2>5. One \in Nat
      BY DEF PricingAssumption
    <2> QED
      BY <2>1, <2>2, <2>3, <2>4, <2>5 DEF Clamp, IsQuote
  <1>5. q \in quotes \/ (\E p \in quotes : q = Enriched(quotes, p) /\ Complete(quotes, p.venue))
                     \/ (\E r \in rows : Usable(r) /\ q = Quoted(r))
    BY DEF Merged, Enriched
  <1> QED
    BY <1>2, <1>3, <1>4, <1>5
\* A true price is never below the implied one (margin, fee, spread and commission are paid
\* on top of it), but switching the cross-venue edge on also merges the cached quotes of
\* bookmakers and exchanges, which may be cheaper. So where the markets' own snapshot was
\* liquid, a Pick it adds is carried by a cached quote: one that rests on a market's is a Pick
\* without it too, of a side that is no dearer.
THEOREM TruePriceIsConservative ==
    ASSUME PricingAssumption, PickPp \in Int, Markets \cap (Books \cup Exchanges) = {},
           NEW quotes, IsAsked(quotes), IsLiquid(quotes), NEW rows, IsRows(rows),
           NEW on, IsInput(on), on.cross, on.quotes = Merged(quotes, rows),
           NEW off, IsInput(off), ~off.cross, off.quotes = quotes,
           off.p = on.p, off.lower = on.lower, off.banded = on.banded, off.stub = on.stub,
           off.linked = on.linked,
           Decide(on).state = "pick", Decide(on).quote.venue \in Markets
    PROVE  /\ Decide(off).state = "pick"
           /\ Cost(off, Decide(on).side) <= Cost(on, Decide(on).side)
  <1> DEFINE t == PickSide(on)
             q == Best(on, t)
  <1>1. /\ ~on.stub /\ IsLiquid(on.quotes) /\ Candidates(on) # {} /\ on.linked
        /\ Decide(on).side = t /\ Decide(on).quote = q
    BY VerdictOf DEF Pick
  <1>2. t \in Candidates(on) /\ t \in Sides
    BY <1>1, PickSideIsBest DEF Candidates, PricingAssumption
  <1>3. q \in Of(on.quotes, t) /\ Cost(on, t) \in {q.implied, q.true}
    BY <1>1, <1>2, CostIsOfAQuote DEF IsLiquid
  <1>4. /\ IsQuote(q) /\ q.side = t /\ q \in Merged(quotes, rows)
        /\ q.true = NoTruePrice \/ q.implied <= q.true
    BY <1>3, TruePriceIsNeverCheaper DEF Of, IsInput
  <1>5. Cost(on, t) \in Nat /\ q.implied <= Cost(on, t)
    BY <1>3, <1>4 DEF Cost, IsQuote, NoTruePrice
  <1>6. \E p \in Of(quotes, t) : p.implied = q.implied
    <2>1. ASSUME NEW p \in quotes, q = Enriched(quotes, p)
          PROVE  p \in Of(quotes, t) /\ p.implied = q.implied
      <3>1. q.side = p.side /\ q.implied = p.implied
        BY <2>1 DEF Enriched, IsAsked
      <3> QED
        BY <1>4, <3>1 DEF Of
    <2>2. ASSUME NEW r \in rows, Usable(r), q = Quoted(r) PROVE FALSE
      <3>1. q.venue = r.venue /\ r.venue \in Books \cup Exchanges
        BY <2>2 DEF Quoted, Usable
      <3> QED
        BY <1>1, <3>1
    <2>3. \/ q \in quotes
          \/ \E p \in quotes : q = Enriched(quotes, p)
          \/ \E r \in rows : Usable(r) /\ q = Quoted(r)
      BY <1>4 DEF Merged
    <2>4. CASE q \in quotes
      BY <1>4, <2>4 DEF Of
    <2> QED
      BY <2>1, <2>2, <2>3, <2>4
  <1>7. BestFor(quotes, t) \in Of(quotes, t) /\ BestFor(quotes, t).implied <= q.implied
    BY <1>2, <1>6, BestForIsLeast DEF IsInput, IsLiquid
  <1>8. Cost(off, t) = BestFor(quotes, t).implied
    BY DEF Cost, Best
  <1>9. Cost(off, t) \in Nat /\ Cost(off, t) <= Cost(on, t)
    <2>1. BestFor(quotes, t).implied \in Nat
      BY <1>7 DEF Of, IsInput, IsQuote
    <2> QED
      BY <1>4, <1>5, <1>7, <1>8, <2>1 DEF IsQuote
  <1>10. t \in Candidates(off)
    <2>1. (IF on.banded THEN on.lower[t] ELSE on.p[t]) \in Int
      BY <1>2 DEF IsInput
    <2>2. (IF on.banded THEN on.lower[t] ELSE on.p[t]) - Cost(on, t) >= PickPp
      BY <1>2 DEF Candidates
    <2>3. (IF off.banded THEN off.lower[t] ELSE off.p[t]) - Cost(off, t) >= PickPp
      BY <1>5, <1>9, <2>1, <2>2
    <2> QED
      BY <1>2, <2>3 DEF Candidates
  <1> QED
    BY <1>1, <1>9, <1>10, VerdictOf

\* "a cache miss returns the input snapshot unchanged" and "when no cached prices match this
\* fixture's match_id, the path stays byte-identical to pre-pivot": with nothing cached for the
\* match the verdict is the one with DESK_CROSS_VENUE_EDGE off, quote and edge included.
THEOREM FlagAloneChangesNothing ==
    ASSUME PricingAssumption, NEW quotes, IsAsked(quotes), NEW d, IsInput(d), NEW e, IsInput(e),
           d.cross, ~e.cross, d.quotes = Merged(quotes, {}), e.quotes = quotes,
           e.p = d.p, e.lower = d.lower, e.banded = d.banded, e.stub = d.stub, e.linked = d.linked
    PROVE  Decide(d) = Decide(e)
  <1>1. d.quotes = quotes
    BY DEF Merged
  <1>2. CASE d.stub \/ ~IsLiquid(quotes)
    BY <1>1, <1>2 DEF Decide
  <1>3. CASE ~d.stub /\ IsLiquid(quotes)
    <2>1. ASSUME NEW s \in Sides
          PROVE  Best(d, s) = Best(e, s) /\ Cost(d, s) = Cost(e, s)
      <3>1. Of(quotes, s) # {}
        BY <1>3 DEF IsLiquid
      <3>2. \A q \in Of(quotes, s) : q.true = NoTruePrice
        BY DEF Of, IsAsked
      <3>3. BestForTruePrice(quotes, s) = BestFor(quotes, s)
        BY <3>1, <3>2 DEF BestForTruePrice
      <3>4. BestFor(quotes, s).true = NoTruePrice
        BY <3>1, <3>2, BestForIsLeast, <1>1 DEF IsInput
      <3>5. Best(d, s) = BestFor(quotes, s) /\ Best(e, s) = BestFor(quotes, s)
        BY <1>1, <3>3 DEF Best
      <3> QED
        BY <3>4, <3>5 DEF Cost
    <2>2. \A s \in Sides : Edge(d, s) = Edge(e, s)
      BY <2>1 DEF Edge
    <2>3. Candidates(d) = Candidates(e)
      BY <2>1 DEF Candidates
    <2>4. \A s : (s \in Candidates(d) /\ \A r \in Candidates(d) : Edge(d, r) <= Edge(d, s))
               <=> (s \in Candidates(e) /\ \A r \in Candidates(e) : Edge(e, r) <= Edge(e, s))
      BY <2>2, <2>3 DEF Candidates
    <2>5. PickSide(d) = PickSide(e)
      BY <2>4, Zenon DEF PickSide
    <2>6. Overpriced(d) <=> Overpriced(e)
      BY <2>2 DEF Overpriced
    <2>7. CASE Candidates(d) # {}
      <3>1. PickSide(d) \in Sides
        BY <1>1, <1>3, <2>7, PickSideIsBest DEF Candidates, PricingAssumption
      <3>2. Pick(d) = Pick(e)
        BY <2>1, <2>2, <2>5, <3>1 DEF Pick
      <3> QED
        BY <1>1, <1>3, <2>3, <2>7, <3>2 DEF Decide
    <2>8. CASE Candidates(d) = {}
      BY <1>1, <1>3, <2>3, <2>6, <2>8 DEF Decide
    <2> QED
      BY <2>7, <2>8
  <1> QED
    BY <1>2, <1>3

\* "`is_best` cheapest venue for this side by `true_price`": the badge is decided apart from
\* the verdict, by another rule. It never goes to a quote that costs more than the verdict was
\* charged, and where every quote of the side has a true price to one that costs just that;
\* only a quote without one (of a market that leaves a side unpriced) can undercut it.
THEOREM BadgeIsNoDearer ==
    ASSUME PricingAssumption, NEW quotes, IsAsked(quotes), NEW rows, IsRows(rows),
           NEW d, IsInput(d), d.cross, d.quotes = Merged(quotes, rows),
           NEW s \in Sides, Of(d.quotes, s) # {}, Best(d, s).true # NoTruePrice
    PROVE  /\ Badge(d.quotes, s) \in Of(d.quotes, s)
           /\ Badge(d.quotes, s).true <= Cost(d, s)
           /\ (\A q \in Of(d.quotes, s) : q.true # NoTruePrice) => Badge(d.quotes, s).true = Cost(d, s)
  <1> DEFINE P == Priced(d.quotes, s)
             S == {q.true : q \in P}
  <1>1. Best(d, s) \in Of(d.quotes, s) /\ Cost(d, s) = Best(d, s).true
    BY CostIsOfAQuote DEF Cost
  <1>2. Best(d, s) \in P
    BY <1>1 DEF Priced
  <1>3. S \subseteq Nat /\ S # {}
    <2>1. \A q \in P : q.true \in Nat
      BY DEF Priced, Of, IsInput, IsQuote
    <2> QED
      BY <1>2, <2>1
  <1>4. PICK x \in S : \A y \in S : x <= y
    BY <1>3, LeastExists
  <1>5. PICK q \in P : q.true = x
    BY <1>4
  <1>6. \A r \in P : q.true <= r.true
    BY <1>4, <1>5
  <1>7. Badge(d.quotes, s) \in P /\ \A r \in P : Badge(d.quotes, s).true <= r.true
    BY <1>6 DEF Badge
  <1>8. Badge(d.quotes, s) \in Of(d.quotes, s)
    BY <1>7 DEF Priced
  <1>9. ASSUME \A r \in Of(d.quotes, s) : r.true # NoTruePrice
        PROVE  Badge(d.quotes, s).true = Cost(d, s)
    <2>1. Best(d, s).true <= Badge(d.quotes, s).true
      BY <1>8, <1>9, BestForTruePriceIsLeast DEF Best, IsInput
    <2>2. Badge(d.quotes, s).true \in Nat /\ Best(d, s).true \in Nat
      BY <1>2, <1>3, <1>7
    <2> QED
      BY <1>1, <1>2, <1>7, <2>1, <2>2
  <1> QED
    BY <1>1, <1>2, <1>7, <1>8, <1>9

-----------------------------------------------------------------------------
(* Resolving the predictions.                                                *)
Results == Outcomes \cup {Unresolved}
Ingest == [pc : {"idle", "walk", "record"}, at : 0 .. MaxDate, left : SUBSET Matches,
           found : [Matches -> Results], due : SUBSET Matches, known : SUBSET Matches]

LEMMA MeansIsAnOutcome ==
    ASSUME NEW m \in Matches
    PROVE  /\ vendor[m].score \in Scores => OutcomeOf(m) = Means(m, vendor[m].score)
           /\ OutcomeOf(m) \in Outcomes
           /\ OutcomeOf(m) # Unresolved
  BY DEF OutcomeOf, Means, Outcomes, Scores, Unresolved

LEMMA TypeInit == FvInit => FvTypeOK
  BY ValidationAssumption DEF FvInit, FvTypeOK, IdleIngest, Scores, Outcomes, Unresolved

LEMMA IngestFields ==
    ASSUME FvTypeOK, NEW i \in Ingests
    PROVE  /\ ingest[i] \in Ingest
           /\ ingest[i].left \subseteq Matches /\ ingest[i].due \subseteq Matches
           /\ ingest[i].found \in [Matches -> Results]
  BY DEF FvTypeOK, Ingest, Results

LEMMA IngestUpdate ==
    ASSUME FvTypeOK, NEW i \in Ingests, NEW g \in Ingest, ingest' = [ingest EXCEPT ![i] = g]
    PROVE  ingest' \in [Ingests -> Ingest]
  BY DEF FvTypeOK, Ingest, Results

\* The actions within one ingest.
LEMMA TypeWalk ==
    ASSUME FvTypeOK, NEW i \in Ingests,
           WalkDone(i) \/ \E m \in Matches : Ask(i, m) \/ AskFails(i, m) \/ Record(i, m)
    PROVE  ingest' \in [Ingests -> Ingest]
  <1>1. CASE WalkDone(i)
    <2> DEFINE g == [ingest[i] EXCEPT !.pc = "record",
                                      !.left = {n \in Matches : ingest[i].found[n] # Unresolved}]
    <2>1. g \in Ingest
      BY IngestFields DEF Ingest
    <2>2. ingest' = [ingest EXCEPT ![i] = g]
      BY <1>1 DEF WalkDone
    <2> QED
      BY <2>1, <2>2, IngestUpdate
  <1>2. ASSUME NEW m \in Matches, Ask(i, m) PROVE ingest' \in [Ingests -> Ingest]
    <2> DEFINE Asked == IF Settled(m) THEN OutcomeOf(m) ELSE Unresolved
    <2> DEFINE g == [ingest[i] EXCEPT !.left = Rest(i, m),
                                      !.found = [ingest[i].found EXCEPT ![m] = Asked]]
    <2>1. Asked \in Results /\ Rest(i, m) \subseteq Matches
      BY MeansIsAnOutcome, IngestFields DEF Results, Rest
    <2>2. [ingest[i].found EXCEPT ![m] = Asked] \in [Matches -> Results]
      BY <2>1, IngestFields
    <2>3. g \in Ingest
      BY <2>1, <2>2, IngestFields DEF Ingest
    <2>4. ingest' = [ingest EXCEPT ![i] = g]
      BY <1>2 DEF Ask
    <2> QED
      BY <2>3, <2>4, IngestUpdate
  <1>3. ASSUME NEW m \in Matches, AskFails(i, m) PROVE ingest' \in [Ingests -> Ingest]
    <2> DEFINE g == [ingest[i] EXCEPT !.left = Rest(i, m), !.due = ingest[i].due \ {m}]
    <2>1. g \in Ingest
      BY IngestFields DEF Ingest, Rest
    <2>2. ingest' = [ingest EXCEPT ![i] = g]
      BY <1>3 DEF AskFails
    <2> QED
      BY <2>1, <2>2, IngestUpdate
  <1>4. ASSUME NEW m \in Matches, Record(i, m) PROVE ingest' \in [Ingests -> Ingest]
    <2> DEFINE g == [ingest[i] EXCEPT !.left = ingest[i].left \ {m}]
    <2>1. g \in Ingest
      BY IngestFields DEF Ingest
    <2>2. ingest' = [ingest EXCEPT ![i] = g]
      BY <1>4 DEF Record
    <2> QED
      BY <2>1, <2>2, IngestUpdate
  <1> QED
    BY <1>1, <1>2, <1>3, <1>4

\* What an ingest begins with.
LEMMA BeginOf ==
    ASSUME FvTypeOK, NEW i \in Ingests, Begin(i)
    PROVE  /\ ingest' \in [Ingests -> Ingest]
           /\ \A j \in Ingests \ {i} : ingest'[j] = ingest[j]
           /\ \E taken \in SUBSET Pending :
                /\ ingest'[i].pc = "walk" /\ ingest'[i].left = taken
                /\ ingest'[i].known = {m \in Matches : outcome[m] # Unresolved}
                /\ ingest'[i].due = {m \in taken : outcome[m] = Unresolved /\ date >= SettleBuffer
                                                      /\ vendor[m].status = "FT"}
                /\ ingest'[i].found = [m \in Matches |-> Unresolved]
  <1> DEFINE g(taken) == [IdleIngest EXCEPT
                !.pc = "walk", !.at = date, !.left = taken,
                !.due = {m \in taken : outcome[m] = Unresolved /\ date >= SettleBuffer
                                         /\ vendor[m].status = "FT"},
                !.known = {m \in Matches : outcome[m] # Unresolved}]
  <1>1. PICK taken \in SUBSET Pending : ingest' = [ingest EXCEPT ![i] = g(taken)]
    BY DEF Begin
  <1>2. /\ g(taken).pc = "walk" /\ g(taken).left = taken
        /\ g(taken).known = {m \in Matches : outcome[m] # Unresolved}
        /\ g(taken).due = {m \in taken : outcome[m] = Unresolved /\ date >= SettleBuffer
                                           /\ vendor[m].status = "FT"}
        /\ g(taken).found = [m \in Matches |-> Unresolved]
    BY DEF IdleIngest
  <1>3. g(taken) \in Ingest
    <2>1. taken \subseteq Matches /\ date \in 0 .. MaxDate
      BY DEF Pending, FvTypeOK
    <2> QED
      BY <2>1 DEF IdleIngest, Ingest, Results
  <1> HIDE DEF g
  <1>4. ingest' \in [Ingests -> Ingest]
    BY <1>1, <1>3, IngestUpdate
  <1>5. ingest'[i] = g(taken) /\ \A j \in Ingests \ {i} : ingest'[j] = ingest[j]
    BY <1>1 DEF FvTypeOK
  <1> QED
    BY <1>2, <1>4, <1>5

LEMMA TypeStep == FvTypeOK /\ [FvNext]_fvVars => FvTypeOK'
  <1> SUFFICES ASSUME FvTypeOK, [FvNext]_fvVars PROVE FvTypeOK'
    OBVIOUS
  <1> USE DEF FvTypeOK
  <1>1. ASSUME NEW m \in Matches, Log(m) PROVE FvTypeOK'
    BY <1>1 DEF Log
  <1>2. ASSUME NEW m \in Matches, KickOff(m) PROVE FvTypeOK'
    BY <1>2 DEF KickOff
  <1>3. ASSUME NEW m \in Matches, Goal(m) PROVE FvTypeOK'
    BY <1>3 DEF Goal
  <1>4. ASSUME NEW m \in Matches, FullTime(m) PROVE FvTypeOK'
    BY <1>4 DEF FullTime
  <1>5. ASSUME NEW m \in Matches, ExtraTime(m) PROVE FvTypeOK'
    BY <1>5 DEF ExtraTime
  <1>6. ASSUME NEW m \in Matches, Correct(m) PROVE FvTypeOK'
    BY <1>6 DEF Correct
  <1>7. ASSUME NEW i \in Ingests, Begin(i) PROVE FvTypeOK'
    <2>1. ingest' \in [Ingests -> Ingest]
      BY <1>7, BeginOf, Zenon
    <2> QED
      BY <1>7, <2>1 DEF Begin, Ingest, Results
  <1>8. ASSUME NEW i \in Ingests, WalkDone(i) PROVE FvTypeOK'
    <2>1. ingest' \in [Ingests -> Ingest]
      BY <1>8, TypeWalk, Zenon
    <2> QED
      BY <1>8, <2>1 DEF WalkDone, Ingest, Results
  <1>9. ASSUME NEW i \in Ingests, End(i) PROVE FvTypeOK'
    BY <1>9, ValidationAssumption DEF End, IdleIngest
  <1>10. ASSUME NEW i \in Ingests, TimedOut(i) PROVE FvTypeOK'
    BY <1>10, ValidationAssumption DEF TimedOut, IdleIngest
  <1>11. ASSUME NEW i \in Ingests, NEW m \in Matches, Ask(i, m) PROVE FvTypeOK'
    <2>1. ingest' \in [Ingests -> Ingest]
      BY <1>11, TypeWalk, Zenon
    <2> QED
      BY <1>11, <2>1 DEF Ask, Ingest, Results
  <1>12. ASSUME NEW i \in Ingests, NEW m \in Matches, AskFails(i, m) PROVE FvTypeOK'
    <2>1. ingest' \in [Ingests -> Ingest]
      BY <1>12, TypeWalk, Zenon
    <2> QED
      BY <1>12, <2>1 DEF AskFails, Ingest, Results
  <1>13. ASSUME NEW i \in Ingests, NEW m \in Matches, Record(i, m) PROVE FvTypeOK'
    <2>1. ingest' \in [Ingests -> Ingest]
      BY <1>13, TypeWalk, Zenon
    <2>2. ingest[i].found[m] \in Results
      BY IngestFields
    <2> QED
      BY <1>13, <2>1, <2>2 DEF Record, Ingest, Results
  <1>14. CASE Elapse
    BY <1>14, ValidationAssumption DEF Elapse
  <1>15. CASE FvHorizon \/ UNCHANGED fvVars
    BY <1>15 DEF FvHorizon, fvVars
  <1> QED
    BY <1>1, <1>2, <1>3, <1>4, <1>5, <1>6, <1>7, <1>8, <1>9, <1>10, <1>11, <1>12, <1>13, <1>14,
       <1>15 DEF FvNext

\* Every variable keeps its type, whatever ingests overlap.
THEOREM TypeCorrect == FvSpec => []FvTypeOK
  BY TypeInit, TypeStep, PTL DEF FvSpec

-----------------------------------------------------------------------------
(* An outcome is a result                                                    *)

IsResult(m, o) == \E s \in finals[m] : o = Means(m, s)

\* What the vendor shows as final is on record and nothing is on record before; what an
\* ingest has found, and what is resolved, is a result.
ResultInv ==
    \A m \in Matches :
        /\ vendor[m].status = "FT" => vendor[m].score \in finals[m]
        /\ vendor[m].status # "FT" => finals[m] = {}
        /\ outcome[m] # Unresolved => IsResult(m, outcome[m])
        /\ \A i \in Ingests :
             ingest[i].found[m] # Unresolved => IsResult(m, ingest[i].found[m])

LEMMA ResultInit == FvInit => ResultInv
  BY DEF FvInit, ResultInv, IsResult, IdleIngest, Unresolved

\* A step that leaves the vendor, the outcomes and what was found alone.
LEMMA ResultKept ==
    ASSUME ResultInv, UNCHANGED <<vendor, finals, outcome>>,
           \A i \in Ingests, m \in Matches :
               ingest'[i].found[m] \in {ingest[i].found[m], Unresolved}
    PROVE  ResultInv'
  BY DEF ResultInv, IsResult, Means

\* A step of the vendor that takes no result back.
LEMMA ResultVendor ==
    ASSUME ResultInv, UNCHANGED <<outcome, ingest>>,
           \A m \in Matches :
               /\ finals[m] \subseteq finals'[m]
               /\ vendor'[m].status = "FT" => vendor'[m].score \in finals'[m]
               /\ vendor'[m].status # "FT" => finals'[m] = {}
    PROVE  ResultInv'
  BY DEF ResultInv, IsResult, Means

LEMMA ResultStep == FvTypeOK /\ ResultInv /\ [FvNext]_fvVars => ResultInv'
  <1> SUFFICES ASSUME FvTypeOK, ResultInv, [FvNext]_fvVars PROVE ResultInv'
    OBVIOUS
  <1>1. ASSUME NEW m \in Matches, KickOff(m) \/ Goal(m) \/ ExtraTime(m) PROVE ResultInv'
    <2>1. \A n \in Matches : vendor'[n].status = "FT" <=> vendor[n].status = "FT"
      BY <1>1 DEF KickOff, Goal, ExtraTime, FvTypeOK
    <2>2. \A n \in Matches : vendor'[n].status = "FT" => vendor'[n].score = vendor[n].score
      BY <1>1 DEF KickOff, Goal, ExtraTime, FvTypeOK
    <2>3. UNCHANGED <<outcome, ingest, finals>>
      BY <1>1 DEF KickOff, Goal, ExtraTime
    <2> QED
      BY <2>1, <2>2, <2>3, ResultVendor DEF ResultInv
  <1>2. ASSUME NEW m \in Matches, FullTime(m) \/ Correct(m) PROVE ResultInv'
    <2>1. /\ UNCHANGED <<outcome, ingest>>
          /\ vendor'[m].status = "FT" /\ finals[m] \subseteq finals'[m]
          /\ vendor'[m].score \in finals'[m]
      BY <1>2 DEF FullTime, Correct, FvTypeOK, ResultInv
    <2>2. \A n \in Matches \ {m} : vendor'[n] = vendor[n] /\ finals'[n] = finals[n]
      BY <1>2 DEF FullTime, Correct, FvTypeOK
    <2> QED
      BY <2>1, <2>2, ResultVendor DEF ResultInv
  <1>3. ASSUME NEW i \in Ingests, NEW m \in Matches, Ask(i, m) PROVE ResultInv'
    <2>1. UNCHANGED <<vendor, finals, outcome>>
      BY <1>3 DEF Ask
    <2>2. \A j \in Ingests, n \in Matches : j # i \/ n # m => ingest'[j].found[n] = ingest[j].found[n]
      BY <1>3 DEF Ask, FvTypeOK
    <2>3. ingest'[i].found[m] = IF Settled(m) THEN OutcomeOf(m) ELSE Unresolved
      BY <1>3, IngestFields DEF Ask, FvTypeOK
    <2>4. ASSUME Settled(m) PROVE IsResult(m, OutcomeOf(m))
      <3>1. vendor[m].score \in Scores /\ vendor[m].score \in finals[m]
        BY <2>4 DEF Settled, ResultInv, FvTypeOK
      <3> QED
        BY <3>1, MeansIsAnOutcome DEF IsResult
    <2>5. ASSUME NEW n \in Matches, NEW j \in Ingests, ingest'[j].found[n] # Unresolved
          PROVE  IsResult(n, ingest'[j].found[n])
      <3>1. CASE j = i /\ n = m
        BY <3>1, <2>3, <2>4, <2>5
      <3>2. CASE j # i \/ n # m
        BY <3>2, <2>2, <2>5 DEF ResultInv
      <3> QED
        BY <3>1, <3>2
    <2> QED
      BY <2>1, <2>5 DEF ResultInv, IsResult, Means
  <1>4. ASSUME NEW i \in Ingests, NEW m \in Matches, Record(i, m) PROVE ResultInv'
    <2>1. /\ UNCHANGED <<vendor, finals>>
          /\ outcome' = [outcome EXCEPT ![m] = ingest[i].found[m]]
          /\ \A j \in Ingests : ingest'[j].found = ingest[j].found
      BY <1>4 DEF Record, FvTypeOK
    <2>2. \A n \in Matches : outcome'[n] = IF n = m THEN ingest[i].found[m] ELSE outcome[n]
      BY <2>1 DEF FvTypeOK
    <2> QED
      BY <2>1, <2>2 DEF ResultInv, IsResult, Means
  <1>5. ASSUME NEW i \in Ingests,
               \/ Begin(i) \/ WalkDone(i) \/ End(i) \/ TimedOut(i)
               \/ \E m \in Matches : AskFails(i, m)
        PROVE ResultInv'
    <2>1. UNCHANGED <<vendor, finals, outcome>>
      BY <1>5 DEF Begin, WalkDone, End, TimedOut, AskFails
    <2>2. \A j \in Ingests \ {i} : ingest'[j] = ingest[j]
      BY <1>5 DEF Begin, WalkDone, End, TimedOut, AskFails, FvTypeOK
    <2>3. \A m \in Matches : ingest'[i].found[m] \in {ingest[i].found[m], Unresolved}
      <3>1. CASE Begin(i) \/ End(i) \/ TimedOut(i)
        <4>1. CASE Begin(i)
          <5>1. ingest'[i].found = IdleIngest.found
            BY <4>1 DEF Begin, FvTypeOK, IdleIngest
          <5> QED
            BY <5>1 DEF IdleIngest
        <4>2. CASE End(i) \/ TimedOut(i)
          <5>1. ingest'[i] = IdleIngest
            BY <4>2 DEF End, TimedOut, FvTypeOK
          <5> QED
            BY <5>1 DEF IdleIngest
        <4> QED
          BY <3>1, <4>1, <4>2
      <3>2. CASE WalkDone(i) \/ \E m \in Matches : AskFails(i, m)
        <4>1. ingest'[i].found = ingest[i].found
          BY <3>2 DEF WalkDone, AskFails, FvTypeOK
        <4> QED
          BY <4>1
      <3> QED
        BY <1>5, <3>1, <3>2
    <2> QED
      BY <2>1, <2>2, <2>3, ResultKept
  <1>6. CASE \/ \E m \in Matches : Log(m)
             \/ Elapse \/ FvHorizon \/ UNCHANGED fvVars
    <2>1. UNCHANGED <<vendor, finals, outcome, ingest>>
      BY <1>6 DEF Log, Elapse, FvHorizon, fvVars
    <2> QED
      BY <2>1, ResultKept
  <1> QED
    BY <1>1, <1>2, <1>3, <1>4, <1>5, <1>6 DEF FvNext

\* Whatever ingests overlap, time out and fail, and whatever the vendor corrects, a match is
\* resolved by a final score seen from team_a's side.
THEOREM OutcomesAreResults == FvSpec => []OutcomeIsAResult
  <1>1. ResultInv => OutcomeIsAResult
    BY DEF ResultInv, IsResult, OutcomeIsAResult
  <1> QED
    BY <1>1, TypeInit, TypeStep, ResultInit, ResultStep, PTL DEF FvSpec

-----------------------------------------------------------------------------
(* What is resolved stays so, and what is settled gets resolved              *)

\* Where an ingest stands with the matches it knew as resolved, with those it has yet to
\* write down and with those it should resolve.
Standing(i) ==
    /\ \A m \in ingest[i].known :
         /\ outcome[m] # Unresolved
         /\ m \notin ingest[i].left /\ ingest[i].found[m] = Unresolved
    /\ ingest[i].pc = "record" =>
         \A m \in ingest[i].left : ingest[i].found[m] # Unresolved
    /\ \A m \in ingest[i].due :
         /\ vendor[m].status = "FT" /\ date >= SettleBuffer
         /\ \/ m \in ingest[i].left
            \/ ingest[i].pc = "walk" /\ ingest[i].found[m] # Unresolved
            \/ ingest[i].pc = "record" /\ outcome[m] # Unresolved

OwedInv == SettledIsResolved /\ \A i \in Ingests : Standing(i)

LEMMA OwedInit == FvInit => OwedInv
  BY DEF FvInit, OwedInv, SettledIsResolved, Standing, IdleIngest

\* What a step of another actor may do to an ingest's standing.
LEMMA StandingKept ==
    ASSUME NEW i \in Ingests, FvTypeOK, Standing(i), ingest'[i] = ingest[i],
           \A m \in Matches : outcome[m] # Unresolved => outcome'[m] # Unresolved,
           \A m \in Matches : vendor[m].status = "FT" => vendor'[m].status = "FT",
           date >= SettleBuffer => date' >= SettleBuffer
    PROVE  Standing(i)'
  <1>1. ingest[i].known \subseteq Matches /\ ingest[i].due \subseteq Matches
    BY DEF FvTypeOK
  <1> QED
    BY <1>1 DEF Standing

LEMMA OwedStep == FvTypeOK /\ OwedInv /\ [FvNext]_fvVars => OwedInv'
  <1> SUFFICES ASSUME FvTypeOK, OwedInv, [FvNext]_fvVars PROVE OwedInv'
    OBVIOUS
  <1> USE ValidationAssumption
  <1>1. ASSUME UNCHANGED <<ingest, outcome, owed>>,
               \A m \in Matches : vendor[m].status = "FT" => vendor'[m].status = "FT",
               date >= SettleBuffer => date' >= SettleBuffer
        PROVE  OwedInv'
    BY <1>1, StandingKept DEF OwedInv, SettledIsResolved
  <1>2. ASSUME NEW m \in Matches,
               Log(m) \/ KickOff(m) \/ Goal(m) \/ FullTime(m) \/ ExtraTime(m) \/ Correct(m)
        PROVE  OwedInv'
    <2>1. UNCHANGED <<ingest, outcome, owed, date>>
      BY <1>2 DEF Log, KickOff, Goal, FullTime, ExtraTime, Correct
    <2>2. \A n \in Matches : vendor[n].status = "FT" => vendor'[n].status = "FT"
      BY <1>2 DEF Log, KickOff, Goal, FullTime, ExtraTime, Correct, FvTypeOK
    <2> QED
      BY <2>1, <2>2, <1>1
  <1>3. CASE Elapse \/ FvHorizon \/ UNCHANGED fvVars
    <2>1. UNCHANGED <<ingest, outcome, owed, vendor>> /\ (date >= SettleBuffer => date' >= SettleBuffer)
      BY <1>3 DEF Elapse, FvHorizon, fvVars, FvTypeOK
    <2> QED
      BY <2>1, <1>1
  <1>4. ASSUME NEW i \in Ingests, Begin(i) PROVE OwedInv'
    <2>1. UNCHANGED <<outcome, owed, vendor, date>> /\ \A j \in Ingests \ {i} : ingest'[j] = ingest[j]
      BY <1>4 DEF Begin, FvTypeOK
    <2>2. PICK taken \in SUBSET Pending :
          /\ ingest'[i].pc = "walk" /\ ingest'[i].left = taken
          /\ ingest'[i].known = {m \in Matches : outcome[m] # Unresolved}
          /\ ingest'[i].due = {m \in taken : outcome[m] = Unresolved /\ date >= SettleBuffer
                                               /\ vendor[m].status = "FT"}
          /\ ingest'[i].found = [m \in Matches |-> Unresolved]
      BY <1>4, BeginOf
    <2>3. Standing(i)'
      BY <2>1, <2>2 DEF Standing, Pending, FvTypeOK
    <2>4. \A j \in Ingests \ {i} : Standing(j)'
      BY <2>1, StandingKept DEF OwedInv
    <2> QED
      BY <2>1, <2>3, <2>4 DEF OwedInv, SettledIsResolved
  <1>5. ASSUME NEW i \in Ingests, End(i) \/ TimedOut(i) PROVE OwedInv'
    <2>1. /\ UNCHANGED <<outcome, vendor, date>> /\ \A j \in Ingests \ {i} : ingest'[j] = ingest[j]
          /\ ingest'[i] = IdleIngest
      BY <1>5 DEF End, TimedOut, FvTypeOK
    <2>2. \A j \in Ingests : Standing(j)'
      BY <2>1, StandingKept DEF OwedInv, Standing, IdleIngest
    <2>3. \A m \in owed' : outcome[m] # Unresolved
      BY <1>5 DEF End, TimedOut, OwedInv, SettledIsResolved, Standing
    <2> QED
      BY <2>1, <2>2, <2>3 DEF OwedInv, SettledIsResolved
  <1>6. ASSUME NEW i \in Ingests, WalkDone(i) PROVE OwedInv'
    <2>1. UNCHANGED <<outcome, owed, vendor, date>> /\ \A j \in Ingests \ {i} : ingest'[j] = ingest[j]
      BY <1>6 DEF WalkDone, FvTypeOK
    <2>2. /\ ingest[i].pc = "walk" /\ ingest[i].left = {} /\ ingest'[i].pc = "record"
          /\ ingest'[i].left = {m \in Matches : ingest[i].found[m] # Unresolved}
          /\ ingest'[i].known = ingest[i].known /\ ingest'[i].due = ingest[i].due
          /\ ingest'[i].found = ingest[i].found
      BY <1>6 DEF WalkDone, FvTypeOK
    <2>3. Standing(i)'
      BY <2>1, <2>2 DEF Standing, OwedInv, FvTypeOK
    <2>4. \A j \in Ingests \ {i} : Standing(j)'
      BY <2>1, StandingKept DEF OwedInv
    <2> QED
      BY <2>1, <2>3, <2>4 DEF OwedInv, SettledIsResolved
  <1>7. ASSUME NEW i \in Ingests, NEW m \in Matches, Ask(i, m) \/ AskFails(i, m) PROVE OwedInv'
    <2>1. UNCHANGED <<outcome, owed, vendor, date>> /\ \A j \in Ingests \ {i} : ingest'[j] = ingest[j]
      BY <1>7 DEF Ask, AskFails, FvTypeOK
    <2>2. /\ ingest[i].pc = "walk" /\ m \in ingest[i].left
          /\ ingest'[i].pc = "walk" /\ ingest'[i].left = ingest[i].left \ {m}
          /\ ingest'[i].known = ingest[i].known
          /\ \A n \in Matches \ {m} : ingest'[i].found[n] = ingest[i].found[n]
      BY <1>7 DEF Ask, AskFails, FvTypeOK, Rest
    <2>3. \/ ingest'[i].due = ingest[i].due \ {m}
          \/ /\ ingest'[i].due = ingest[i].due
             /\ ingest'[i].found[m] = IF Settled(m) THEN OutcomeOf(m) ELSE Unresolved
      BY <1>7, IngestFields DEF Ask, AskFails, FvTypeOK
    <2>4. m \in ingest[i].due => Settled(m)
      BY DEF OwedInv, Standing, Settled
    <2>5. \A n \in ingest'[i].due :
             n \in ingest[i].due /\ (n \in ingest'[i].left \/ ingest'[i].found[n] # Unresolved)
      <3> SUFFICES ASSUME NEW n \in ingest'[i].due
                   PROVE n \in ingest[i].due /\ (n \in ingest'[i].left \/ ingest'[i].found[n] # Unresolved)
        OBVIOUS
      <3>1. n \in ingest[i].due /\ n \in Matches
        BY <2>3 DEF FvTypeOK
      <3>2. CASE n = m
        BY <3>1, <3>2, <2>3, <2>4, MeansIsAnOutcome
      <3>3. CASE n # m
        BY <3>1, <3>3, <2>2 DEF OwedInv, Standing
      <3> QED
        BY <3>1, <3>2, <3>3
    <2>6. \A n \in ingest'[i].known :
             outcome[n] # Unresolved /\ n \notin ingest'[i].left /\ ingest'[i].found[n] = Unresolved
      <3> SUFFICES ASSUME NEW n \in ingest[i].known
                   PROVE  outcome[n] # Unresolved /\ n \notin ingest'[i].left
                          /\ ingest'[i].found[n] = Unresolved
        BY <2>2
      <3>1. n \in Matches /\ n # m
        BY <2>2 DEF FvTypeOK, OwedInv, Standing
      <3> QED
        BY <3>1, <2>2 DEF OwedInv, Standing
    <2>7. Standing(i)'
      BY <2>1, <2>2, <2>5, <2>6 DEF Standing, OwedInv
    <2>8. \A j \in Ingests \ {i} : Standing(j)'
      BY <2>1, StandingKept DEF OwedInv
    <2> QED
      BY <2>1, <2>7, <2>8 DEF OwedInv, SettledIsResolved
  <1>8. ASSUME NEW i \in Ingests, NEW m \in Matches, Record(i, m) PROVE OwedInv'
    <2>1. /\ UNCHANGED <<owed, vendor, date>>
          /\ \A j \in Ingests \ {i} : ingest'[j] = ingest[j]
          /\ ingest[i].found[m] # Unresolved /\ ingest[i].pc = "record"
          /\ ingest'[i].left = ingest[i].left \ {m}
          /\ ingest'[i].pc = "record" /\ ingest'[i].due = ingest[i].due
          /\ ingest'[i].known = ingest[i].known /\ ingest'[i].found = ingest[i].found
      BY <1>8 DEF Record, FvTypeOK, OwedInv, Standing
    <2>2. \A n \in Matches : outcome'[n] = IF n = m THEN ingest[i].found[m] ELSE outcome[n]
      BY <1>8 DEF Record, FvTypeOK
    <2>3. \A n \in Matches : outcome[n] # Unresolved => outcome'[n] # Unresolved
      BY <2>1, <2>2
    <2>4. Standing(i)'
      BY <2>1, <2>2, <2>3, IngestFields DEF Standing, OwedInv, FvTypeOK
    <2>5. \A j \in Ingests \ {i} : Standing(j)'
      BY <2>1, <2>3, StandingKept DEF OwedInv
    <2> QED
      BY <2>1, <2>3, <2>4, <2>5 DEF OwedInv, SettledIsResolved, FvTypeOK
  <1> QED
    BY <1>2, <1>3, <1>4, <1>5, <1>6, <1>7, <1>8 DEF FvNext

\* For any number of ingests: one that began after a match was resolved never asks about it
\* nor rewrites it.
THEOREM ResolvedStays == FvSpec => []ResolvedIsLeftAlone
  <1>1. OwedInv => ResolvedIsLeftAlone
    BY DEF OwedInv, Standing, ResolvedIsLeftAlone
  <1> QED
    BY <1>1, TypeInit, TypeStep, OwedInit, OwedStep, PTL DEF FvSpec

\* An ingest that ends has resolved all it listed that was settled when it began, but what
\* failed.
THEOREM SettledGetsResolved == FvSpec => []SettledIsResolved
  <1>1. OwedInv => SettledIsResolved
    BY DEF OwedInv
  <1> QED
    BY <1>1, TypeInit, TypeStep, OwedInit, OwedStep, PTL DEF FvSpec
=============================================================================
