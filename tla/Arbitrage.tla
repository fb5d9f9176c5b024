----------------------------- MODULE Arbitrage ------------------------------
(* What one cycle of the market scheduler makes of the prices it fetched: the *)
(* markets of both platforms in one schema (core/market_normalizer.py), pairs *)
(* of them that are taken for the same question, and of every pair the way to *)
(* buy YES on one platform and NO on the other for less than a dollar         *)
(* (services/odds_comparator.py, services/arbitrage_detector.py).             *)
(*                                                                            *)
(* A price is counted in half cents, so that the middle of two quotes in      *)
(* cents is one.  The two platforms list their markets in an order of their   *)
(* own; how alike two titles are is a constant.                              *)
EXTENDS Integers, Sequences, SequencesExt, FiniteSets

CONSTANTS
    Kalshi, Polymarket,   \* the markets of each, as they are listed
    Title,                \* of the Kalshi markets
    Score, Threshold,     \* _jaccard of two titles, and MATCH_THRESHOLD
    MinEdge,              \* ARB_MIN_EDGE_PCT, in hundredths of a percent
    Books,                \* what Kalshi may quote: bid and ask of YES and of NO, 0 for none
    Outcomes              \* what Polymarket may quote: half cents of YES and NO, or Unpriced

Ks == Range(Kalshi)
Ps == Range(Polymarket)
Dollar == 200
Unpriced == [yes |-> -1, no |-> -1]

ArbitrageAssumption ==
    /\ Kalshi \in Seq(Ks) /\ Polymarket \in Seq(Ps)
    /\ IsInjective(Kalshi) /\ IsInjective(Polymarket)
    /\ Score \in [Ks \X Ps -> Nat] /\ Threshold \in Nat \ {0} /\ MinEdge \in Nat
    /\ \A k \in Ks : Title[k] \in STRING
    /\ \A b \in Books : {b.yesBid, b.yesAsk, b.noBid, b.noAsk} \subseteq 0 .. 100
    /\ \A o \in Outcomes : o = Unpriced \/ {o.yes, o.no} \subseteq 0 .. Dollar

VARIABLES
    book,      \* per Kalshi market: its quotes of this cycle
    outcome,   \* per Polymarket market: its prices
    opps       \* arb_opps

vars == <<book, outcome, opps>>

-----------------------------------------------------------------------------
(* The common schema.                                                        *)

\* _to_decimal: cents become a fraction of a dollar, unless they look like one.
ToDecimal(cents) == IF cents > 1 THEN 2 * cents ELSE Dollar * cents

Mid_OfBoth(bid, ask) == (bid + ask) \div 2

\* The middle of bid and ask, or the one there is.
Mid(bid, ask) ==
    IF bid # 0 /\ ask # 0 THEN (bid + ask) \div 2 ELSE IF bid # 0 THEN bid ELSE ask

KalshiPrice(b) ==
    LET yes == Mid(ToDecimal(b.yesBid), ToDecimal(b.yesAsk))
        no  == Mid(ToDecimal(b.noBid), ToDecimal(b.noAsk))
    IN  [yes |-> yes, no |-> IF yes # 0 /\ no = 0 THEN Dollar - yes ELSE no]

\* A price that is missing is a half.
PolyPrice(o) == IF o = Unpriced THEN [yes |-> Dollar \div 2, no |-> Dollar \div 2] ELSE o

-----------------------------------------------------------------------------
(* Pairs.                                                                    *)

Index(p) == CHOOSE i \in DOMAIN Polymarket : Polymarket[i] = p

\* The best of the markets that are left, the first listed of several.
Best(k, left) ==
    CHOOSE p \in left : \A q \in left :
        \/ Score[<<k, p>>] > Score[<<k, q>>]
        \/ Score[<<k, p>>] = Score[<<k, q>>] /\ Index(p) <= Index(q)

Taken(pairs) == {pair[2] : pair \in pairs}

\* What Kalshi market k finds itself alike enough among those that are left.
Candidates(pairs, k) == {p \in Ps \ Taken(pairs) : Score[<<k, p>>] >= Threshold}

\* match_markets: each Kalshi market in its turn takes the best that is left.
Served(pairs, k) ==
    IF Candidates(pairs, k) = {} THEN pairs
    ELSE pairs \cup {<<k, Best(k, Candidates(pairs, k))>>}

\* The pairs after the turns of the first n.
Turns[n \in 0 .. Len(Kalshi)] == IF n = 0 THEN {} ELSE Served(Turns[n - 1], Kalshi[n])

Matched == Turns[Len(Kalshi)]

-----------------------------------------------------------------------------
(* Opportunities.                                                            *)

\* In hundredths of a percent, rounded.
EdgeOf(total) == (20000 * (Dollar - total) + total) \div (2 * total)

\* Both ways to buy a pair that has prices.
Ways(k, p) ==
    LET kp == KalshiPrice(book'[k])
        pp == PolyPrice(outcome'[p])
    IN  {[k |-> k, p |-> p, yesOn |-> "kalshi", yes |-> kp.yes, no |-> pp.no],
         [k |-> k, p |-> p, yesOn |-> "polymarket", yes |-> pp.yes, no |-> kp.no]}

Pays(w) ==
    /\ w.yes > 0 /\ w.no > 0
    /\ w.yes + w.no < Dollar
    /\ EdgeOf(w.yes + w.no) >= MinEdge

\* detect_arbitrage: of every title the way with the largest edge.  (Of several such the
\* code keeps the first, by volume.)
Detected ==
    LET found == {w \in UNION {Ways(pair[1], pair[2]) : pair \in Matched} : Pays(w)}
        of(t) == {w \in found : Title[w.k] = t}
        best(t) == CHOOSE w \in of(t) : \A v \in of(t) :
                       EdgeOf(v.yes + v.no) <= EdgeOf(w.yes + w.no)
    IN  {best(Title[w.k]) : w \in found}

-----------------------------------------------------------------------------
Init ==
    /\ book \in [Ks -> Books] /\ outcome \in [Ps -> Outcomes]
    /\ opps = {}

\* A cycle on what is quoted now.  (Bound: the quotes of one market at a time differ from
\* those of the cycle before; Init has them all.)
Cycle ==
    /\ \/ \E k \in Ks, b \in Books : book' = [book EXCEPT ![k] = b] /\ UNCHANGED outcome
       \/ \E p \in Ps, o \in Outcomes : outcome' = [outcome EXCEPT ![p] = o] /\ UNCHANGED book
    /\ opps' = Detected

Next == Cycle

Spec == Init /\ [][Next]_vars

-----------------------------------------------------------------------------
(* What the quotes mean.                                                     *)

\* The middle of a side of the vendor's book, in half cents; of NO, if it is not quoted,
\* what YES leaves.
Middle(bid, ask) == IF 0 \in {bid, ask} THEN 2 * (bid + ask) ELSE bid + ask

Worth(b, side) ==
    LET yes == Middle(b.yesBid, b.yesAsk)
        no  == Middle(b.noBid, b.noAsk)
    IN  IF side = "yes" THEN yes ELSE IF no = 0 THEN Dollar - yes ELSE no

Cost(w) ==
    IF w.yesOn = "kalshi" THEN Worth(book[w.k], "yes") + outcome[w.p].no
    ELSE Worth(book[w.k], "no") + outcome[w.p].yes

\* "A risk-free edge exists when YES_price_A + NO_price_B < 1.00" (arbitrage_detector.py
\* 4-5): what is reported costs less than a dollar at the prices the vendors quote.
OpportunityPays == \A w \in opps : outcome[w.p] # Unpriced => Cost(w) < Dollar

QuotedAtACent(b) == 1 \in {b.yesBid, b.yesAsk, b.noBid, b.noAsk}

\* So it does unless it is quoted at a single cent, which ToDecimal takes for a dollar;
\* and nothing reported twice: no market stands in two opportunities, and no title.
QuotedOpportunityPays ==
    /\ \A w \in opps :
          outcome[w.p] # Unpriced /\ ~QuotedAtACent(book[w.k]) => Cost(w) < Dollar
    /\ \A v, w \in opps : v.p = w.p \/ v.k = w.k \/ Title[v.k] = Title[w.k] => v = w
=============================================================================
