------------------------------ MODULE Pricing -------------------------------
(* The quotes a verdict is reached from, and the ones published beside it:    *)
(* what prediction markets ask (desk/ingest), the cached odds that join them  *)
(* when DESK_CROSS_VENUE_EDGE is on (oddsapi_prices.py), what acting on each  *)
(* costs (pricing/cost.py), and the venue that gets the badge "best" of a     *)
(* side (publish/market_prices.py).  Odds are counted in units of 1 / Unit,   *)
(* the commission in 1 / One; prices round down to the scale.                 *)
EXTENDS Verdict

CONSTANTS
    Books, Exchanges, Markets,   \* the venues of each VenueType
    Unit,                        \* decimal odds of 1
    Commission,                  \* DEFAULT_EXCHANGE_COMMISSION
    TakerFee                     \* _PREDICTION_MARKET_TAKER_FEE

PricingAssumption ==
    /\ One \in Nat \ {0} /\ Unit \in Nat \ {0}
    /\ Commission \in 0 .. One - 1
    /\ TakerFee \in [Markets -> Nat]

\* Cached PriceRows of the match (a later one of the same venue and side has replaced the
\* earlier), and the snapshot of the prediction markets.
IsRows(rows) ==
    /\ \A r \in rows : r.odds \in Nat
    /\ \A r, x \in rows : r.venue = x.venue /\ r.side = x.side => r = x
IsAsked(quotes) ==
    quotes \subseteq [venue : Markets, side : Sides, implied : 0 .. One, true : {NoTruePrice}]

-----------------------------------------------------------------------------
(* cost.py                                                                   *)

Clamp(x) == IF x > One THEN One ELSE x

SportsbookPrice(odds) == (One * Unit) \div odds

\* The commission is taken from the winnings: a unit pays 1 + (odds - 1) (1 - commission).
Return(odds) == Unit * One + (odds - Unit) * (One - Commission)
ExchangePrice(odds) == (One * Unit * One) \div Return(odds)

MarketPrice(venue, ask) == ask + TakerFee[venue]

-----------------------------------------------------------------------------
(* oddsapi_prices.py                                                         *)

\* Rows of no known venue or side, or at odds that win nothing, are dropped.
Usable(r) == r.venue \in Books \cup Exchanges /\ r.side \in Sides /\ r.odds > Unit

Quoted(r) ==
    [venue |-> r.venue, side |-> r.side, implied |-> (One * Unit) \div r.odds,
     true  |-> Clamp(IF r.venue \in Books THEN SportsbookPrice(r.odds) ELSE ExchangePrice(r.odds))]

\* A market that prices every side has its fee added; one that does not is left as it was.
Complete(quotes, venue) == \A s \in Sides : \E q \in quotes : q.venue = venue /\ q.side = s
Enriched(quotes, q) ==
    IF Complete(quotes, q.venue) THEN [q EXCEPT !.true = Clamp(MarketPrice(q.venue, q.implied))]
    ELSE q

\* merge_oddsapi_into_snapshot: nothing is done to a snapshot no odds are cached for.
Merged(quotes, rows) ==
    IF rows = {} THEN quotes
    ELSE {Enriched(quotes, q) : q \in quotes} \cup {Quoted(r) : r \in {x \in rows : Usable(x)}}

-----------------------------------------------------------------------------
(* market_prices.py                                                          *)

Priced(quotes, s) == {q \in Of(quotes, s) : q.true # NoTruePrice}

\* The cheapest of those that have a true price, whatever the others ask.
Badge(quotes, s) ==
    IF Priced(quotes, s) # {}
    THEN CHOOSE q \in Priced(quotes, s) : \A r \in Priced(quotes, s) : q.true <= r.true
    ELSE BestFor(quotes, s)
=============================================================================
