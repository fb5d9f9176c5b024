----------------------------- MODULE MCDelivery -----------------------------
(* What leaves the server, on small instances: bodies to MTA (Distribute),    *)
(* boards to browsers (Market), and the opportunities on a board (Arbitrage). *)
(* The three share nothing: an execution is of one of them.                   *)
EXTENDS DistributeMailbox, TLC

CONSTANTS
    Browsers, Every, Room,
    KalshiMarkets, PolyMarkets, Titles, Alike, AlikeEnough, LeastEdge, Quotes, Prices

VARIABLES part, sched, board, held, live, conn, heard, sending, dead, book, outcome, opps

feedVars == <<sched, board, held, live, conn, heard, sending, dead>>
arbVars == <<book, outcome, opps>>

Feed == INSTANCE Market WITH
    Clients <- Browsers, SaveEvery <- Every, MaxClients <- Room, queue <- sending

Arb == INSTANCE Arbitrage WITH
    Kalshi <- KalshiMarkets, Polymarket <- PolyMarkets, Title <- Titles, Score <- Alike,
    Threshold <- AlikeEnough, MinEdge <- LeastEdge, Books <- Quotes, Outcomes <- Prices

-----------------------------------------------------------------------------
(* Values.                                                                    *)

MCShortSchedule == <<1>>

\* Three Kalshi markets, two of one title, against two of Polymarket: the second is more
\* like p than the first, which is served before it.
MCKalshi == <<"k1", "k2", "k3">>
MCPolymarket == <<"p", "q">>
MCTitles == "k1" :> "will it rain" @@ "k2" :> "will it snow" @@ "k3" :> "will it rain"

MCAlike ==
    (<<"k1", "p">> :> 3) @@ (<<"k2", "p">> :> 4) @@ (<<"k3", "p">> :> 3)
      @@ (<<"k1", "q">> :> 1) @@ (<<"k2", "q">> :> 2) @@ (<<"k3", "q">> :> 2)

Quote(yesBid, yesAsk, noBid, noAsk) ==
    [yesBid |-> yesBid, yesAsk |-> yesAsk, noBid |-> noBid, noAsk |-> noAsk]

\* All four; nobody bids; the middle is half a cent; a long shot; one that nobody quotes.
MCQuotes ==
    {Quote(30, 32, 68, 70), Quote(0, 32, 0, 0), Quote(60, 63, 0, 0), Quote(1, 2, 0, 0),
     Quote(0, 0, 0, 0)}

MCPrices == {[yes |-> 50, no |-> 150], [yes |-> 120, no |-> 60], [yes |-> -1, no |-> -1]}

-----------------------------------------------------------------------------
ASSUME DeliveryAssumption == Feed!MarketAssumption /\ Arb!ArbitrageAssumption

DeliveryInit ==
    /\ Init /\ Feed!Init
    /\ part \in {"outbox", "feed", "arbitrage"}
    /\ IF part = "arbitrage" THEN Arb!Init
       ELSE book = <<>> /\ outcome = <<>> /\ opps = {}

DeliveryNext ==
    /\ \/ part = "outbox" /\ Next /\ UNCHANGED <<feedVars, arbVars>>
       \/ part = "feed" /\ Feed!Next /\ UNCHANGED <<vars, arbVars>>
       \/ part = "arbitrage" /\ Arb!Next /\ UNCHANGED <<vars, feedVars>>
    /\ UNCHANGED part

\* The fairness of the feed, where it is what runs.
DeliverySpec ==
    /\ DeliveryInit
    /\ [][DeliveryNext]_<<vars, feedVars, arbVars, part>>
    /\ WF_feedVars(part = "feed" /\ Feed!Cycle)

\* Of Market and Arbitrage, where they are stated.
ClientsAreCurrent == Feed!ClientsAreCurrent
FeedMovesOn == part = "feed" => Feed!FeedMovesOn
QuotedOpportunityPays == Arb!QuotedOpportunityPays
OpportunityPays == Arb!OpportunityPays
=============================================================================
