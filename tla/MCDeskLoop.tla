----------------------------- MODULE MCDeskLoop -----------------------------
(* The desk's refresh loop on small instances: when it ticks (RefreshLoop)    *)
(* and what its ticks and the manual ones leave in the log (TickLog).  An     *)
(* execution is of one of them.                                              *)
EXTENDS RefreshLoop

CONSTANTS Tickers, Retention, MaxSec, MaxTicks, MaxCalls

VARIABLES logged, sec, begun, finished, reports, index, tmp, costs, totals, ticker, sound

logVars == <<sec, begun, finished, reports, index, tmp, costs, totals, ticker, sound>>

Log == INSTANCE TickLog WITH ended <- finished, tick <- ticker

ASSUME LogAssumption == Log!TickLogAssumption

LoopInit ==
    /\ Init /\ Log!Init
    /\ logged \in BOOLEAN
    /\ logged => now = 0 /\ ~control.enabled /\ control.hours = {}

LoopNext ==
    /\ \/ ~logged /\ Next /\ UNCHANGED logVars
       \/ logged /\ Log!Next /\ UNCHANGED vars
    /\ UNCHANGED logged

LoopSpec == LoopInit /\ [][LoopNext]_<<vars, logVars, logged>>

\* Of TickLog, where they are stated.
CostIsOfItsRun == Log!CostIsOfItsRun
ManifestHeals == Log!ManifestHeals
=============================================================================
