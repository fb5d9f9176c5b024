------------------------------- MODULE Ledger ------------------------------
(* The ledger of a Polymarket wallet (ledger/service.py, db.py, router.py,   *)
(* refresh_loop.py). A refresh fetches the wallet's positions, its value and *)
(* its activity, and writes them down in five transactions: nothing holds    *)
(* two refreshes apart, nothing undoes the transactions before a failure.    *)
(* Wallets share nothing but the loop: this is one of them.                  *)
EXTENDS Integers, FiniteSets, FiniteSetsExt

CONSTANTS
    Assets,        \* what the wallet may hold
    PageLimit,     \* the rows /positions answers at most
    Visitors,      \* page views and refresh buttons under way; each an address
    Interval,      \* REFRESH_INTERVAL_SEC, and REFRESH_AGE_SEC before it
    MaxAge,
    ViewWindow,    \* RECENT_VIEW_HOURS
    GateInterval,  \* REFRESH_MIN_INTERVAL_SEC
    GateKeep,      \* the intervals a sweep of the gate keeps: 10
    GateCap,       \* the entries beyond which the gate is swept
    Late, Work,    \* bounds: units a sleep overruns, units a refresh takes
    MaxTime, MaxTrades, MaxFailures, MaxStarts   \* bounds

ASSUME LedgerAssumption ==
    /\ IsFiniteSet(Assets) /\ IsFiniteSet(Visitors) /\ "loop" \notin Visitors
    /\ {Interval, ViewWindow, GateInterval, GateKeep} \subseteq Nat \ {0}
    /\ {PageLimit, MaxAge, GateCap, Late, Work} \subseteq Nat
    /\ {MaxTime, MaxTrades, MaxFailures, MaxStarts} \subseteq Nat

VARIABLES
    now,
    held,        \* Polymarket's side: the assets the wallet holds
    wallet,      \* the row of wallets: last_viewed_at, last_refreshed_at
    snapshot,    \* the assets in the latest row of snapshots, and whether there is one
    position,    \* the row of each asset in positions
    task,        \* the refreshes: where each is, what it fetched
    wake,        \* when the loop looks again
    gate,        \* _last_refresh: when each address was let through last
    trades, failures, starts,
    \* Observed, for the properties only:
    crossing,    \* what was fetched since refreshes last stood still: all of it, and
                 \* what every refresh got; whether one of them went through
    visited,     \* when a visitor last asked for the wallet
    wasSeen,     \* a visitor has asked for the wallet, and nothing failed since
    letIn        \* when each address was let through last

vars == <<now, held, wallet, snapshot, position, task, wake, gate, trades, failures, starts,
          crossing, visited, wasSeen, letIn>>

-----------------------------------------------------------------------------
Tasks == Visitors \cup {"loop"}
Never == -1
Time == 0 .. MaxTime

\* The steps of refresh_wallet, and idle.
Steps == {"idle", "positions", "wallet", "snapshot", "upsert", "close", "mark"}

Idle == [pc |-> "idle", got |-> {}, since |-> 0]
Quiet == [any |-> {}, all |-> Assets, through |-> FALSE]

Busy == {t \in Tasks : task[t].pc # "idle"}
Known == wallet.viewed # Never

TypeOK ==
    /\ now \in Time /\ held \subseteq Assets
    /\ wallet \in [viewed : Time \cup {Never}, refreshed : Time \cup {Never}]
    /\ snapshot \in [exists : BOOLEAN, assets : SUBSET Assets]
    /\ position \in [Assets -> {"none", "open", "closed"}]
    /\ task \in [Tasks -> [pc : Steps, got : SUBSET Assets, since : Time]]
    /\ gate \in [Visitors -> Time \cup {Never}]
    /\ crossing \in [any : SUBSET Assets, all : SUBSET Assets, through : BOOLEAN]

Init ==
    /\ now = 0 /\ held \in SUBSET Assets
    /\ wallet = [viewed |-> Never, refreshed |-> Never]
    /\ snapshot = [exists |-> FALSE, assets |-> {}]
    /\ position = [a \in Assets |-> "none"]
    /\ task = [t \in Tasks |-> Idle]
    /\ wake = 0
    /\ gate = [v \in Visitors |-> Never]
    /\ trades = 0 /\ failures = 0 /\ starts = 0
    /\ crossing = Quiet /\ visited = Never /\ wasSeen = FALSE /\ letIn = gate

-----------------------------------------------------------------------------
(* What the transactions write.                                              *)

\* upsert_wallet(viewed=True)
Viewed(t) == [wallet EXCEPT !.viewed = now]

\* upsert_positions: a row in any state becomes open.
Upserted(got) == [a \in Assets |-> IF a \in got THEN "open" ELSE position[a]]

\* Faulty: an empty answer closes nothing, for there is nothing to exclude.
Closed_NotEmpty(got) ==
    [a \in Assets |-> IF position[a] = "open" /\ got # {} /\ a \notin got
                      THEN "closed" ELSE position[a]]

\* close_missing_positions
Closed(got) ==
    [a \in Assets |-> IF position[a] = "open" /\ a \notin got THEN "closed" ELSE position[a]]

\* Faulty: the sweep also drops the entries that still hold an address back.
Swept_All(g) ==
    IF Cardinality({v \in Visitors : g[v] # Never}) > GateCap
    THEN [v \in Visitors |-> IF g[v] < now THEN Never ELSE g[v]] ELSE g

\* _refresh_gate, once it has let a request through: a gate with too many entries loses
\* those GateKeep intervals old.
Swept(g) ==
    IF Cardinality({v \in Visitors : g[v] # Never}) > GateCap
    THEN [v \in Visitors |-> IF g[v] < now - GateKeep * GateInterval THEN Never ELSE g[v]] ELSE g

\* is_stale
Stale == wallet.refreshed = Never \/ now - wallet.refreshed > MaxAge

-----------------------------------------------------------------------------
(* Who refreshes.                                                            *)

Start(t) ==
    /\ task' = [task EXCEPT ![t] = [pc |-> "positions", got |-> {}, since |-> now]]
    /\ crossing' = IF Busy = {} THEN Quiet ELSE crossing

\* GET /wallet/{address}: a known wallet counts as viewed, and a stale one is refreshed.
ViewWallet(v) ==
    /\ task[v].pc = "idle" /\ starts < MaxStarts
    /\ starts' = starts + 1
    /\ wallet' = IF Known THEN Viewed(v) ELSE wallet
    /\ visited' = now /\ wasSeen' = (Known \/ wasSeen)
    /\ IF ~snapshot.exists \/ Stale THEN Start(v) ELSE UNCHANGED <<task, crossing>>
    /\ UNCHANGED <<now, held, snapshot, position, wake, gate, trades, failures, letIn>>

\* POST /wallet/refresh, let through by _refresh_gate (or answered 429).
PostRefresh(v) ==
    /\ task[v].pc = "idle" /\ starts < MaxStarts
    /\ gate[v] = Never \/ now - gate[v] >= GateInterval
    /\ starts' = starts + 1
    /\ gate' = Swept([gate EXCEPT ![v] = now])
    /\ letIn' = [letIn EXCEPT ![v] = now]
    /\ visited' = now
    /\ Start(v)
    /\ UNCHANGED <<now, held, wallet, snapshot, position, wake, trades, failures, wasSeen>>

\* run_refresh_loop: the wallets viewed within the window, each of its ticks.
LoopTick ==
    /\ task["loop"].pc = "idle" /\ now >= wake
    /\ IF Known /\ wallet.viewed >= now - ViewWindow
       THEN Start("loop") /\ UNCHANGED wake
       ELSE wake' = now + Interval /\ UNCHANGED <<task, crossing>>
    /\ UNCHANGED <<now, held, wallet, snapshot, position, gate, trades, failures, starts,
                   visited, wasSeen, letIn>>

-----------------------------------------------------------------------------
(* refresh_wallet.                                                           *)

Advance(t, pc) == task' = [task EXCEPT ![t].pc = pc]

Settle(t) ==
    /\ task' = [task EXCEPT ![t] = Idle]
    /\ wake' = IF t = "loop" THEN now + Interval ELSE wake

\* client.positions: at most PageLimit of them. client.value and client.activity follow,
\* maybe of another moment.
FetchPositions(t) ==
    /\ task[t].pc = "positions"
    /\ \E got \in kSubset(Min({Cardinality(held), PageLimit}), held) :
         /\ task' = [task EXCEPT ![t] = [@ EXCEPT !.pc = "wallet", !.got = got]]
         /\ crossing' = [crossing EXCEPT !.any = @ \cup got, !.all = @ \cap got]
    /\ UNCHANGED <<now, held, wallet, snapshot, position, wake, gate, trades, failures,
                   starts, visited, wasSeen, letIn>>

UpsertWallet(t) ==
    /\ task[t].pc = "wallet" /\ Advance(t, "snapshot")
    /\ wallet' = Viewed(t)
    /\ wasSeen' = (wasSeen \/ t \in Visitors)
    /\ UNCHANGED <<now, held, snapshot, position, wake, gate, trades, failures, starts,
                   crossing, visited, letIn>>

InsertSnapshot(t) ==
    /\ task[t].pc = "snapshot" /\ Advance(t, "upsert")
    /\ snapshot' = [exists |-> TRUE, assets |-> task[t].got]
    /\ UNCHANGED <<now, held, wallet, position, wake, gate, trades, failures, starts,
                   crossing, visited, wasSeen, letIn>>

UpsertPositions(t) ==
    /\ task[t].pc = "upsert" /\ Advance(t, "close")
    /\ position' = Upserted(task[t].got)
    /\ UNCHANGED <<now, held, wallet, snapshot, wake, gate, trades, failures, starts,
                   crossing, visited, wasSeen, letIn>>

CloseMissing(t) ==
    /\ task[t].pc = "close" /\ Advance(t, "mark")
    /\ position' = Closed(task[t].got)
    /\ UNCHANGED <<now, held, wallet, snapshot, wake, gate, trades, failures, starts,
                   crossing, visited, wasSeen, letIn>>

MarkRefreshed(t) ==
    /\ task[t].pc = "mark" /\ Settle(t)
    /\ wallet' = [wallet EXCEPT !.refreshed = now]
    /\ crossing' = [crossing EXCEPT !.through = TRUE]
    /\ UNCHANGED <<now, held, snapshot, position, gate, trades, failures, starts, visited,
                   wasSeen, letIn>>

\* Polymarket or the database fails. A route answers 502 or the old view, the loop goes
\* on to the next wallet, and what was written stays.
Fail(t) ==
    /\ task[t].pc # "idle" /\ failures < MaxFailures
    /\ failures' = failures + 1
    /\ Settle(t)
    /\ wasSeen' = FALSE
    /\ UNCHANGED <<now, held, wallet, snapshot, position, gate, trades, starts, crossing,
                   visited, letIn>>

-----------------------------------------------------------------------------
\* The wallet trades or redeems.
Trade ==
    /\ trades < MaxTrades
    /\ trades' = trades + 1
    /\ held' \in (SUBSET Assets) \ {held}
    /\ UNCHANGED <<now, wallet, snapshot, position, task, wake, gate, failures, starts,
                   crossing, visited, wasSeen, letIn>>

\* A deploy ends the refreshes and empties the gate.
Deploy ==
    /\ failures < MaxFailures
    /\ failures' = failures + 1
    /\ task' = [t \in Tasks |-> Idle]
    /\ wake' = now
    /\ gate' = [v \in Visitors |-> Never] /\ letIn' = gate'
    /\ wasSeen' = FALSE
    /\ UNCHANGED <<now, held, wallet, snapshot, position, trades, starts, crossing,
                   visited>>

Pass ==
    /\ now < MaxTime
    /\ task["loop"].pc = "idle" => now < wake + Late
    /\ \A t \in Busy : now < task[t].since + Work
    /\ now' = now + 1
    /\ UNCHANGED <<held, wallet, snapshot, position, task, wake, gate, trades, failures,
                   starts, crossing, visited, wasSeen, letIn>>

\* The bound of the clock.
Horizon == now = MaxTime /\ Busy = {} /\ UNCHANGED vars

Next ==
    \/ \E v \in Visitors : ViewWallet(v) \/ PostRefresh(v)
    \/ LoopTick
    \/ \E t \in Tasks :
         \/ FetchPositions(t) \/ UpsertWallet(t) \/ InsertSnapshot(t)
         \/ UpsertPositions(t) \/ CloseMissing(t) \/ MarkRefreshed(t) \/ Fail(t)
    \/ Trade \/ Deploy \/ Pass \/ Horizon

Spec == Init /\ [][Next]_vars

-----------------------------------------------------------------------------
Open == {a \in Assets : position[a] = "open"}

\* "closes positions that have disappeared from the API response": once refreshes that
\* crossed stand still and one of them went through, a position all of them were answered
\* is open, and an open one was answered to one of them, whatever failed on the way. An
\* older answer may still win over a newer one.
RefreshesAgree ==
    Busy = {} /\ crossing.through =>
        /\ crossing.all \subseteq Open /\ Open \subseteq crossing.any
        /\ snapshot.exists /\ crossing.all \subseteq snapshot.assets
        /\ snapshot.assets \subseteq crossing.any

\* "a tight per-(IP, address) throttle": the sweep that bounds the gate forgets nobody it
\* still has to hold back.
GateRemembers ==
    \A v \in Visitors :
        letIn[v] # Never /\ now - letIn[v] < GateInterval => gate[v] = letIn[v]

\* "Refreshes every wallet viewed in the last 24h": what the loop refreshes was asked for
\* by a visitor within the window, and the time the visitor's own refresh took. The code
\* does otherwise: a refresh of the loop counts as a view.
LoopRefreshesTheViewed ==
    task["loop"].pc # "idle" =>
        visited # Never /\ task["loop"].since <= visited + Work + ViewWindow

\* What it does: while the loop runs and nothing fails, a wallet that a visitor asked for
\* once never leaves the set the loop refreshes.
ViewedForEver ==
    wasSeen => now - wallet.viewed <= Interval + 2 * (Late + Work)
=============================================================================
