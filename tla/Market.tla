------------------------------- MODULE Market -------------------------------
(* The live feed (scheduler.py, and /ws/live in server.py): a scheduler that  *)
(* fetches both platforms, derives a board from what they answered, writes    *)
(* every SaveEvery-th board to SQLite and sends each finished one to the      *)
(* browsers that are connected.  One event loop runs it all, and may run      *)
(* something else wherever the scheduler or a socket awaits: the board is     *)
(* assigned in two halves with the store in between.                          *)
(*                                                                            *)
(* A half of a board is as old as its cycle: of the cycle begun last ("new"), *)
(* of one before ("old"), or of none.  What fails to be fetched is an empty   *)
(* list, like what is not there.                                              *)
EXTENDS Naturals, FiniteSets

CONSTANTS
    Clients,     \* browsers
    SaveEvery,   \* MOVERS_SNAPSHOT_INTERVAL_SEC // FETCH_INTERVAL_SEC
    MaxClients   \* MAX_WS_PER_ROUTE

MarketAssumption == SaveEvery \in Nat \ {0} /\ MaxClients \in Nat

VARIABLES
    sched,   \* Scheduler.run: where it is, _tick, whether the last cycle got to its end
    board,   \* what the endpoints read: markets and arbitrage, movers, stats
    held,    \* whether all_markets and _prev_markets hold any
    live,    \* _live_clients
    conn,    \* the sockets
    heard,   \* per browser: the last message it was sent
    queue,   \* the broadcast: clients of the copied list still to be sent to
    dead     \* and those whose send raised

vars == <<sched, board, held, live, conn, heard, queue, dead>>

-----------------------------------------------------------------------------
Age == {"none", "old", "new"}
Board == [markets : Age, h24 : {"none", "tick", "window"}, h1 : {"none", "tick", "window"},
          stats : Age]
Blank == [markets |-> "none", h24 |-> "none", h1 |-> "none", stats |-> "none"]

TypeOK ==
    /\ sched \in [pc : {"fetch", "save", "day", "hour", "send", "sleep"},
                  tick : 0 .. SaveEvery - 1, done : BOOLEAN]
    /\ board \in Board
    /\ held \in [all : BOOLEAN, prev : BOOLEAN]
    /\ live \subseteq Clients
    /\ conn \in [Clients -> {"out", "knocking", "in", "gone"}]
    /\ heard \in [Clients -> Board]
    /\ queue \subseteq Clients /\ dead \subseteq Clients

Older(age) == IF age = "new" THEN "old" ELSE age
Aged(b) == [b EXCEPT !.markets = Older(@), !.stats = Older(@)]

Persists(tick) == tick % SaveEvery = 0

Ended_CountsDone(done) ==
    [pc |-> "sleep", tick |-> IF done THEN (sched.tick + 1) % SaveEvery ELSE sched.tick,
     done |-> done]

\* The end of a cycle, with or without an exception: run() counts it and sleeps.
Ended(done) ==
    [pc |-> "sleep", tick |-> (sched.tick + 1) % SaveEvery, done |-> done]

\* The second half of the board, and the list of clients the broadcast goes through.
Publish(b) ==
    /\ board' = [b EXCEPT !.stats = "new"]
    /\ queue' = live
    /\ dead' = {}

-----------------------------------------------------------------------------
Init ==
    /\ sched = [pc |-> "fetch", tick |-> 0, done |-> FALSE]
    /\ board = Blank
    /\ held = [all |-> FALSE, prev |-> FALSE]
    /\ live = {}
    /\ conn = [c \in Clients |-> "out"]
    /\ heard = [c \in Clients |-> Blank]
    /\ queue = {} /\ dead = {}

\* Both fetches are over, with markets or without: the first half, and unless this cycle
\* is saved, the second.
Process(full) ==
    LET moved == IF held.prev THEN [Aged(board) EXCEPT !.h24 = "tick", !.h1 = "tick"]
                 ELSE Aged(board)
        first == [moved EXCEPT !.markets = "new"]
    IN  /\ sched.pc = "fetch"
        /\ heard' = [c \in Clients |-> Aged(heard[c])]
        /\ IF Persists(sched.tick)
           THEN /\ sched' = [sched EXCEPT !.pc = "save"]
                /\ board' = first
                /\ held' = [held EXCEPT !.all = full]
                /\ UNCHANGED <<queue, dead>>
           ELSE /\ sched' = [sched EXCEPT !.pc = "send"]
                /\ held' = [all |-> full, prev |-> full]
                /\ Publish(first)
        /\ UNCHANGED <<live, conn>>

\* save_snapshots: nothing to write without markets; a failure ends the cycle.
Save(ok) ==
    /\ sched.pc = "save"
    /\ ~ok => held.all
    /\ sched' = IF ok THEN [sched EXCEPT !.pc = "day"] ELSE Ended(FALSE)
    /\ UNCHANGED <<board, held, live, conn, heard, queue, dead>>

\* get_movers, of 24 hours and of one: a failure is no movers, and those there were stay.
DayMovers(any) ==
    /\ sched.pc = "day"
    /\ board' = IF any THEN [board EXCEPT !.h24 = "window"] ELSE board
    /\ sched' = [sched EXCEPT !.pc = "hour"]
    /\ UNCHANGED <<held, live, conn, heard, queue, dead>>

HourMovers(any) ==
    /\ sched.pc = "hour"
    /\ Publish(IF any THEN [board EXCEPT !.h1 = "window"] ELSE board)
    /\ held' = [held EXCEPT !.prev = held.all]
    /\ sched' = [sched EXCEPT !.pc = "send"]
    /\ UNCHANGED <<live, conn, heard>>

Send_Unguarded(c) ==
    /\ sched.pc = "send" /\ c \in queue
    /\ IF conn[c] = "in"
       THEN heard' = [heard EXCEPT ![c] = board] /\ queue' = queue \ {c} /\ dead' = dead
       ELSE heard' = heard /\ queue' = {} /\ dead' = dead \cup {c}
    /\ UNCHANGED <<sched, board, held, live, conn>>

\* One send of the broadcast; to a socket that is closed it raises, to one whose browser
\* is gone unnoticed it may or may not.
Send(c) ==
    /\ sched.pc = "send" /\ c \in queue
    /\ queue' = queue \ {c}
    /\ IF conn[c] = "in"
       THEN heard' = [heard EXCEPT ![c] = board] /\ dead' = dead
       ELSE heard' = heard /\ (dead' = dead \cup {c} \/ (conn[c] = "gone" /\ dead' = dead))
    /\ UNCHANGED <<sched, board, held, live, conn>>

Sent ==
    /\ sched.pc = "send" /\ queue = {}
    /\ live' = live \ dead
    /\ dead' = {}
    /\ sched' = Ended(TRUE)
    /\ UNCHANGED <<board, held, conn, heard, queue>>

Wake ==
    /\ sched.pc = "sleep"
    /\ sched' = [sched EXCEPT !.pc = "fetch"]
    /\ UNCHANGED <<board, held, live, conn, heard, queue, dead>>

-----------------------------------------------------------------------------
(* /ws/live.                                                                 *)

\* _ws_admit up to its await: the room is looked at before the handshake.  What the
\* broadcast still holds of c is its last socket: this is a new one.
Knock(c) ==
    /\ conn[c] = "out" /\ c \notin queue \cup dead
    /\ Cardinality(live) < MaxClients
    /\ conn' = [conn EXCEPT ![c] = "knocking"]
    /\ UNCHANGED <<sched, board, held, live, heard, queue, dead>>

\* Once there has been a board a browser is greeted with the board as it is, which may be
\* half of a cycle.
Greeting == IF board.stats = "none" THEN Blank ELSE board

Accept(c) ==
    /\ conn[c] = "knocking"
    /\ conn' = [conn EXCEPT ![c] = "in"]
    /\ live' = live \cup {c}
    /\ heard' = [heard EXCEPT ![c] = Greeting]
    /\ UNCHANGED <<sched, board, held, queue, dead>>

\* A browser goes; only when its handler notices does it leave the set.
Leave(c) ==
    /\ conn[c] \in {"knocking", "in"}
    /\ conn' = [conn EXCEPT ![c] = IF @ = "in" THEN "gone" ELSE "out"]
    /\ heard' = [heard EXCEPT ![c] = Blank]
    /\ UNCHANGED <<sched, board, held, live, queue, dead>>

Notice(c) ==
    /\ conn[c] = "gone"
    /\ conn' = [conn EXCEPT ![c] = "out"]
    /\ live' = live \ {c}
    /\ UNCHANGED <<sched, board, held, heard, queue, dead>>

-----------------------------------------------------------------------------
Cycle ==
    \/ \E full \in BOOLEAN : Process(full)
    \/ \E ok \in BOOLEAN : Save(ok)
    \/ \E any \in BOOLEAN : DayMovers(any)
    \/ \E any \in BOOLEAN : HourMovers(any)
    \/ \E c \in Clients : Send(c)
    \/ Sent
    \/ Wake

Next ==
    \/ Cycle
    \/ \E c \in Clients : Knock(c) \/ Accept(c) \/ Leave(c) \/ Notice(c)

\* The scheduler keeps running: a fetch has a timeout, a send ends or raises.  Nothing is
\* assumed of the store, of the platforms or of the browsers.
Fairness == WF_vars(Cycle)

Spec == Init /\ [][Next]_vars /\ Fairness

-----------------------------------------------------------------------------
(* Properties *)

\* "broadcasts updates to connected WebSocket clients" (scheduler.py:1-5): whenever the
\* scheduler sleeps after a cycle that got to its end, the board is of that cycle in both
\* halves, and it is the last thing every connected browser was sent, be it that it
\* connected in the middle of the cycle or that another one went away meanwhile.
ClientsAreCurrent ==
    sched.pc = "sleep" /\ sched.done =>
        /\ board.markets = "new" /\ board.stats = "new"
        /\ \A c \in Clients : conn[c] = "in" => c \in live /\ heard[c] = board

\* A store that fails, be it for ever, costs the cycles that are saved and no others: the
\* feed always moves on.
FeedMovesOn == SaveEvery > 1 => []<>(sched.pc = "sleep" /\ sched.done)
=============================================================================
