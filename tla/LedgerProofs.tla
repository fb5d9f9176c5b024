---------------------------- MODULE LedgerProofs ---------------------------
(* What the ledger of a wallet promises, for any assets, visitors, intervals *)
(* and bounds.                                                               *)
EXTENDS Ledger, TLAPS

Task == [pc : Steps, got : SUBSET Assets, since : Time]

\* TypeOK, and the types of what it leaves out.
Typed ==
    /\ now \in Time /\ held \subseteq Assets /\ wake \in Nat
    /\ wallet \in [viewed : Time \cup {Never}, refreshed : Time \cup {Never}]
    /\ snapshot \in [exists : BOOLEAN, assets : SUBSET Assets]
    /\ position \in [Assets -> {"none", "open", "closed"}]
    /\ task \in [Tasks -> Task]
    /\ gate \in [Visitors -> Time \cup {Never}] /\ letIn \in [Visitors -> Time \cup {Never}]
    /\ crossing \in [any : SUBSET Assets, all : SUBSET Assets, through : BOOLEAN]
    /\ wasSeen \in BOOLEAN

LEMMA TypedIsTypeOK == Typed => TypeOK
  BY DEF Typed, TypeOK, Task

LEMMA Basics ==
    /\ Time \subseteq Nat /\ 0 \in Time
    /\ Interval \in Nat \ {0} /\ GateInterval \in Nat \ {0} /\ ViewWindow \in Nat
    /\ GateKeep \in Nat \ {0} /\ Late \in Nat /\ Work \in Nat /\ MaxTime \in Nat
    /\ "loop" \notin Visitors /\ "loop" \in Tasks /\ Visitors \subseteq Tasks
  BY LedgerAssumption DEF Time, Tasks

LEMMA IdleTask == Idle \in Task /\ Idle.pc = "idle"
  BY Basics DEF Idle, Task, Steps

LEMMA TaskFields ==
    ASSUME Typed, NEW t \in Tasks
    PROVE  /\ task[t] \in Task /\ task[t].pc \in Steps /\ task[t].got \subseteq Assets
           /\ task[t].since \in Time
  BY DEF Typed, Task

-----------------------------------------------------------------------------
(* How the steps move a refresh.                                             *)

LEMMA TaskUpdate ==
    ASSUME Typed, NEW t \in Tasks, NEW g \in Task, task' = [task EXCEPT ![t] = g]
    PROVE  /\ task' \in [Tasks -> Task] /\ task'[t] = g
           /\ \A u \in Tasks \ {t} : task'[u] = task[u]
  BY DEF Typed

Moved(t, pc) ==
    /\ task' \in [Tasks -> Task]
    /\ task'[t].pc = pc /\ task'[t].got = task[t].got /\ task'[t].since = task[t].since
    /\ \A u \in Tasks \ {t} : task'[u] = task[u]

LEMMA AdvanceMoves ==
    ASSUME Typed, NEW t \in Tasks, NEW pc \in Steps, Advance(t, pc)
    PROVE  Moved(t, pc)
  <1> DEFINE g == [task[t] EXCEPT !.pc = pc]
  <1>1. g \in Task /\ g.pc = pc /\ g.got = task[t].got /\ g.since = task[t].since
    BY TaskFields DEF Task
  <1>2. task' = [task EXCEPT ![t] = g]
    BY DEF Advance
  <1> HIDE DEF g
  <1> QED
    BY <1>1, <1>2, TaskUpdate DEF Moved

Begun(t) ==
    /\ task' \in [Tasks -> Task]
    /\ task'[t].pc = "positions" /\ task'[t].since = now
    /\ \A u \in Tasks \ {t} : task'[u] = task[u]

LEMMA StartMoves ==
    ASSUME Typed, NEW t \in Tasks, Start(t)
    PROVE  Begun(t)
  <1> DEFINE g == [pc |-> "positions", got |-> {}, since |-> now]
  <1>1. g \in Task /\ g.pc = "positions" /\ g.since = now
    BY DEF Typed, Task, Steps
  <1>2. task' = [task EXCEPT ![t] = g]
    BY DEF Start
  <1> HIDE DEF g
  <1> QED
    BY <1>1, <1>2, TaskUpdate DEF Begun

Ended(t) ==
    /\ task' \in [Tasks -> Task]
    /\ task'[t] = Idle
    /\ \A u \in Tasks \ {t} : task'[u] = task[u]

LEMMA SettleMoves ==
    ASSUME Typed, NEW t \in Tasks, Settle(t)
    PROVE  Ended(t)
  BY IdleTask, TaskUpdate DEF Settle, Ended

Answered(t, got) ==
    /\ task' \in [Tasks -> Task] /\ got \subseteq Assets
    /\ task'[t].pc = "wallet" /\ task'[t].got = got /\ task'[t].since = task[t].since
    /\ \A u \in Tasks \ {t} : task'[u] = task[u]
    /\ crossing' = [crossing EXCEPT !.any = crossing.any \cup got, !.all = crossing.all \cap got]

LEMMA FetchMoves ==
    ASSUME Typed, NEW t \in Tasks, FetchPositions(t)
    PROVE  \E got \in SUBSET Assets : Answered(t, got)
  <1>1. PICK got \in SUBSET held :
          /\ task' = [task EXCEPT ![t] = [task[t] EXCEPT !.pc = "wallet", !.got = got]]
          /\ crossing' = [crossing EXCEPT !.any = crossing.any \cup got, !.all = crossing.all \cap got]
    BY DEF FetchPositions, kSubset
  <1> DEFINE g == [task[t] EXCEPT !.pc = "wallet", !.got = got]
  <1>2. got \subseteq Assets
    BY DEF Typed
  <1>3. g \in Task /\ g.pc = "wallet" /\ g.got = got /\ g.since = task[t].since
    BY <1>2, TaskFields DEF Task, Steps
  <1>4. task' = [task EXCEPT ![t] = g]
    BY <1>1
  <1> HIDE DEF g
  <1> QED
    BY <1>1, <1>2, <1>3, <1>4, TaskUpdate DEF Answered

-----------------------------------------------------------------------------
(* Type correctness.                                                         *)

LEMMA TypedInit == Init => Typed
  <1> SUFFICES ASSUME Init PROVE Typed
    OBVIOUS
  <1>1. Never \in Time \cup {Never} /\ Quiet \in [any : SUBSET Assets, all : SUBSET Assets, through : BOOLEAN]
    BY DEF Quiet
  <1>2. task \in [Tasks -> Task]
    BY IdleTask DEF Init
  <1> QED
    BY <1>1, <1>2, Basics DEF Init, Typed

LEMMA WritesAreTyped ==
    ASSUME Typed
    PROVE  /\ \A t \in Tasks :
                Viewed(t) \in [viewed : Time \cup {Never}, refreshed : Time \cup {Never}]
           /\ \A got \in SUBSET Assets : /\ Upserted(got) \in [Assets -> {"none", "open", "closed"}]
                                         /\ Closed(got) \in [Assets -> {"none", "open", "closed"}]
           /\ \A g \in [Visitors -> Time \cup {Never}] : Swept(g) \in [Visitors -> Time \cup {Never}]
  BY DEF Typed, Viewed, Upserted, Closed, Swept

LEMMA StartCrossing ==
    ASSUME Typed, NEW t \in Tasks, Start(t)
    PROVE  crossing' \in [any : SUBSET Assets, all : SUBSET Assets, through : BOOLEAN]
  BY DEF Start, Typed, Quiet

LEMMA TypedStep == Typed /\ [Next]_vars => Typed'
  <1> SUFFICES ASSUME Typed, [Next]_vars PROVE Typed'
    OBVIOUS
  <1>1. ASSUME NEW v \in Visitors, ViewWallet(v)
        PROVE  Typed'
    <2>1. task' \in [Tasks -> Task] /\ crossing' \in [any : SUBSET Assets, all : SUBSET Assets, through : BOOLEAN]
      BY <1>1, Basics, StartMoves, StartCrossing DEF ViewWallet, Begun, Typed
    <2>2. wallet' \in [viewed : Time \cup {Never}, refreshed : Time \cup {Never}]
      BY <1>1, Basics, WritesAreTyped DEF ViewWallet, Typed
    <2>3. wasSeen' \in BOOLEAN
      BY <1>1 DEF ViewWallet, Known, Typed
    <2> QED
      BY <1>1, <2>1, <2>2, <2>3 DEF ViewWallet, Typed
  <1>2. ASSUME NEW v \in Visitors, PostRefresh(v)
        PROVE  Typed'
    <2>1. task' \in [Tasks -> Task] /\ crossing' \in [any : SUBSET Assets, all : SUBSET Assets, through : BOOLEAN]
      BY <1>2, Basics, StartMoves, StartCrossing DEF PostRefresh, Begun
    <2>2. [gate EXCEPT ![v] = now] \in [Visitors -> Time \cup {Never}]
      BY DEF Typed
    <2>3. gate' \in [Visitors -> Time \cup {Never}]
      BY <1>2, <2>2, WritesAreTyped DEF PostRefresh
    <2> QED
      BY <1>2, <2>1, <2>3 DEF PostRefresh, Typed
  <1>3. ASSUME LoopTick
        PROVE  Typed'
    <2>1. task' \in [Tasks -> Task] /\ crossing' \in [any : SUBSET Assets, all : SUBSET Assets, through : BOOLEAN]
      BY <1>3, Basics, StartMoves, StartCrossing DEF LoopTick, Begun, Typed
    <2>2. wake' \in Nat
      BY <1>3, Basics DEF LoopTick, Typed
    <2> QED
      BY <1>3, <2>1, <2>2 DEF LoopTick, Typed
  <1>4. ASSUME NEW t \in Tasks, FetchPositions(t)
        PROVE  Typed'
    <2>1. PICK got \in SUBSET Assets : Answered(t, got)
      BY <1>4, FetchMoves
    <2> QED
      BY <1>4, <2>1 DEF FetchPositions, Answered, Typed
  <1>5. ASSUME NEW t \in Tasks, UpsertWallet(t)
        PROVE  Typed'
    <2>1. task' \in [Tasks -> Task]
      BY <1>5, AdvanceMoves DEF UpsertWallet, Moved, Steps
    <2> QED
      BY <1>5, <2>1, WritesAreTyped DEF UpsertWallet, Typed
  <1>6. ASSUME NEW t \in Tasks, InsertSnapshot(t)
        PROVE  Typed'
    <2>1. task' \in [Tasks -> Task]
      BY <1>6, AdvanceMoves DEF InsertSnapshot, Moved, Steps
    <2> QED
      BY <1>6, <2>1, TaskFields DEF InsertSnapshot, Typed
  <1>7. ASSUME NEW t \in Tasks, UpsertPositions(t)
        PROVE  Typed'
    <2>1. task' \in [Tasks -> Task]
      BY <1>7, AdvanceMoves DEF UpsertPositions, Moved, Steps
    <2> QED
      BY <1>7, <2>1, TaskFields, WritesAreTyped DEF UpsertPositions, Typed
  <1>8. ASSUME NEW t \in Tasks, CloseMissing(t)
        PROVE  Typed'
    <2>1. task' \in [Tasks -> Task]
      BY <1>8, AdvanceMoves DEF CloseMissing, Moved, Steps
    <2> QED
      BY <1>8, <2>1, TaskFields, WritesAreTyped DEF CloseMissing, Typed
  <1>9. ASSUME NEW t \in Tasks, MarkRefreshed(t) \/ Fail(t)
        PROVE  Typed'
    <2>1. Settle(t)
      BY <1>9 DEF MarkRefreshed, Fail
    <2>2. task' \in [Tasks -> Task]
      BY <2>1, SettleMoves DEF Ended
    <2>3. wake' \in Nat
      BY <2>1, Basics DEF Settle, Typed
    <2>4. CASE MarkRefreshed(t)
      BY <2>2, <2>3, <2>4 DEF MarkRefreshed, Typed
    <2>5. CASE Fail(t)
      BY <2>2, <2>3, <2>5 DEF Fail, Typed
    <2> QED
      BY <1>9, <2>4, <2>5
  <1>10. ASSUME Trade
         PROVE  Typed'
    BY <1>10 DEF Trade, Typed
  <1>11. ASSUME Deploy
         PROVE  Typed'
    BY <1>11, IdleTask, Basics DEF Deploy, Typed
  <1>12. ASSUME Pass
         PROVE  Typed'
    BY <1>12, Basics DEF Pass, Typed, Time
  <1>13. ASSUME UNCHANGED vars
         PROVE  Typed'
    BY <1>13 DEF vars, Typed
  <1> QED
    BY <1>1, <1>2, <1>3, <1>4, <1>5, <1>6, <1>7, <1>8, <1>9, <1>10, <1>11, <1>12, <1>13
       DEF Next, Horizon

\* Every variable of the ledger keeps its type.
THEOREM TypeCorrect == Spec => []TypeOK
  <1>1. Spec => []Typed
    BY TypedInit, TypedStep, PTL DEF Spec
  <1> QED
    BY <1>1, TypedIsTypeOK, PTL

-----------------------------------------------------------------------------
(* Crossing refreshes agree. What one of them was answered lies between what *)
(* all and what any were answered; how far a refresh has come says what it   *)
(* has already brought within these bounds, and it stays there when others   *)
(* write, as they write nothing beyond them.                                 *)

Past(pcs) == crossing.through \/ \E t \in Tasks : task[t].pc \in pcs

Within ==
    \A t \in Tasks : task[t].pc \in {"wallet", "snapshot", "upsert", "close", "mark"} =>
        crossing.all \subseteq task[t].got /\ task[t].got \subseteq crossing.any

SnapshotBounds ==
    /\ snapshot.exists /\ crossing.all \subseteq snapshot.assets
    /\ snapshot.assets \subseteq crossing.any

AgreeInv ==
    /\ Within
    /\ Past({"mark"}) => Open \subseteq crossing.any
    /\ Past({"close", "mark"}) => crossing.all \subseteq Open
    /\ Past({"upsert", "close", "mark"}) => SnapshotBounds

LEMMA AgreeInit == Init => AgreeInv
  BY DEF Init, AgreeInv, Within, Past, Quiet, Idle

LEMMA AgreeImplies == AgreeInv => RefreshesAgree
  BY DEF AgreeInv, Past, SnapshotBounds, RefreshesAgree

\* A step that writes nothing and moves no refresh onward keeps the bounds.
LEMMA AgreeStays ==
    ASSUME Typed, AgreeInv, UNCHANGED <<crossing, position, snapshot>>,
           \A t \in Tasks : task'[t] = task[t] \/ task'[t].pc \in {"idle", "positions"}
    PROVE  AgreeInv'
  <1>1. Within'
    BY DEF AgreeInv, Within
  <1>2. ASSUME NEW pcs \in SUBSET {"upsert", "close", "mark"}, Past(pcs)'
        PROVE  Past(pcs)
    BY <1>2 DEF Past
  <1>3. Open' = Open /\ (SnapshotBounds' <=> SnapshotBounds)
    BY DEF Open, SnapshotBounds
  <1> QED
    BY <1>1, <1>2, <1>3 DEF AgreeInv

LEMMA AgreeStart ==
    ASSUME Typed, AgreeInv, NEW t \in Tasks, Start(t), UNCHANGED <<position, snapshot>>
    PROVE  AgreeInv'
  <1>1. Begun(t)
    BY StartMoves
  <1>2. CASE Busy = {}
    <2>1. \A u \in Tasks : task'[u].pc \in {"idle", "positions"}
      BY <1>1, <1>2 DEF Begun, Busy
    <2> QED
      BY <2>1, <1>2 DEF Start, Quiet, AgreeInv, Within, Past
  <1>3. CASE Busy # {}
    BY <1>1, <1>3, AgreeStays DEF Start, Begun
  <1> QED
    BY <1>2, <1>3

LEMMA AgreeStep == Typed /\ AgreeInv /\ [Next]_vars => AgreeInv'
  <1> SUFFICES ASSUME Typed, AgreeInv, [Next]_vars PROVE AgreeInv'
    OBVIOUS
  <1>1. ASSUME NEW v \in Visitors, ViewWallet(v)
        PROVE  AgreeInv'
    BY <1>1, Basics, AgreeStart, AgreeStays DEF ViewWallet
  <1>2. ASSUME NEW v \in Visitors, PostRefresh(v)
        PROVE  AgreeInv'
    BY <1>2, Basics, AgreeStart DEF PostRefresh
  <1>3. ASSUME LoopTick
        PROVE  AgreeInv'
    BY <1>3, Basics, AgreeStart, AgreeStays DEF LoopTick
  <1>4. ASSUME NEW t \in Tasks, FetchPositions(t)
        PROVE  AgreeInv'
    <2>1. PICK got \in SUBSET Assets : Answered(t, got)
      BY <1>4, FetchMoves
    <2>2. /\ crossing'.any = crossing.any \cup got /\ crossing'.all = crossing.all \cap got
          /\ crossing'.through = crossing.through
      BY <2>1 DEF Answered, Typed
    <2>3. Within'
      BY <2>1, <2>2 DEF Answered, AgreeInv, Within
    <2>4. ASSUME NEW pcs \in SUBSET {"upsert", "close", "mark"}, Past(pcs)'
          PROVE  Past(pcs)
      BY <2>1, <2>2, <2>4 DEF Past, Answered
    <2>5. Open' = Open /\ snapshot' = snapshot
      BY <1>4 DEF FetchPositions, Open
    <2> QED
      BY <2>2, <2>3, <2>4, <2>5 DEF AgreeInv, SnapshotBounds
  <1>5. ASSUME NEW t \in Tasks, UpsertWallet(t)
        PROVE  AgreeInv'
    <2>1. Moved(t, "snapshot") /\ task[t].pc = "wallet"
      BY <1>5, AdvanceMoves DEF UpsertWallet, Steps
    <2>2. Within'
      BY <1>5, <2>1 DEF Moved, AgreeInv, Within, UpsertWallet
    <2>3. ASSUME NEW pcs \in SUBSET {"upsert", "close", "mark"}, Past(pcs)'
          PROVE  Past(pcs)
      BY <1>5, <2>1, <2>3 DEF Past, Moved, UpsertWallet
    <2> QED
      BY <1>5, <2>2, <2>3 DEF UpsertWallet, AgreeInv, SnapshotBounds, Open
  <1>6. ASSUME NEW t \in Tasks, InsertSnapshot(t)
        PROVE  AgreeInv'
    <2>1. Moved(t, "upsert") /\ task[t].pc = "snapshot" /\ UNCHANGED <<crossing, position>>
      BY <1>6, AdvanceMoves DEF InsertSnapshot, Steps
    <2>2. Within'
      BY <2>1 DEF Moved, AgreeInv, Within
    <2>3. SnapshotBounds'
      BY <1>6, <2>1 DEF InsertSnapshot, SnapshotBounds, AgreeInv, Within
    <2>4. ASSUME NEW pcs \in SUBSET {"close", "mark"}, Past(pcs)'
          PROVE  Past(pcs)
      BY <2>1, <2>4 DEF Past, Moved
    <2> QED
      BY <2>1, <2>2, <2>3, <2>4 DEF AgreeInv, Open
  <1>7. ASSUME NEW t \in Tasks, UpsertPositions(t)
        PROVE  AgreeInv'
    <2>1. Moved(t, "close") /\ task[t].pc = "upsert" /\ UNCHANGED <<crossing, snapshot>>
      BY <1>7, AdvanceMoves DEF UpsertPositions, Steps
    <2>2. Within'
      BY <2>1 DEF Moved, AgreeInv, Within
    <2>3. Open' = Open \cup task[t].got
      BY <1>7, TaskFields DEF UpsertPositions, Upserted, Open
    <2>4. crossing.all \subseteq task[t].got /\ task[t].got \subseteq crossing.any
      BY <2>1 DEF AgreeInv, Within
    <2>5. Past({"mark"})' => Past({"mark"})
      BY <2>1 DEF Past, Moved
    <2>6. SnapshotBounds'
      BY <2>1 DEF SnapshotBounds, AgreeInv, Past
    <2> QED
      BY <2>1, <2>2, <2>3, <2>4, <2>5, <2>6 DEF AgreeInv
  <1>8. ASSUME NEW t \in Tasks, CloseMissing(t)
        PROVE  AgreeInv'
    <2>1. Moved(t, "mark") /\ task[t].pc = "close" /\ UNCHANGED <<crossing, snapshot>>
      BY <1>8, AdvanceMoves DEF CloseMissing, Steps
    <2>2. Within'
      BY <2>1 DEF Moved, AgreeInv, Within
    <2>3. Open' = Open \cap task[t].got
      BY <1>8, TaskFields DEF CloseMissing, Closed, Open
    <2>4. crossing.all \subseteq task[t].got /\ task[t].got \subseteq crossing.any
      BY <2>1 DEF AgreeInv, Within
    <2>5. crossing.all \subseteq Open /\ SnapshotBounds
      BY <2>1 DEF AgreeInv, Past
    <2> QED
      BY <2>1, <2>2, <2>3, <2>4, <2>5 DEF AgreeInv, SnapshotBounds
  <1>9. ASSUME NEW t \in Tasks, MarkRefreshed(t)
        PROVE  AgreeInv'
    <2>1. Ended(t) /\ task[t].pc = "mark" /\ UNCHANGED <<position, snapshot>>
      BY <1>9, SettleMoves DEF MarkRefreshed
    <2>2. crossing'.any = crossing.any /\ crossing'.all = crossing.all
      BY <1>9 DEF MarkRefreshed, Typed
    <2>3. Within'
      BY <2>1, <2>2, IdleTask DEF Ended, AgreeInv, Within
    <2>4. Open \subseteq crossing.any /\ crossing.all \subseteq Open /\ SnapshotBounds
      BY <2>1 DEF AgreeInv, Past
    <2> QED
      BY <2>1, <2>2, <2>3, <2>4 DEF AgreeInv, SnapshotBounds, Open
  <1>10. ASSUME NEW t \in Tasks, Fail(t)
         PROVE  AgreeInv'
    <2>1. Ended(t)
      BY <1>10, SettleMoves DEF Fail
    <2> QED
      BY <1>10, <2>1, IdleTask, AgreeStays DEF Fail, Ended
  <1>11. ASSUME Trade \/ Pass \/ UNCHANGED vars
         PROVE  AgreeInv'
    BY <1>11, AgreeStays DEF Trade, Pass, vars
  <1>12. ASSUME Deploy
         PROVE  AgreeInv'
    BY <1>12, IdleTask, AgreeStays DEF Deploy
  <1> QED
    BY <1>1, <1>2, <1>3, <1>4, <1>5, <1>6, <1>7, <1>8, <1>9, <1>10, <1>11, <1>12
       DEF Next, Horizon

\* However refreshes of a wallet cross and whichever of them fail, once they stand still
\* and one went through, the positions and the snapshot lie between what all of them and
\* what any of them was answered.
THEOREM CrossingRefreshesAgree == Spec => []RefreshesAgree
  <1>1. Typed /\ AgreeInv /\ [Next]_vars => (Typed /\ AgreeInv)'
    BY TypedStep, AgreeStep
  <1>2. Spec => [](Typed /\ AgreeInv)
    BY <1>1, TypedInit, AgreeInit, PTL DEF Spec
  <1> QED
    BY <1>2, AgreeImplies, PTL

-----------------------------------------------------------------------------
(* The gate. An entry a sweep drops is GateKeep intervals old.               *)

GateInv ==
    /\ \A v \in Visitors : letIn[v] <= now
    /\ GateRemembers

LEMMA GateInit == Init => GateInv
  <1> SUFFICES ASSUME Init, NEW v \in Visitors
               PROVE  letIn[v] <= now /\ letIn[v] = Never
    BY DEF GateInv, GateRemembers
  <1> QED
    BY DEF Init, Never

LEMMA SweepIsLate == GateKeep * GateInterval >= GateInterval
  <1> DEFINE g == GateInterval
  <1>1. GateKeep >= 1 /\ GateKeep \in Nat /\ g \in Nat
    BY Basics
  <1>2. GateKeep * g = (GateKeep - 1) * g + g
    BY <1>1
  <1>3. (GateKeep - 1) * g \in Nat
    BY <1>1
  <1> QED
    BY <1>1, <1>2, <1>3

LEMMA GateStep == Typed /\ GateInv /\ [Next]_vars => GateInv'
  <1> SUFFICES ASSUME Typed, GateInv, [Next]_vars PROVE GateInv'
    OBVIOUS
  <1>1. ASSUME UNCHANGED <<gate, letIn>>, now' \in Time, now' >= now
        PROVE  GateInv'
    <2> SUFFICES ASSUME NEW v \in Visitors
                 PROVE  /\ letIn[v] <= now'
                        /\ letIn[v] # Never /\ now' - letIn[v] < GateInterval =>
                             gate[v] = letIn[v]
      BY <1>1 DEF GateInv, GateRemembers
    <2>1. now \in Int /\ now' \in Int /\ letIn[v] \in Int /\ GateInterval \in Int
      <3>1. letIn[v] \in Time \cup {Never} /\ now \in Time
        BY DEF Typed
      <3>2. Time \subseteq Int /\ Never \in Int /\ GateInterval \in Int
        BY LedgerAssumption DEF Time, Never
      <3> QED
        BY <1>1, <3>1, <3>2
    <2>2. /\ letIn[v] <= now
          /\ letIn[v] # Never /\ now - letIn[v] < GateInterval => gate[v] = letIn[v]
      BY DEF GateInv, GateRemembers
    <2> QED
      BY <1>1, <2>1, <2>2
  <1>2. ASSUME NEW v \in Visitors, PostRefresh(v)
        PROVE  GateInv'
    <2> DEFINE g == [gate EXCEPT ![v] = now]
    <2>1. /\ now' = now /\ gate' = Swept(g) /\ letIn' = [letIn EXCEPT ![v] = now]
      BY <1>2 DEF PostRefresh
    <2>2. /\ now \in Nat /\ gate \in [Visitors -> Time \cup {Never}]
          /\ letIn \in [Visitors -> Time \cup {Never}]
      BY Basics DEF Typed
    <2>3. ASSUME NEW u \in Visitors
          PROVE  /\ letIn'[u] <= now
                 /\ letIn'[u] # Never /\ now - letIn'[u] < GateInterval => gate'[u] = letIn'[u]
      <3>1. letIn'[u] <= now
        BY <2>1, <2>2 DEF GateInv
      <3>2. ASSUME letIn'[u] # Never, now - letIn'[u] < GateInterval
            PROVE  gate'[u] = letIn'[u]
        <4>1. g[u] = letIn'[u]
          BY <2>1, <2>2, <3>2 DEF GateInv, GateRemembers
        <4>2. letIn'[u] \in Nat
          BY <2>1, <2>2, <3>2, Basics
        <4>3. ~(g[u] < now - GateKeep * GateInterval)
          <5> DEFINE k == GateKeep * GateInterval
          <5>1. k \in Nat /\ k >= GateInterval
            BY Basics, SweepIsLate
          <5>2. now - letIn'[u] < GateInterval
            BY <3>2
          <5> HIDE DEF k, g
          <5>3. ~(g[u] < now - k)
            BY <2>2, <4>1, <4>2, <5>1, <5>2, Basics
          <5> QED
            BY <5>3 DEF k
        <4>4. gate'[u] = g[u]
          BY <2>1, <4>3 DEF Swept
        <4> QED
          BY <4>1, <4>4
      <3> QED
        BY <3>1, <3>2
    <2> HIDE DEF g
    <2> QED
      BY <2>1, <2>3 DEF GateInv, GateRemembers
  <1>3. ASSUME Deploy
        PROVE  GateInv'
    <2>1. now' = now /\ now \in Nat
      BY <1>3, Basics DEF Deploy, Typed
    <2>2. \A v \in Visitors : letIn'[v] = Never
      BY <1>3 DEF Deploy
    <2> QED
      BY <2>1, <2>2 DEF GateInv, GateRemembers, Never
  <1>4. ASSUME Pass
        PROVE  GateInv'
    BY <1>1, <1>4, Basics DEF Pass, Typed, Time
  <1>5. ASSUME UNCHANGED <<now, gate, letIn>>
        PROVE  GateInv'
    BY <1>1, <1>5, Basics DEF Typed
  <1> QED
    BY <1>2, <1>3, <1>4, <1>5
       DEF Next, Horizon, vars, ViewWallet, LoopTick, FetchPositions, UpsertWallet,
           InsertSnapshot, UpsertPositions, CloseMissing, MarkRefreshed, Fail, Trade

\* The sweep that bounds the gate drops no address the gate still has to hold back.
THEOREM TheGateRemembers == Spec => []GateRemembers
  <1>1. Typed /\ GateInv /\ [Next]_vars => (Typed /\ GateInv)'
    BY TypedStep, GateStep
  <1>2. GateInv => GateRemembers
    BY DEF GateInv
  <1> QED
    BY <1>1, <1>2, TypedInit, GateInit, PTL DEF Spec

-----------------------------------------------------------------------------
(* A wallet once viewed. The loop's refresh counts as a view, before the     *)
(* next is due; how long ago the wallet was viewed is bounded by where the   *)
(* loop is.                                                                  *)

Clocks ==
    /\ wake <= now + Interval
    /\ \A t \in Tasks : task[t].pc # "idle" => task[t].since <= now /\ now <= task[t].since + Work
    /\ task["loop"].pc = "idle" => now <= wake + Late

Early == {"positions", "wallet"}

ViewInv ==
    wasSeen =>
        /\ wallet.viewed \in Nat /\ wallet.viewed <= now
        /\ task["loop"].pc = "idle" => wake <= wallet.viewed + Interval + Work
        /\ task["loop"].pc \in Early =>
             task["loop"].since <= wallet.viewed + Interval + Work + Late
        /\ task["loop"].pc \notin Early \cup {"idle"} => task["loop"].since <= wallet.viewed

LEMMA Numbers ==
    ASSUME Typed
    PROVE  /\ now \in Nat /\ wake \in Nat /\ Interval \in Nat /\ Late \in Nat /\ Work \in Nat
           /\ \A t \in Tasks : task[t].since \in Nat
           /\ wallet.viewed \in Nat \cup {Never} /\ Never = -1
  BY Basics, TaskFields DEF Typed, Never

LEMMA ViewInit == Init => Clocks /\ ViewInv
  BY Basics DEF Init, Clocks, ViewInv, Idle

LEMMA ViewImplies == Typed /\ Clocks /\ ViewInv => ViewedForEver
  <1> SUFFICES ASSUME Typed, Clocks, ViewInv, wasSeen
               PROVE  now - wallet.viewed <= Interval + 2 * (Late + Work)
    BY DEF ViewedForEver
  <1> USE Numbers, Basics DEF ViewInv, Clocks
  <1>1. CASE task["loop"].pc = "idle"
    BY <1>1
  <1>2. CASE task["loop"].pc \in Early
    BY <1>2 DEF Early
  <1>3. CASE task["loop"].pc \notin Early \cup {"idle"}
    BY <1>3
  <1> QED
    BY <1>1, <1>2, <1>3

\* The clocks of a step that lets no time pass and leaves the loop's wake alone.
LEMMA ClocksStay ==
    ASSUME Typed, Clocks, UNCHANGED <<now, wake>>,
           \A t \in Tasks : \/ task'[t].pc = "idle" /\ (t = "loop" => task[t].pc = "idle")
                            \/ task'[t].since = task[t].since /\ task[t].pc # "idle"
                               /\ task'[t].pc # "idle"
                            \/ task'[t].since = now /\ task'[t].pc # "idle"
    PROVE  Clocks'
  BY Numbers, Basics DEF Clocks

\* A step of a visitor: the loop stands still, and the wallet is as it was or viewed now.
LEMMA ViewStays ==
    ASSUME Typed, Clocks, ViewInv, UNCHANGED <<now, wake>>, task'["loop"] = task["loop"],
           \/ wallet'.viewed = wallet.viewed /\ (wasSeen' => wasSeen)
           \/ wallet'.viewed = now
    PROVE  ViewInv'
  <1> USE Numbers, Basics
  <1>1. CASE wallet'.viewed = wallet.viewed /\ (wasSeen' => wasSeen)
    BY <1>1 DEF ViewInv
  <1>2. CASE wallet'.viewed = now
    BY <1>2 DEF ViewInv, Clocks, Early
  <1> QED
    BY <1>1, <1>2

LEMMA ClocksStep == Typed /\ Clocks /\ [Next]_vars => Clocks'
  <1> SUFFICES ASSUME Typed, Clocks, [Next]_vars PROVE Clocks'
    OBVIOUS
  <1> USE Numbers, Basics
  <1>1. ASSUME NEW t \in Tasks, Start(t), UNCHANGED <<now, wake>>
        PROVE  Clocks'
    BY <1>1, StartMoves, ClocksStay DEF Begun
  <1>2. ASSUME UNCHANGED <<now, wake, task>>
        PROVE  Clocks'
    BY <1>2, ClocksStay
  <1>3. ASSUME NEW v \in Visitors, ViewWallet(v) \/ PostRefresh(v)
        PROVE  Clocks'
    BY <1>1, <1>2, <1>3 DEF ViewWallet, PostRefresh
  <1>4. ASSUME LoopTick
        PROVE  Clocks'
    <2>1. CASE Start("loop") /\ UNCHANGED wake
      BY <1>1, <1>4, <2>1 DEF LoopTick
    <2>2. CASE wake' = now + Interval /\ UNCHANGED task
      BY <1>4, <2>2 DEF LoopTick, Clocks
    <2> QED
      BY <1>4, <2>1, <2>2 DEF LoopTick
  <1>5. ASSUME NEW t \in Tasks, FetchPositions(t)
        PROVE  Clocks'
    <2>1. PICK got \in SUBSET Assets : Answered(t, got)
      BY <1>5, FetchMoves
    <2> QED
      BY <1>5, <2>1, ClocksStay DEF FetchPositions, Answered
  <1>6. ASSUME NEW t \in Tasks, NEW pc \in Steps \ {"idle"}, Advance(t, pc),
               task[t].pc # "idle", UNCHANGED <<now, wake>>
        PROVE  Clocks'
    BY <1>6, AdvanceMoves, ClocksStay DEF Moved
  <1>7. ASSUME NEW t \in Tasks, UpsertWallet(t) \/ InsertSnapshot(t) \/ UpsertPositions(t)
                                \/ CloseMissing(t)
        PROVE  Clocks'
    BY <1>6, <1>7 DEF UpsertWallet, InsertSnapshot, UpsertPositions, CloseMissing, Steps
  <1>8. ASSUME NEW t \in Tasks, Settle(t), now' = now
        PROVE  Clocks'
    <2>1. Ended(t)
      BY <1>8, SettleMoves
    <2>2. CASE t = "loop"
      BY <1>8, <2>1, <2>2, IdleTask DEF Ended, Clocks, Settle
    <2>3. CASE t # "loop"
      BY <1>8, <2>1, <2>3, IdleTask, ClocksStay DEF Ended, Settle
    <2> QED
      BY <2>2, <2>3
  <1>9. ASSUME NEW t \in Tasks, MarkRefreshed(t) \/ Fail(t)
        PROVE  Clocks'
    BY <1>8, <1>9 DEF MarkRefreshed, Fail
  <1>10. ASSUME Trade \/ UNCHANGED vars
         PROVE  Clocks'
    BY <1>2, <1>10 DEF Trade, vars
  <1>11. ASSUME Deploy
         PROVE  Clocks'
    BY <1>11, IdleTask DEF Deploy, Clocks
  <1>12. ASSUME Pass
         PROVE  Clocks'
    BY <1>12 DEF Pass, Clocks, Busy
  <1> QED
    BY <1>3, <1>4, <1>5, <1>7, <1>9, <1>10, <1>11, <1>12 DEF Next, Horizon

LEMMA ViewStep ==
    ASSUME Interval + 2 * (Late + Work) <= ViewWindow, Typed, Clocks, ViewInv, [Next]_vars
    PROVE  ViewInv'
  <1> USE Numbers, Basics
  <1>1. ASSUME NEW v \in Visitors, ViewWallet(v)
        PROVE  ViewInv'
    <2>1. task'["loop"] = task["loop"]
      BY <1>1, StartMoves DEF ViewWallet, Begun
    <2>2. CASE Known
      BY <1>1, <2>1, <2>2, ViewStays DEF ViewWallet, Viewed, Typed
    <2>3. CASE ~Known
      BY <1>1, <2>1, <2>3, ViewStays DEF ViewWallet
    <2> QED
      BY <2>2, <2>3
  <1>2. ASSUME NEW v \in Visitors, PostRefresh(v)
        PROVE  ViewInv'
    BY <1>2, StartMoves, ViewStays DEF PostRefresh, Begun
  <1>3. ASSUME LoopTick
        PROVE  ViewInv'
    <2> SUFFICES ASSUME wasSeen'
                 PROVE  ViewInv'
      BY DEF ViewInv
    <2>1. /\ now' = now /\ wallet' = wallet /\ wasSeen /\ task["loop"].pc = "idle"
      BY <1>3 DEF LoopTick
    <2>2. now - wallet.viewed <= Interval + 2 * (Late + Work) /\ wallet.viewed \in Nat
      BY <2>1, ViewImplies DEF ViewedForEver, ViewInv
    <2>3. Known /\ wallet.viewed >= now - ViewWindow
      BY <2>2 DEF Known
    <2>4. Begun("loop")
      BY <1>3, <2>3, StartMoves DEF LoopTick
    <2>5. now <= wallet.viewed + Interval + Work + Late /\ wallet.viewed <= now
      BY <2>1 DEF ViewInv, Clocks
    <2> QED
      BY <2>1, <2>2, <2>4, <2>5 DEF Begun, ViewInv, Early
  <1>4. ASSUME NEW t \in Tasks, FetchPositions(t)
        PROVE  ViewInv'
    <2>1. PICK got \in SUBSET Assets : Answered(t, got)
      BY <1>4, FetchMoves
    <2>2. UNCHANGED <<now, wake, wallet, wasSeen>> /\ task[t].pc = "positions"
      BY <1>4 DEF FetchPositions
    <2>3. CASE t = "loop"
      BY <2>1, <2>2, <2>3 DEF Answered, ViewInv, Early
    <2>4. CASE t # "loop"
      BY <2>1, <2>2, <2>4, ViewStays DEF Answered
    <2> QED
      BY <2>3, <2>4
  <1>5. ASSUME NEW t \in Tasks, UpsertWallet(t)
        PROVE  ViewInv'
    <2>1. Moved(t, "snapshot") /\ task[t].pc = "wallet"
      BY <1>5, AdvanceMoves DEF UpsertWallet, Steps
    <2>2. UNCHANGED <<now, wake>> /\ wallet'.viewed = now
      BY <1>5 DEF UpsertWallet, Viewed, Typed
    <2>3. CASE t = "loop"
      BY <2>1, <2>2, <2>3 DEF Moved, ViewInv, Clocks, Early
    <2>4. CASE t # "loop"
      BY <2>1, <2>2, <2>4, ViewStays DEF Moved
    <2> QED
      BY <2>3, <2>4
  <1>6. ASSUME NEW t \in Tasks, InsertSnapshot(t) \/ UpsertPositions(t) \/ CloseMissing(t)
        PROVE  ViewInv'
    <2>1. PICK pc \in {"upsert", "close", "mark"} : Moved(t, pc)
      BY <1>6, AdvanceMoves DEF InsertSnapshot, UpsertPositions, CloseMissing, Steps
    <2>2. UNCHANGED <<now, wake, wallet, wasSeen>> /\ task[t].pc \in {"snapshot", "upsert", "close"}
      BY <1>6 DEF InsertSnapshot, UpsertPositions, CloseMissing
    <2>3. CASE t = "loop"
      BY <2>1, <2>2, <2>3 DEF Moved, ViewInv, Early
    <2>4. CASE t # "loop"
      BY <2>1, <2>2, <2>4, ViewStays DEF Moved
    <2> QED
      BY <2>3, <2>4
  <1>7. ASSUME NEW t \in Tasks, MarkRefreshed(t)
        PROVE  ViewInv'
    <2>1. Ended(t) /\ task[t].pc = "mark"
      BY <1>7, SettleMoves DEF MarkRefreshed
    <2>2. UNCHANGED <<now, wasSeen>> /\ wallet'.viewed = wallet.viewed
      BY <1>7 DEF MarkRefreshed, Typed
    <2>3. CASE t = "loop"
      <3>1. wake' = now + Interval
        BY <1>7, <2>3 DEF MarkRefreshed, Settle
      <3>2. wasSeen => now <= wallet.viewed + Work
        BY <2>1, <2>3 DEF ViewInv, Clocks, Early
      <3> QED
        BY <2>1, <2>2, <2>3, <3>1, <3>2, IdleTask DEF Ended, ViewInv, Early
    <2>4. CASE t # "loop"
      BY <1>7, <2>1, <2>2, <2>4, ViewStays DEF Ended, MarkRefreshed, Settle
    <2> QED
      BY <2>3, <2>4
  <1>8. ASSUME (\E t \in Tasks : Fail(t)) \/ Deploy
        PROVE  ViewInv'
    BY <1>8 DEF Fail, Deploy, ViewInv
  <1>9. ASSUME Pass
        PROVE  ViewInv'
    BY <1>9 DEF Pass, ViewInv
  <1>10. ASSUME Trade \/ UNCHANGED vars
         PROVE  ViewInv'
    BY <1>10, ViewStays DEF Trade, vars
  <1> QED
    BY <1>1, <1>2, <1>3, <1>4, <1>5, <1>6, <1>7, <1>8, <1>9, <1>10 DEF Next, Horizon

\* Why "Refreshes every wallet viewed in the last 24h" fails: a refresh of the loop counts as
\* a view. Where the window outlasts two turns of the loop, a wallet that a visitor asked for
\* once stays in what the loop refreshes for as long as it runs and nothing fails, however
\* long ago the visitor left.
THEOREM AViewLastsForEver ==
    ASSUME Interval + 2 * (Late + Work) <= ViewWindow
    PROVE  Spec => []ViewedForEver
  <1>1. Typed /\ Clocks /\ ViewInv /\ [Next]_vars => (Typed /\ Clocks /\ ViewInv)'
    BY TypedStep, ClocksStep, ViewStep
  <1>2. Spec => [](Typed /\ Clocks /\ ViewInv)
    BY <1>1, TypedInit, ViewInit, PTL DEF Spec
  <1> QED
    BY <1>2, ViewImplies, PTL
=============================================================================
