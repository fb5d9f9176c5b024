----------------------------- MODULE Distribute -----------------------------
(***************************************************************************)
(* The outbound wire to Market Tips AI (MTA): runs of the desk enqueue the *)
(* bodies they publish (distribute/enqueue.py), a drain process sweeps the *)
(* outbox once per tick (distribute/worker.py, desk_distribute_loop.py),   *)
(* and the receiver answers each POST (distribute/client.py).              *)
(*                                                                         *)
(* Three kinds of process share the SQLite table and nothing else: the     *)
(* runs, the drain and the operator who replays dead letters.  They may    *)
(* interleave between any two SQL statements.                              *)
(***************************************************************************)
EXTENDS Outbox

CONSTANTS
    Runs,          \* processes that may enqueue at the same time
    RatePerMin,    \* rows claimed per sweep (rate_per_min)
    MaxInFlight,   \* deliveries awaited at the same time (max_in_flight)
    SweepTimeout,  \* ticks after which the drain process is killed
    MaxVersion,    \* bound: bodies built per match
    MaxKills,      \* bound: drain processes killed
    MaxReplays     \* bound: retry_dead_letters calls

ASSUME DistributeAssumption ==
    /\ RatePerMin \in Nat \ {0}
    /\ MaxInFlight \in Nat \ {0}
    /\ SweepTimeout \in Nat
    /\ MaxVersion \in Nat
    /\ MaxKills \in Nat
    /\ MaxReplays \in Nat

VARIABLES
    queue,     \* the push_queue table
    lastId,    \* its AUTOINCREMENT counter
    run,       \* per run: where it is inside enqueue_match
    claimed,   \* the sweep: rows claimed and not yet applied, as they were read
    age,       \* ticks since the sweep took its `now`
    rested,    \* the loop has slept tick_sec since the last sweep
    received,  \* per match: the newest version the receiver holds
    calls,     \* POSTs dispatched in this tick and in the one before
    kills, replays,
    (* History, read by no action. *)
    built,     \* per match: newest updated_at given to a body
    queued,    \* per match: newest version an enqueue call returned for
    raced      \* matches whose newest queued version was written into a row
               \* the drain was working on, or was overwritten by an older one

vars == <<queue, lastId, run, claimed, age, rested, received, calls, kills,
          replays, built, queued, raced>>

runVars   == <<run, built, queued, raced>>
sweepVars == <<claimed, age, rested, received, calls, kills>>

-----------------------------------------------------------------------------
Version == 0 .. MaxVersion
NoRow   == 0

Phase == {"waiting", "sent", "accepted"}

Idle == [pc |-> "idle"]

RunState ==
    {Idle}
      \cup [pc : {"built"}, match : Matches, ver : Version]
      \cup [pc : {"selected"}, match : Matches, ver : Version, row : Nat]

ClaimedRow == [row : Row, phase : Phase]

TypeOK ==
    /\ lastId \in Nat
    /\ IsTable(queue, lastId)
    /\ run \in [Runs -> RunState]
    /\ claimed \in [DOMAIN claimed -> ClaimedRow]
    /\ DOMAIN claimed \subseteq 1 .. lastId
    /\ age \in Nat
    /\ rested \in BOOLEAN
    /\ received \in [Matches -> Nat]
    /\ calls \in [this : Nat, last : Nat]
    /\ kills \in 0 .. MaxKills
    /\ replays \in 0 .. MaxReplays
    /\ built \in [Matches -> Version]
    /\ queued \in [Matches -> Version]
    /\ raced \in SUBSET Matches

NoClaims == [id \in {} |-> <<>>]

Init ==
    /\ queue = EmptyTable
    /\ lastId = 0
    /\ run = [r \in Runs |-> Idle]
    /\ claimed = NoClaims
    /\ age = 0
    /\ rested = TRUE
    /\ received = [m \in Matches |-> 0]
    /\ calls = [this |-> 0, last |-> 0]
    /\ kills = 0
    /\ replays = 0
    /\ built = [m \in Matches |-> 0]
    /\ queued = [m \in Matches |-> 0]
    /\ raced = {}

-----------------------------------------------------------------------------
(* A run enqueues one body.                                                *)

\* The run gives the body its updated_at and encodes it (canonical_body).
Build(r, m) ==
    /\ run[r] = Idle
    /\ built[m] < MaxVersion
    /\ built' = [built EXCEPT ![m] = @ + 1]
    /\ run' = [run EXCEPT ![r] = [pc |-> "built", match |-> m, ver |-> built[m] + 1]]
    /\ UNCHANGED <<queue, lastId, queued, raced, replays, sweepVars>>

\* BodyTooLarge, which the runner swallows; or the run is killed before its write.
Abandon(r) ==
    /\ run[r] # Idle
    /\ run' = [run EXCEPT ![r] = Idle]
    /\ UNCHANGED <<queue, lastId, built, queued, raced, replays, sweepVars>>

\* enqueue, SELECT id ... WHERE match_id = ? AND status = 'pending', fetchone.
SelectPending(r) ==
    /\ run[r].pc = "built"
    /\ LET m == run[r].match
           found == IF PendingOf(queue, m) = {} THEN {NoRow} ELSE PendingOf(queue, m)
       IN \E id \in found :
            run' = [run EXCEPT ![r] =
                      [pc |-> "selected", match |-> m, ver |-> run[r].ver, row |-> id]]
    /\ UNCHANGED <<queue, lastId, built, queued, raced, replays, sweepVars>>

\* Whether what run r is about to write meets another process on the same row.
Races(r) ==
    \/ run[r].row # NoRow /\ run[r].row \in DOMAIN claimed
    \/ run[r].row # NoRow /\ run[r].row \notin PendingOf(queue, run[r].match)
    \/ run[r].ver <= queued[run[r].match]

NoteQueued(r) ==
    LET m == run[r].match IN
    /\ queued' = [queued EXCEPT ![m] = IF @ < run[r].ver THEN run[r].ver ELSE @]
    /\ raced' = IF Races(r) THEN raced \cup {m} ELSE raced \ {m}

\* enqueue, UPDATE ... WHERE id = ? when the SELECT found a row.
UpdatePending(r) ==
    /\ run[r].pc = "selected"
    /\ run[r].row # NoRow
    /\ queue' = Overwrite(queue, run[r].row, run[r].ver)
    /\ NoteQueued(r)
    /\ run' = [run EXCEPT ![r] = Idle]
    /\ UNCHANGED <<lastId, built, replays, sweepVars>>

\* enqueue, INSERT when it found none.
InsertPending(r) ==
    /\ run[r].pc = "selected"
    /\ run[r].row = NoRow
    /\ lastId' = lastId + 1
    /\ queue' = InsertRow(queue, lastId + 1, run[r].match, run[r].ver)
    /\ NoteQueued(r)
    /\ run' = [run EXCEPT ![r] = Idle]
    /\ UNCHANGED <<built, replays, sweepVars>>

-----------------------------------------------------------------------------
(* One sweep of the drain process (drain_once).                            *)

InFlight == {id \in DOMAIN claimed : claimed[id].phase # "waiting"}

\* The loop starts a sweep, never two at a time, after its sleep.
Claim ==
    /\ claimed = NoClaims
    /\ rested
    /\ DueIds(queue) # {}
    /\ claimed' = [id \in ClaimDue(queue, RatePerMin) |->
                     [row |-> queue[id], phase |-> "waiting"]]
    /\ age' = 0
    /\ rested' = FALSE
    /\ UNCHANGED <<queue, lastId, received, calls, kills, replays, runVars>>

\* The first row waiting gets the semaphore; its POST leaves.
Dispatch(id) ==
    /\ claimed[id].phase = "waiting"
    /\ Cardinality(InFlight) < MaxInFlight
    /\ \A j \in DOMAIN claimed \ {id} :
         claimed[j].phase = "waiting" =>
           Before([i \in DOMAIN claimed |-> claimed[i].row], id, j)
    /\ claimed' = [claimed EXCEPT ![id] = [row |-> @.row, phase |-> "sent"]]
    /\ calls' = [calls EXCEPT !.this = @ + 1]
    /\ UNCHANGED <<queue, lastId, age, rested, received, kills, replays, runVars>>

\* External: MTA takes the body.  A newer updated_at supersedes, an older or
\* equal one is an idempotent no-op.  The answer is still on its way.
Receive(id) ==
    /\ claimed[id].phase = "sent"
    /\ claimed' = [claimed EXCEPT ![id] = [row |-> @.row, phase |-> "accepted"]]
    /\ LET m == claimed[id].row.match
           v == claimed[id].row.ver
       IN received' = [received EXCEPT ![m] = IF @ < v THEN v ELSE @]
    /\ UNCHANGED <<queue, lastId, age, rested, calls, kills, replays, runVars>>

Applied(id) ==
    /\ claimed' = [j \in DOMAIN claimed \ {id} |-> claimed[j]]
    /\ UNCHANGED <<lastId, age, rested, received, calls, kills, replays, runVars>>

\* 200: the row is deleted by id, whatever body it holds by now.
ApplyOk(id) ==
    /\ claimed[id].phase = "accepted"
    /\ queue' = MarkSent(queue, id)
    /\ Applied(id)

\* A status outside the retryable ones.
ApplyPermanent(id) ==
    /\ claimed[id].phase = "sent"
    /\ queue' = MarkDead(queue, id)
    /\ Applied(id)

\* 429, 5xx, a network error or a timeout, even after MTA took the body.  The
\* schedule is indexed by the attempts the row had when it was claimed, and
\* counts from the `now` of the sweep.
ApplyRetryable(id) ==
    /\ claimed[id].phase # "waiting"
    /\ LET n == claimed[id].row.attempts
       IN queue' = IF n >= MaxAttempts
                   THEN MarkDead(queue, id)
                   ELSE MarkRetry(queue, id, RetrySchedule[n + 1] - age)
    /\ Applied(id)

\* The drain process is killed (subprocess timeout, redeploy): the rows it
\* had claimed stay as they are in the table.
Kill ==
    /\ claimed # NoClaims
    /\ kills < MaxKills
    /\ kills' = kills + 1
    /\ claimed' = NoClaims
    /\ UNCHANGED <<queue, lastId, age, rested, received, calls, replays, runVars>>

-----------------------------------------------------------------------------
\* The operator calls retry_dead_letters for some matches (None: for all).
Replay(ms) ==
    /\ replays < MaxReplays
    /\ \E id \in DOMAIN queue : queue[id].status = "dead" /\ queue[id].match \in ms
    /\ replays' = replays + 1
    /\ queue' = RetryDeadLetters(queue, ms)
    /\ UNCHANGED <<lastId, runVars, sweepVars>>

\* tick_sec go by.  A sweep that is still running is killed at its timeout.
Tick ==
    /\ claimed # NoClaims => age < SweepTimeout
    /\ queue' = Elapse(queue)
    /\ age' = IF claimed = NoClaims THEN 0 ELSE age + 1
    /\ rested' = (rested \/ claimed = NoClaims)
    /\ calls' = [this |-> 0, last |-> calls.this]
    /\ UNCHANGED <<lastId, claimed, received, kills, replays, runVars>>

Enqueue(r) ==
    \/ \E m \in Matches : Build(r, m)
    \/ Abandon(r)
    \/ SelectPending(r)
    \/ UpdatePending(r)
    \/ InsertPending(r)

Deliver(id) ==
    \/ Dispatch(id)
    \/ Receive(id)
    \/ ApplyOk(id)
    \/ ApplyPermanent(id)
    \/ ApplyRetryable(id)

Next ==
    \/ \E r \in Runs : Enqueue(r)
    \/ Claim
    \/ \E id \in DOMAIN claimed : Deliver(id)
    \/ Kill
    \/ \E ms \in SUBSET Matches : Replay(ms)
    \/ Tick

Spec == Init /\ [][Next]_vars

\* The loop keeps ticking, a due row is claimed at the next sweep, and every
\* POST ends (the client has a timeout) and is applied.  Nothing is assumed of
\* the runs, the operator, or of what the receiver answers.
Fairness ==
    /\ WF_vars(Tick)
    /\ WF_vars(Claim)
    /\ WF_vars(\E id \in DOMAIN claimed : Deliver(id))

FairSpec == Spec /\ Fairness

-----------------------------------------------------------------------------
(* Properties *)

\* "At most one PENDING row per match_id" (outbox.py).
OnePendingPerMatch ==
    \A i, j \in DOMAIN queue :
        /\ queue[i].status = "pending" /\ queue[j].status = "pending"
        /\ queue[i].match = queue[j].match
        => i = j

Held(m, v) == \E id \in DOMAIN queue : queue[id].match = m /\ queue[id].ver = v

\* The newest body handed to the outbox for a match is at the receiver or still in the
\* table, but for a body that the UPDATE of enqueue wrote into a row the drain had in
\* hand (or that was gone), or that an older one overwrote: no other order of enqueues,
\* sweeps, kills and replays loses a body.
LostOnlyByRace ==
    \A m \in Matches \ raced : received[m] >= queued[m] \/ Held(m, queued[m])

\* A row never outlives its retry schedule, though the worker decides with
\* the attempts it read at claim time while enqueue may reset them: a pending
\* row has used at most the whole schedule, a dead one has one attempt more.
RetriesAreBounded ==
    \A id \in DOMAIN queue :
        queue[id].attempts <=
            IF queue[id].status = "pending" THEN MaxAttempts ELSE MaxAttempts + 1

\* mark_dead: "never retried".  Only the operator brings a dead row back, and
\* until then no other process revives or deletes it.
DeadRowsStay ==
    \A id \in DOMAIN queue :
        queue[id].status = "dead" /\ replays' = replays =>
            id \in DOMAIN queue' /\ queue'[id].status = "dead"

DeadStaysDead == [][DeadRowsStay]_vars

\* What the sweep has in hand is a row of the table that is still pending:
\* the outcome of a POST is never applied to a row that was already settled,
\* and ids are never reused for another match.
ClaimsArePending ==
    \A id \in DOMAIN claimed :
        /\ id \in DOMAIN queue
        /\ queue[id].status = "pending"
        /\ queue[id].match = claimed[id].row.match

\* The inductive invariant behind RetriesAreBounded: a claimed row may have
\* been reset since, so it never counts more attempts than the copy that
\* decides whether there is another one.
AttemptInv ==
    /\ ClaimsArePending
    /\ RetriesAreBounded
    /\ \A id \in DOMAIN claimed : queue[id].attempts <= claimed[id].row.attempts

\* The row a run has selected belongs to its match: ids are never reused.
SelectedRowIsOurs ==
    \A r \in Runs : run[r].pc = "selected" =>
        /\ run[r].row <= lastId
        /\ run[r].row \in DOMAIN queue => queue[run[r].row].match = run[r].match

NothingNewerThanQueued ==
    \A id \in DOMAIN queue : queue[id].ver <= queued[queue[id].match]

\* A row in hand that holds the newest body of a match that did not race
\* still holds the body that was sent.
ClaimedIsNewest ==
    \A id \in DOMAIN claimed :
        LET m == claimed[id].row.match IN
        m \notin raced /\ queue[id].ver = queued[m] => claimed[id].row.ver = queued[m]

AcceptedIsReceived ==
    \A id \in DOMAIN claimed :
        claimed[id].phase = "accepted" =>
            received[claimed[id].row.match] >= claimed[id].row.ver

\* The inductive invariant behind LostOnlyByRace.
LossInv ==
    /\ SelectedRowIsOurs
    /\ NothingNewerThanQueued
    /\ ClaimedIsNewest
    /\ AcceptedIsReceived
    /\ LostOnlyByRace

\* What the budget of a sweep comes to: a minute is two ticks of 30 s, and two
\* sweeps may fall within it, whatever kills and backlogs come between.  (The
\* comment of worker.py speaks of rate_per_min in any rolling minute.)
TwoSweepsPerMinute == calls.this + calls.last <= 2 * RatePerMin

\* Every body handed to the outbox is at last received, dead-lettered,
\* replaced by a newer one, or lost by the race above.
EveryBodySettles ==
    \A m \in Matches : \A v \in 1 .. MaxVersion :
        queued[m] = v ~>
            \/ received[m] >= v
            \/ \E id \in DOMAIN queue : queue[id].match = m /\ queue[id].ver = v
                                          /\ queue[id].status = "dead"
            \/ queued[m] > v
            \/ m \in raced
=============================================================================
