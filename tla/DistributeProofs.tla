-------------------------- MODULE DistributeProofs --------------------------
(***************************************************************************)
(* Theorems about the outbound wire, for every value of its constants: the *)
(* invariants of Distribute, the budget of its sweeps, and that it         *)
(* implements Postbox, and with one run at a time Mailbox.  The last two   *)
(* parts are about the live feed of Market and the opportunities of        *)
(* Arbitrage, which share the instance MCDelivery with the wire.           *)
(***************************************************************************)
EXTENDS MCDelivery, DistributePostbox, FiniteSetTheorems, WellFoundedInduction, TLAPS

-----------------------------------------------------------------------------
(* Rows                                                                    *)

LEMMA RowFields ==
    ASSUME NEW row \in Row
    PROVE  /\ row.match \in Matches /\ row.ver \in Nat /\ row.attempts \in Nat
           /\ row.due \in Int /\ row.status \in {"pending", "dead"}
  BY DEF Row, Status

LEMMA PushRowFields ==
    ASSUME NEW m, NEW v, NEW n, NEW d, NEW s
    PROVE  /\ PushRow(m, v, n, d, s).match = m
           /\ PushRow(m, v, n, d, s).ver = v
           /\ PushRow(m, v, n, d, s).attempts = n
           /\ PushRow(m, v, n, d, s).status = s
  BY DEF PushRow

LEMMA PushRowType ==
    ASSUME NEW m \in Matches, NEW v \in Nat, NEW n \in Nat, NEW d \in Int,
           NEW s \in {"pending", "dead"}
    PROVE  PushRow(m, v, n, d, s) \in Row
  BY DEF PushRow, Row, Status

-----------------------------------------------------------------------------
(* What each SQL statement does to a table: it keeps it a table, and the     *)
(* rows it does not name keep their contents.                                *)

LEMMA OverwriteFacts ==
    ASSUME NEW q, NEW last \in Nat, IsTable(q, last), NEW id, NEW v \in Nat
    PROVE  LET p == Overwrite(q, id, v) IN
           /\ IsTable(p, last)
           /\ DOMAIN p = DOMAIN q
           /\ \A i \in DOMAIN q : i # id => p[i] = q[i]
           /\ id \in DOMAIN q => /\ p[id].match = q[id].match
                                 /\ p[id].ver = v
                                 /\ p[id].attempts = 0
                                 /\ p[id].status = q[id].status
<1>1. \A i \in DOMAIN q : q[i] \in Row
  BY DEF IsTable
<1>2. \A i \in DOMAIN q : PushRow(q[i].match, v, 0, 0, q[i].status) \in Row
  <2> SUFFICES ASSUME NEW i \in DOMAIN q
               PROVE  PushRow(q[i].match, v, 0, 0, q[i].status) \in Row
    OBVIOUS
  <2>1. q[i].match \in Matches /\ q[i].status \in {"pending", "dead"}
    BY <1>1, RowFields
  <2>2. QED BY <2>1, PushRowType
<1>3. Overwrite(q, id, v) \in [DOMAIN q -> Row]
  BY <1>1, <1>2 DEF Overwrite
<1>4. DOMAIN q \subseteq 1 .. last
  BY DEF IsTable
<1>5. DOMAIN Overwrite(q, id, v) = DOMAIN q
  BY <1>3
<1>6. IsTable(Overwrite(q, id, v), last)
  BY <1>3, <1>4, <1>5 DEF IsTable
<1>7. QED
  BY <1>5, <1>6, PushRowFields DEF Overwrite

LEMMA InsertType ==
    ASSUME NEW q, NEW last \in Nat, IsTable(q, last), NEW m \in Matches, NEW v \in Nat,
           NEW id \in Nat, id > last
    PROVE  IsTable(InsertRow(q, id, m, v), id) /\ id \notin DOMAIN q
<1>1. \A i \in DOMAIN q : q[i] \in Row
  BY DEF IsTable
<1>2. PushRow(m, v, 0, 0, "pending") \in Row
  BY PushRowType
<1>3. InsertRow(q, id, m, v) \in [DOMAIN q \cup {id} -> Row]
  BY <1>1, <1>2 DEF InsertRow
<1>4. DOMAIN q \subseteq 1 .. last
  BY DEF IsTable
<1>5. DOMAIN InsertRow(q, id, m, v) = DOMAIN q \cup {id}
  BY <1>3
<1>6. IsTable(InsertRow(q, id, m, v), id)
  BY <1>3, <1>4, <1>5 DEF IsTable
<1>7. id \notin DOMAIN q
  BY <1>4
<1>8. QED
  BY <1>6, <1>7

LEMMA SentFacts ==
    ASSUME NEW q, NEW last \in Nat, IsTable(q, last), NEW id
    PROVE  LET p == MarkSent(q, id) IN
           /\ IsTable(p, last)
           /\ DOMAIN p = DOMAIN q \ {id}
           /\ \A i \in DOMAIN p : p[i] = q[i]
  BY DEF IsTable, MarkSent

LEMMA RetryFacts ==
    ASSUME NEW q, NEW last \in Nat, IsTable(q, last), NEW id, NEW w \in Int
    PROVE  LET p == MarkRetry(q, id, w) IN
           /\ IsTable(p, last)
           /\ DOMAIN p = DOMAIN q
           /\ \A i \in DOMAIN q : i # id => p[i] = q[i]
           /\ id \in DOMAIN q => /\ p[id].match = q[id].match
                                 /\ p[id].ver = q[id].ver
                                 /\ p[id].attempts = q[id].attempts + 1
                                 /\ p[id].status = q[id].status
<1>1. \A i \in DOMAIN q : q[i] \in Row
  BY DEF IsTable
<1>2. \A i \in DOMAIN q :
        PushRow(q[i].match, q[i].ver, q[i].attempts + 1, w, q[i].status) \in Row
  <2> SUFFICES ASSUME NEW i \in DOMAIN q
               PROVE  PushRow(q[i].match, q[i].ver, q[i].attempts + 1, w, q[i].status) \in Row
    OBVIOUS
  <2>1. /\ q[i].match \in Matches /\ q[i].ver \in Nat /\ q[i].attempts + 1 \in Nat
        /\ q[i].status \in {"pending", "dead"}
    BY <1>1, RowFields
  <2>2. QED BY <2>1, PushRowType
<1>3. MarkRetry(q, id, w) \in [DOMAIN q -> Row]
  BY <1>1, <1>2 DEF MarkRetry
<1>4. DOMAIN MarkRetry(q, id, w) = DOMAIN q
  BY <1>3
<1>5. IsTable(MarkRetry(q, id, w), last)
  BY <1>3, <1>4 DEF IsTable
<1>6. QED
  BY <1>4, <1>5, PushRowFields DEF MarkRetry

LEMMA DeadFacts ==
    ASSUME NEW q, NEW last \in Nat, IsTable(q, last), NEW id
    PROVE  LET p == MarkDead(q, id) IN
           /\ IsTable(p, last)
           /\ DOMAIN p = DOMAIN q
           /\ \A i \in DOMAIN q : i # id => p[i] = q[i]
           /\ id \in DOMAIN q => /\ p[id].match = q[id].match
                                 /\ p[id].ver = q[id].ver
                                 /\ p[id].attempts = q[id].attempts + 1
                                 /\ p[id].status = "dead"
<1>1. \A i \in DOMAIN q : q[i] \in Row
  BY DEF IsTable
<1>2. \A i \in DOMAIN q :
        PushRow(q[i].match, q[i].ver, q[i].attempts + 1, q[i].due, "dead") \in Row
  <2> SUFFICES ASSUME NEW i \in DOMAIN q
               PROVE  PushRow(q[i].match, q[i].ver, q[i].attempts + 1, q[i].due, "dead") \in Row
    OBVIOUS
  <2>1. /\ q[i].match \in Matches /\ q[i].ver \in Nat /\ q[i].attempts + 1 \in Nat
        /\ q[i].due \in Int
    BY <1>1, RowFields
  <2>2. QED BY <2>1, PushRowType
<1>3. MarkDead(q, id) \in [DOMAIN q -> Row]
  BY <1>1, <1>2 DEF MarkDead
<1>4. DOMAIN MarkDead(q, id) = DOMAIN q
  BY <1>3
<1>5. IsTable(MarkDead(q, id), last)
  BY <1>3, <1>4 DEF IsTable
<1>6. QED
  BY <1>4, <1>5, PushRowFields DEF MarkDead

LEMMA ReplayFacts ==
    ASSUME NEW q, NEW last \in Nat, IsTable(q, last), NEW ms
    PROVE  LET p == RetryDeadLetters(q, ms) IN
           /\ IsTable(p, last)
           /\ DOMAIN p = DOMAIN q
           /\ \A i \in DOMAIN q : /\ p[i].match = q[i].match
                                  /\ p[i].ver = q[i].ver
                                  /\ q[i].status = "pending" => p[i] = q[i]
                                  /\ p[i] = q[i] \/ p[i].attempts = 0
<1>1. \A i \in DOMAIN q : q[i] \in Row
  BY DEF IsTable
<1>2. \A i \in DOMAIN q : PushRow(q[i].match, q[i].ver, 0, 0, "pending") \in Row
  BY <1>1, RowFields, PushRowType
<1>3. RetryDeadLetters(q, ms) \in [DOMAIN q -> Row]
  BY <1>1, <1>2 DEF RetryDeadLetters
<1>4. DOMAIN RetryDeadLetters(q, ms) = DOMAIN q
  BY <1>3
<1>5. IsTable(RetryDeadLetters(q, ms), last)
  BY <1>3, <1>4 DEF IsTable
<1>6. QED
  BY <1>4, <1>5, PushRowFields DEF RetryDeadLetters

LEMMA ElapseFacts ==
    ASSUME NEW q, NEW last \in Nat, IsTable(q, last)
    PROVE  LET p == Elapse(q) IN
           /\ IsTable(p, last)
           /\ DOMAIN p = DOMAIN q
           /\ \A i \in DOMAIN q : /\ p[i].match = q[i].match
                                  /\ p[i].ver = q[i].ver
                                  /\ p[i].attempts = q[i].attempts
                                  /\ p[i].status = q[i].status
<1>1. \A i \in DOMAIN q : q[i] \in Row
  BY DEF IsTable
<1>2. \A i \in DOMAIN q :
        PushRow(q[i].match, q[i].ver, q[i].attempts, q[i].due - 1, "pending") \in Row
  <2> SUFFICES ASSUME NEW i \in DOMAIN q
               PROVE  PushRow(q[i].match, q[i].ver, q[i].attempts, q[i].due - 1, "pending") \in Row
    OBVIOUS
  <2>1. /\ q[i].match \in Matches /\ q[i].ver \in Nat /\ q[i].attempts \in Nat
        /\ q[i].due - 1 \in Int
    BY <1>1, RowFields
  <2>2. QED BY <2>1, PushRowType
<1>3. Elapse(q) \in [DOMAIN q -> Row]
  BY <1>1, <1>2 DEF Elapse
<1>4. DOMAIN Elapse(q) = DOMAIN q
  BY <1>3
<1>5. IsTable(Elapse(q), last)
  BY <1>3, <1>4 DEF IsTable
<1>6. QED
  BY <1>4, <1>5, PushRowFields DEF Elapse

-----------------------------------------------------------------------------
(* Type correctness *)

LEMMA TypeInit == Init => TypeOK
<1> SUFFICES ASSUME Init PROVE TypeOK
  OBVIOUS
<1>1. IsTable(queue, lastId)
  BY DEF Init, EmptyTable, IsTable
<1>2. claimed \in [DOMAIN claimed -> ClaimedRow] /\ DOMAIN claimed \subseteq 1 .. lastId
  BY DEF Init, NoClaims
<1>3. QED
  BY <1>1, <1>2, DistributeAssumption DEF Init, TypeOK, RunState, Idle, Version

\* A run that is past the SELECT holds a match, a version and a row id.
LEMMA RunFields ==
    ASSUME NEW s \in RunState
    PROVE  /\ s # Idle => s.match \in Matches /\ s.ver \in Version
           /\ s.pc = "built" => s # Idle
           /\ s.pc = "selected" => s # Idle /\ s.row \in Nat
  BY DEF RunState, Idle

LEMMA ClaimedFields ==
    ASSUME NEW c \in ClaimedRow
    PROVE  c.row \in Row /\ c.phase \in Phase
  BY DEF ClaimedRow

LEMMA TypeEnqueue ==
    ASSUME TypeOK, NEW r \in Runs, Enqueue(r)
    PROVE  TypeOK'
<1> USE DistributeAssumption
<1>0. run[r] \in RunState
  BY DEF TypeOK
<1>1. ASSUME NEW m \in Matches, Build(r, m) PROVE TypeOK'
  <2>1. built[m] + 1 \in Version
    BY <1>1 DEF TypeOK, Build, Version
  <2>2. [pc |-> "built", match |-> m, ver |-> built[m] + 1] \in RunState
    BY <2>1 DEF RunState
  <2>3. QED
    BY <1>1, <2>1, <2>2 DEF TypeOK, Build, sweepVars
<1>2. CASE Abandon(r)
  <2>1. Idle \in RunState
    BY DEF RunState
  <2>2. QED
    BY <1>2, <2>1 DEF TypeOK, Abandon, sweepVars
<1>3. CASE SelectPending(r)
  <2>1. PICK id \in (IF PendingOf(queue, run[r].match) = {} THEN {NoRow}
                     ELSE PendingOf(queue, run[r].match)) :
          run' = [run EXCEPT ![r] = [pc |-> "selected", match |-> run[r].match,
                                     ver |-> run[r].ver, row |-> id]]
    BY <1>3 DEF SelectPending
  <2>2. id \in Nat
    BY DEF TypeOK, IsTable, PendingOf, NoRow
  <2>3. run[r].match \in Matches /\ run[r].ver \in Version
    BY <1>0, <1>3, RunFields DEF SelectPending
  <2>4. [pc |-> "selected", match |-> run[r].match, ver |-> run[r].ver, row |-> id]
          \in RunState
    BY <2>2, <2>3 DEF RunState
  <2>5. QED
    BY <1>3, <2>1, <2>4 DEF TypeOK, SelectPending, sweepVars
<1>4. ASSUME run[r].pc = "selected", NoteQueued(r)
      PROVE  queued' \in [Matches -> Version] /\ raced' \in SUBSET Matches
  <2>1. run[r].match \in Matches /\ run[r].ver \in Version
    BY <1>0, <1>4, RunFields
  <2>2. QED
    BY <1>4, <2>1 DEF NoteQueued, TypeOK
<1>5. CASE UpdatePending(r)
  <2>1. run[r].ver \in Nat /\ run[r].pc = "selected"
    BY <1>0, <1>5, RunFields DEF UpdatePending, Version
  <2>2. IsTable(queue', lastId')
    BY <1>5, <2>1, OverwriteFacts DEF UpdatePending, TypeOK
  <2>3. Idle \in RunState
    BY DEF RunState
  <2>4. queued' \in [Matches -> Version] /\ raced' \in SUBSET Matches
    BY <1>4, <1>5, <2>1 DEF UpdatePending
  <2>5. QED
    BY <1>5, <2>2, <2>3, <2>4 DEF TypeOK, UpdatePending, sweepVars
<1>6. CASE InsertPending(r)
  <2>1. run[r].ver \in Nat /\ run[r].pc = "selected" /\ run[r].match \in Matches
    BY <1>0, <1>6, RunFields DEF InsertPending, Version
  <2>2. IsTable(queue', lastId')
    <3>1. PICK new \in Nat :
            /\ new > lastId /\ lastId' = new
            /\ queue' = InsertRow(queue, new, run[r].match, run[r].ver)
      BY <1>6 DEF InsertPending, TypeOK
    <3>2. QED
      BY <2>1, <3>1, InsertType DEF TypeOK
  <2>3. Idle \in RunState
    BY DEF RunState
  <2>4. queued' \in [Matches -> Version] /\ raced' \in SUBSET Matches
    BY <1>4, <1>6, <2>1 DEF InsertPending
  <2>5. claimed' \in [DOMAIN claimed' -> ClaimedRow] /\ DOMAIN claimed' \subseteq 1 .. lastId'
    BY <1>6 DEF InsertPending, TypeOK, sweepVars
  <2>6. QED
    BY <1>6, <2>2, <2>3, <2>4, <2>5 DEF TypeOK, InsertPending, sweepVars
<1>7. QED
  BY <1>1, <1>2, <1>3, <1>5, <1>6 DEF Enqueue

LEMMA ClaimDuePending ==
    ASSUME NEW q, NEW n, NEW id \in ClaimDue(q, n)
    PROVE  id \in DOMAIN q /\ q[id].status = "pending"
  BY DEF ClaimDue, DueIds

LEMMA TypeDeliver ==
    ASSUME TypeOK, NEW id \in DOMAIN claimed, Deliver(id)
    PROVE  TypeOK'
<1>0. /\ claimed[id].row \in Row /\ claimed[id].row.match \in Matches
      /\ claimed[id].row.ver \in Nat /\ claimed[id].row.attempts \in Nat
  BY ClaimedFields, RowFields DEF TypeOK
<1>1. ASSUME NEW ph \in Phase,
             claimed' = [claimed EXCEPT ![id] = [row |-> @.row, phase |-> ph]]
      PROVE  claimed' \in [DOMAIN claimed' -> ClaimedRow] /\ DOMAIN claimed' = DOMAIN claimed
  <2>1. [row |-> claimed[id].row, phase |-> ph] \in ClaimedRow
    BY <1>0 DEF ClaimedRow
  <2>2. QED
    BY <1>1, <2>1 DEF TypeOK
<1>2. CASE Dispatch(id)
  <2>1. claimed' \in [DOMAIN claimed' -> ClaimedRow] /\ DOMAIN claimed' = DOMAIN claimed
    BY <1>1, <1>2 DEF Dispatch, Phase
  <2>2. calls' \in [this : Nat, last : Nat]
    BY <1>2 DEF Dispatch, TypeOK
  <2>3. QED
    BY <1>2, <2>1, <2>2 DEF TypeOK, Dispatch, runVars
<1>3. CASE Receive(id)
  <2>1. claimed' \in [DOMAIN claimed' -> ClaimedRow] /\ DOMAIN claimed' = DOMAIN claimed
    BY <1>1, <1>3 DEF Receive, Phase
  <2>2. received' \in [Matches -> Nat]
    BY <1>0, <1>3 DEF Receive, TypeOK
  <2>3. QED
    BY <1>3, <2>1, <2>2 DEF TypeOK, Receive, runVars
<1>4. ASSUME Applied(id), IsTable(queue', lastId)
      PROVE  TypeOK'
  <2>1. claimed' \in [DOMAIN claimed' -> ClaimedRow] /\ DOMAIN claimed' \subseteq 1 .. lastId
    BY <1>4 DEF Applied, TypeOK
  <2>2. QED
    BY <1>4, <2>1 DEF TypeOK, Applied, runVars
<1>5. CASE ApplyOk(id)
  BY <1>4, <1>5, SentFacts DEF ApplyOk, TypeOK
<1>6. CASE ApplyPermanent(id)
  BY <1>4, <1>6, DeadFacts DEF ApplyPermanent, TypeOK
<1>7. CASE ApplyRetryable(id)
  <2>1. CASE claimed[id].row.attempts >= MaxAttempts
    BY <1>4, <1>7, <2>1, DeadFacts DEF ApplyRetryable, TypeOK
  <2>2. CASE ~(claimed[id].row.attempts >= MaxAttempts)
    <3>1. RetrySchedule[claimed[id].row.attempts + 1] \in Nat
      BY <1>0, <2>2, OutboxAssumption DEF MaxAttempts
    <3>2. RetrySchedule[claimed[id].row.attempts + 1] - age \in Int
      BY <3>1 DEF TypeOK
    <3>3. QED
      BY <1>4, <1>7, <2>2, <3>2, RetryFacts DEF ApplyRetryable, TypeOK
  <2>3. QED BY <2>1, <2>2
<1>8. QED
  BY <1>2, <1>3, <1>5, <1>6, <1>7 DEF Deliver

LEMMA TypeStep == TypeOK /\ [Next]_vars => TypeOK'
<1> SUFFICES ASSUME TypeOK, [Next]_vars PROVE TypeOK'
  OBVIOUS
<1>1. CASE \E r \in Runs : Enqueue(r)
  BY <1>1, TypeEnqueue
<1>2. CASE Claim
  <2>1. \A id \in ClaimDue(queue, RatePerMin) : id \in DOMAIN queue
    BY ClaimDuePending
  <2>2. \A id \in ClaimDue(queue, RatePerMin) :
          [row |-> queue[id], phase |-> "waiting"] \in ClaimedRow
    BY <2>1 DEF TypeOK, IsTable, ClaimedRow, Phase
  <2>3. claimed' \in [DOMAIN claimed' -> ClaimedRow] /\ DOMAIN claimed' \subseteq 1 .. lastId
    BY <1>2, <2>1, <2>2 DEF Claim, TypeOK, IsTable
  <2>4. QED
    BY <1>2, <2>3 DEF TypeOK, Claim, runVars
<1>3. CASE \E id \in DOMAIN claimed : Deliver(id)
  BY <1>3, TypeDeliver
<1>4. CASE Kill
  <2>1. claimed' \in [DOMAIN claimed' -> ClaimedRow] /\ DOMAIN claimed' \subseteq 1 .. lastId
    BY <1>4 DEF Kill, NoClaims
  <2>2. kills' \in 0 .. MaxKills
    BY <1>4, DistributeAssumption DEF Kill, TypeOK
  <2>3. QED
    BY <1>4, <2>1, <2>2 DEF TypeOK, Kill, runVars
<1>5. ASSUME NEW ms \in SUBSET Matches, Replay(ms) PROVE TypeOK'
  <2>1. IsTable(queue', lastId)
    BY <1>5, ReplayFacts DEF Replay, TypeOK
  <2>2. replays' \in 0 .. MaxReplays
    BY <1>5, DistributeAssumption DEF Replay, TypeOK
  <2>3. QED
    BY <1>5, <2>1, <2>2 DEF TypeOK, Replay, runVars, sweepVars
<1>6. CASE Tick
  <2>1. IsTable(queue', lastId)
    BY <1>6, ElapseFacts DEF Tick, TypeOK
  <2>2. calls' \in [this : Nat, last : Nat]
    BY <1>6 DEF Tick, TypeOK
  <2>3. age' \in Nat /\ rested' \in BOOLEAN
    BY <1>6 DEF Tick, TypeOK
  <2>4. QED
    BY <1>6, <2>1, <2>2, <2>3 DEF TypeOK, Tick, runVars
<1>7. CASE UNCHANGED vars
  BY <1>7 DEF TypeOK, vars
<1>8. QED
  BY <1>1, <1>2, <1>3, <1>4, <1>5, <1>6, <1>7 DEF Next

\* The state of the wire always has its type: the table holds well-formed
\* rows with ids AUTOINCREMENT has given out, and the sweep only such ids.
THEOREM TypeCorrect == Spec => []TypeOK
  BY TypeInit, TypeStep, PTL DEF Spec

-----------------------------------------------------------------------------
(* Retries are bounded *)

LEMMA AttemptInit == Init => AttemptInv
  BY DEF Init, EmptyTable, NoClaims, AttemptInv, ClaimsArePending, RetriesAreBounded

\* The table and the claims after a step that leaves both alone.
LEMMA AttemptUnchanged ==
    ASSUME AttemptInv, UNCHANGED <<queue, claimed>>
    PROVE  AttemptInv'
  BY DEF AttemptInv, ClaimsArePending, RetriesAreBounded

LEMMA AttemptEnqueue ==
    ASSUME TypeOK, AttemptInv, NEW r \in Runs, Enqueue(r)
    PROVE  AttemptInv'
<1>0. run[r] \in RunState /\ MaxAttempts \in Nat
  BY OutboxAssumption DEF TypeOK, MaxAttempts
<1>1. CASE (\E m \in Matches : Build(r, m)) \/ Abandon(r) \/ SelectPending(r)
  BY <1>1, AttemptUnchanged DEF Build, Abandon, SelectPending, sweepVars
<1>2. CASE UpdatePending(r)
  <2> DEFINE row == run[r].row
  <2>1. run[r].ver \in Nat
    BY <1>0, <1>2, RunFields DEF UpdatePending, Version
  <2>2. /\ DOMAIN queue' = DOMAIN queue
        /\ \A i \in DOMAIN queue : i # row => queue'[i] = queue[i]
        /\ row \in DOMAIN queue => /\ queue'[row].match = queue[row].match
                                   /\ queue'[row].attempts = 0
                                   /\ queue'[row].status = queue[row].status
    BY <1>2, <2>1, OverwriteFacts DEF UpdatePending, TypeOK
  <2>3. claimed' = claimed
    BY <1>2 DEF UpdatePending, sweepVars
  <2>4. \A id \in DOMAIN claimed : claimed[id].row.attempts \in Nat
    BY ClaimedFields, RowFields DEF TypeOK
  <2>5. ClaimsArePending'
    BY <2>2, <2>3 DEF AttemptInv, ClaimsArePending
  <2>6. RetriesAreBounded'
    BY <1>0, <2>2 DEF AttemptInv, RetriesAreBounded
  <2>7. \A id \in DOMAIN claimed' : queue'[id].attempts <= claimed'[id].row.attempts
    BY <2>2, <2>3, <2>4 DEF AttemptInv, ClaimsArePending
  <2>8. QED
    BY <2>5, <2>6, <2>7 DEF AttemptInv
<1>3. CASE InsertPending(r)
  <2>1. run[r].ver \in Nat /\ run[r].match \in Matches
    BY <1>0, <1>3, RunFields DEF InsertPending, Version
  <2>0. PICK new : queue' = InsertRow(queue, new, run[r].match, run[r].ver)
                   /\ new \notin DOMAIN queue
    <3>1. lastId + 1 \notin DOMAIN queue
      BY DEF TypeOK, IsTable
    <3>2. QED
      BY <1>3, <3>1 DEF InsertPending
  <2>2. /\ DOMAIN queue' = DOMAIN queue \cup {new}
        /\ \A i \in DOMAIN queue : queue'[i] = queue[i]
        /\ queue'[new].attempts = 0
        /\ new \notin DOMAIN queue
    BY <2>0, PushRowFields DEF InsertRow
  <2>3. claimed' = claimed
    BY <1>3 DEF InsertPending, sweepVars
  <2>4. ClaimsArePending'
    BY <2>2, <2>3 DEF AttemptInv, ClaimsArePending
  <2>5. RetriesAreBounded'
    BY <1>0, <2>2 DEF AttemptInv, RetriesAreBounded
  <2>6. \A id \in DOMAIN claimed' : queue'[id].attempts <= claimed'[id].row.attempts
    BY <2>2, <2>3 DEF AttemptInv, ClaimsArePending
  <2>7. QED
    BY <2>4, <2>5, <2>6 DEF AttemptInv
<1>4. QED
  BY <1>1, <1>2, <1>3 DEF Enqueue

LEMMA AttemptDeliver ==
    ASSUME TypeOK, AttemptInv, NEW id \in DOMAIN claimed, Deliver(id)
    PROVE  AttemptInv'
<1>0. /\ claimed[id].row \in Row /\ claimed[id].row.attempts \in Nat /\ MaxAttempts \in Nat
      /\ id \in DOMAIN queue /\ queue[id].status = "pending"
      /\ queue[id].attempts <= claimed[id].row.attempts
      /\ queue[id].attempts \in Nat /\ queue[id].attempts <= MaxAttempts
  <2>1. claimed[id].row \in Row /\ claimed[id].row.attempts \in Nat /\ MaxAttempts \in Nat
    BY ClaimedFields, RowFields, OutboxAssumption DEF TypeOK, MaxAttempts
  <2>2. id \in DOMAIN queue /\ queue[id].status = "pending"
    BY DEF AttemptInv, ClaimsArePending
  <2>3. queue[id].attempts \in Nat
    BY <2>2, RowFields DEF TypeOK, IsTable
  <2>4. QED
    BY <2>1, <2>2, <2>3 DEF AttemptInv, RetriesAreBounded
<1>1. CASE Dispatch(id) \/ Receive(id)
  <2>1. /\ queue' = queue
        /\ DOMAIN claimed' = DOMAIN claimed
        /\ \A j \in DOMAIN claimed : claimed'[j].row = claimed[j].row
    BY <1>1 DEF Dispatch, Receive, TypeOK
  <2>2. QED
    BY <2>1 DEF AttemptInv, ClaimsArePending, RetriesAreBounded
\* The rows still claimed are not the one the outcome is applied to.
<1>2. ASSUME Applied(id),
             DOMAIN queue \ {id} \subseteq DOMAIN queue',
             \A j \in DOMAIN queue \ {id} : queue'[j] = queue[j],
             DOMAIN queue' \subseteq DOMAIN queue,
             id \in DOMAIN queue' =>
               queue'[id].attempts <= (IF queue'[id].status = "pending"
                                       THEN MaxAttempts ELSE MaxAttempts + 1)
      PROVE  AttemptInv'
  <2>1. /\ DOMAIN claimed' = DOMAIN claimed \ {id}
        /\ \A j \in DOMAIN claimed \ {id} : claimed'[j] = claimed[j]
    BY <1>2 DEF Applied
  <2>2. ClaimsArePending'
    BY <1>2, <2>1 DEF AttemptInv, ClaimsArePending
  <2>3. RetriesAreBounded'
    BY <1>2 DEF AttemptInv, RetriesAreBounded
  <2>4. \A j \in DOMAIN claimed' : queue'[j].attempts <= claimed'[j].row.attempts
    BY <1>2, <2>1 DEF AttemptInv, ClaimsArePending
  <2>5. QED
    BY <2>2, <2>3, <2>4 DEF AttemptInv
<1>3. CASE ApplyOk(id)
  <2>1. DOMAIN queue' = DOMAIN queue \ {id} /\ \A j \in DOMAIN queue' : queue'[j] = queue[j]
    BY <1>3, SentFacts DEF ApplyOk, TypeOK
  <2>2. QED
    BY <1>2, <1>3, <2>1 DEF ApplyOk
<1>4. ASSUME queue' = MarkDead(queue, id), Applied(id)
      PROVE  AttemptInv'
  <2>1. /\ DOMAIN queue' = DOMAIN queue
        /\ \A j \in DOMAIN queue : j # id => queue'[j] = queue[j]
        /\ queue'[id].attempts = queue[id].attempts + 1
        /\ queue'[id].status = "dead"
    BY <1>0, <1>4, DeadFacts DEF TypeOK
  <2>2. QED
    BY <1>0, <1>2, <1>4, <2>1
<1>5. CASE ApplyPermanent(id)
  BY <1>4, <1>5 DEF ApplyPermanent
<1>6. CASE ApplyRetryable(id)
  <2>1. CASE claimed[id].row.attempts >= MaxAttempts
    BY <1>4, <1>6, <2>1 DEF ApplyRetryable
  <2>2. CASE ~(claimed[id].row.attempts >= MaxAttempts)
    <3>1. RetrySchedule[claimed[id].row.attempts + 1] \in Nat
      BY <1>0, <2>2, OutboxAssumption DEF MaxAttempts
    <3>2. RetrySchedule[claimed[id].row.attempts + 1] - age \in Int
      BY <3>1 DEF TypeOK
    <3>3. /\ DOMAIN queue' = DOMAIN queue
          /\ \A j \in DOMAIN queue : j # id => queue'[j] = queue[j]
          /\ queue'[id].attempts = queue[id].attempts + 1
          /\ queue'[id].status = "pending"
      BY <1>0, <1>6, <2>2, <3>2, RetryFacts DEF ApplyRetryable, TypeOK
    <3>4. queue'[id].attempts <= MaxAttempts
      BY <1>0, <2>2, <3>3
    <3>5. QED
      BY <1>2, <1>6, <3>3, <3>4 DEF ApplyRetryable
  <2>3. QED BY <2>1, <2>2
<1>7. QED
  BY <1>1, <1>3, <1>5, <1>6 DEF Deliver

LEMMA AttemptStep == TypeOK /\ AttemptInv /\ [Next]_vars => AttemptInv'
<1> SUFFICES ASSUME TypeOK, AttemptInv, [Next]_vars PROVE AttemptInv'
  OBVIOUS
<1>0. MaxAttempts \in Nat
  BY OutboxAssumption DEF MaxAttempts
<1>1. CASE \E r \in Runs : Enqueue(r)
  BY <1>1, AttemptEnqueue
<1>2. CASE Claim
  <2>1. /\ queue' = queue
        /\ \A id \in DOMAIN claimed' : /\ id \in DOMAIN queue
                                       /\ queue[id].status = "pending"
                                       /\ claimed'[id].row = queue[id]
    BY <1>2, ClaimDuePending DEF Claim
  <2>2. \A id \in DOMAIN queue : queue[id].attempts \in Nat
    BY RowFields DEF TypeOK, IsTable
  <2>3. QED
    BY <2>1, <2>2 DEF AttemptInv, ClaimsArePending, RetriesAreBounded
<1>3. CASE \E id \in DOMAIN claimed : Deliver(id)
  BY <1>3, AttemptDeliver
<1>4. CASE Kill
  BY <1>4 DEF Kill, NoClaims, AttemptInv, ClaimsArePending, RetriesAreBounded
<1>5. ASSUME NEW ms \in SUBSET Matches, Replay(ms) PROVE AttemptInv'
  <2>1. /\ DOMAIN queue' = DOMAIN queue
        /\ \A i \in DOMAIN queue : /\ queue'[i].match = queue[i].match
                                   /\ queue[i].status = "pending" => queue'[i] = queue[i]
                                   /\ queue'[i] = queue[i] \/ queue'[i].attempts = 0
    BY <1>5, ReplayFacts DEF Replay, TypeOK
  <2>2. claimed' = claimed
    BY <1>5 DEF Replay, sweepVars
  <2>3. ASSUME NEW id \in DOMAIN claimed
        PROVE  /\ id \in DOMAIN queue /\ queue'[id] = queue[id]
               /\ queue[id].status = "pending"
               /\ queue[id].match = claimed[id].row.match
               /\ queue[id].attempts <= claimed[id].row.attempts
    <3>1. /\ id \in DOMAIN queue /\ queue[id].status = "pending"
          /\ queue[id].match = claimed[id].row.match
          /\ queue[id].attempts <= claimed[id].row.attempts
      BY DEF AttemptInv, ClaimsArePending
    <3>2. queue'[id] = queue[id]
      BY <2>1, <3>1
    <3>3. QED
      BY <3>1, <3>2
  <2>4. ClaimsArePending'
    BY <2>1, <2>2, <2>3 DEF ClaimsArePending
  <2>5. ASSUME NEW id \in DOMAIN queue
        PROVE  queue'[id].attempts <= (IF queue'[id].status = "pending"
                                       THEN MaxAttempts ELSE MaxAttempts + 1)
    <3>1. CASE queue'[id] = queue[id]
      BY <3>1 DEF AttemptInv, RetriesAreBounded
    <3>2. CASE queue'[id].attempts = 0
      BY <1>0, <3>2
    <3>3. QED
      BY <2>1, <3>1, <3>2
  <2>6. QED
    BY <2>1, <2>2, <2>3, <2>4, <2>5 DEF AttemptInv, RetriesAreBounded
<1>6. CASE Tick
  <2>1. /\ DOMAIN queue' = DOMAIN queue
        /\ \A i \in DOMAIN queue : /\ queue'[i].match = queue[i].match
                                   /\ queue'[i].status = queue[i].status
                                   /\ queue'[i].attempts = queue[i].attempts
    BY <1>6, ElapseFacts DEF Tick, TypeOK
  <2>2. claimed' = claimed
    BY <1>6 DEF Tick
  <2>3. QED
    BY <2>1, <2>2 DEF AttemptInv, ClaimsArePending, RetriesAreBounded
<1>7. CASE UNCHANGED vars
  BY <1>7, AttemptUnchanged DEF vars
<1>8. QED
  BY <1>1, <1>2, <1>3, <1>4, <1>5, <1>6, <1>7 DEF Next

\* No row outlives its retry schedule, and the outcome of a POST is applied
\* only to a row that is still pending, for any schedule, number of runs,
\* kills and replays.
THEOREM RetriesBounded == Spec => [](RetriesAreBounded /\ ClaimsArePending)
<1>1. AttemptInv => RetriesAreBounded /\ ClaimsArePending
  BY DEF AttemptInv
<1>2. QED
  BY <1>1, AttemptInit, AttemptStep, TypeCorrect, PTL DEF Spec

\* The outcome of a POST is never applied by an id whose row was settled, died or was
\* replaced meanwhile: one drain at a time, whatever runs, kills and replays do.
THEOREM ClaimsStayPending == Spec => []ClaimsArePending
<1>1. QED
  BY RetriesBounded, PTL

-----------------------------------------------------------------------------
(* Dead rows                                                               *)

LEMMA DeadDeliver ==
    ASSUME TypeOK, ClaimsArePending, NEW id \in DOMAIN claimed, Deliver(id)
    PROVE  DeadRowsStay
<1>1. /\ id \in DOMAIN queue /\ queue[id].status = "pending"
      /\ IsTable(queue, lastId) /\ lastId \in Nat /\ age \in Nat
  BY DEF ClaimsArePending, TypeOK
<1>2. CASE Dispatch(id) \/ Receive(id)
  BY <1>2 DEF Dispatch, Receive, DeadRowsStay
<1>3. CASE ApplyOk(id)
  BY <1>1, <1>3 DEF ApplyOk, MarkSent, DeadRowsStay
<1>4. CASE ApplyPermanent(id)
  BY <1>1, <1>4, DeadFacts DEF ApplyPermanent, DeadRowsStay
<1>5. CASE ApplyRetryable(id)
  <2>1. \/ queue' = MarkDead(queue, id)
        \/ \E wait : queue' = MarkRetry(queue, id, wait)
    BY <1>5 DEF ApplyRetryable
  <2>2. CASE queue' = MarkDead(queue, id)
    BY <1>1, <2>2, DeadFacts DEF DeadRowsStay
  <2>3. ASSUME NEW wait, queue' = MarkRetry(queue, id, wait) PROVE DeadRowsStay
    BY <1>1, <2>3 DEF MarkRetry, DeadRowsStay
  <2>4. QED
    BY <2>1, <2>2, <2>3
<1>6. QED
  BY <1>2, <1>3, <1>4, <1>5 DEF Deliver

LEMMA DeadEnqueue ==
    ASSUME TypeOK, NEW r \in Runs, Enqueue(r)
    PROVE  DeadRowsStay
<1>1. IsTable(queue, lastId) /\ lastId \in Nat /\ run[r] \in RunState
  BY DEF TypeOK
<1>2. CASE (\E m \in Matches : Build(r, m)) \/ Abandon(r) \/ SelectPending(r)
  BY <1>2 DEF Build, Abandon, SelectPending, DeadRowsStay
<1>3. CASE UpdatePending(r)
  <2>1. queue' = Overwrite(queue, run[r].row, run[r].ver) /\ run[r].ver \in Nat
    BY <1>1, <1>3, RunFields DEF UpdatePending, Version
  <2>2. QED
    BY <1>1, <2>1, OverwriteFacts DEF DeadRowsStay
<1>4. CASE InsertPending(r)
  <2>1. queue' = InsertRow(queue, lastId + 1, run[r].match, run[r].ver)
    BY <1>4 DEF InsertPending
  <2>2. lastId + 1 \notin DOMAIN queue
    BY <1>1 DEF IsTable
  <2>3. QED
    BY <2>1, <2>2 DEF InsertRow, DeadRowsStay
<1>5. QED
  BY <1>2, <1>3, <1>4 DEF Enqueue

LEMMA DeadStep == TypeOK /\ AttemptInv /\ [Next]_vars => DeadRowsStay
<1> SUFFICES ASSUME TypeOK, AttemptInv, [Next]_vars PROVE DeadRowsStay
  OBVIOUS
<1>0. /\ IsTable(queue, lastId) /\ lastId \in Nat
      /\ ClaimsArePending /\ replays \in Nat
  BY DistributeAssumption DEF TypeOK, AttemptInv
<1>1. CASE \E r \in Runs : Enqueue(r)
  BY <1>1, DeadEnqueue
<1>2. CASE \E id \in DOMAIN claimed : Deliver(id)
  BY <1>0, <1>2, DeadDeliver
<1>3. CASE Claim \/ Kill \/ UNCHANGED vars
  BY <1>3 DEF Claim, Kill, vars, DeadRowsStay
<1>4. ASSUME NEW ms \in SUBSET Matches, Replay(ms) PROVE DeadRowsStay
  BY <1>0, <1>4 DEF Replay, DeadRowsStay
<1>5. CASE Tick
  BY <1>0, <1>5, ElapseFacts DEF Tick, DeadRowsStay
<1>6. QED
  BY <1>1, <1>2, <1>3, <1>4, <1>5 DEF Next

\* Only the operator revives a dead row, and nothing deletes it: in particular
\* the UPDATE of an enqueue that selected the row before it died, and the
\* outcome of a POST that is applied by id.
THEOREM OnlyReplayRevives == Spec => DeadStaysDead
  BY DeadStep, AttemptInit, AttemptStep, TypeCorrect, PTL DEF Spec, DeadStaysDead

-----------------------------------------------------------------------------
(* One pending row per match                                               *)

NothingNewPending ==
    \A id \in DOMAIN queue' :
        queue'[id].status = "pending" =>
            /\ id \in DOMAIN queue
            /\ queue[id].status = "pending"
            /\ queue[id].match = queue'[id].match

\* The run that is about to insert still sees no pending row.
InsertIsNeeded ==
    \A r \in Runs : run[r].pc = "selected" /\ run[r].row = NoRow =>
        PendingOf(queue, run[r].match) = {}

OneInv == OnePendingPerMatch /\ InsertIsNeeded

LEMMA DeliverAddsNone ==
    ASSUME TypeOK, ClaimsArePending, NEW id \in DOMAIN claimed, Deliver(id)
    PROVE  NothingNewPending
<1>1. /\ id \in DOMAIN queue /\ queue[id].status = "pending"
      /\ IsTable(queue, lastId) /\ lastId \in Nat
  BY DEF ClaimsArePending, TypeOK
<1>2. CASE Dispatch(id) \/ Receive(id)
  BY <1>2 DEF Dispatch, Receive, NothingNewPending
<1>3. CASE ApplyOk(id)
  BY <1>1, <1>3 DEF ApplyOk, MarkSent, NothingNewPending
<1>4. CASE queue' = MarkDead(queue, id)
  BY <1>1, <1>4, DeadFacts DEF NothingNewPending
<1>5. ASSUME NEW wait, queue' = MarkRetry(queue, id, wait) PROVE NothingNewPending
  BY <1>1, <1>5, PushRowFields DEF MarkRetry, NothingNewPending
<1>6. CASE ApplyPermanent(id)
  BY <1>4, <1>6 DEF ApplyPermanent
<1>7. CASE ApplyRetryable(id)
  BY <1>4, <1>5, <1>7 DEF ApplyRetryable
<1>8. QED
  BY <1>2, <1>3, <1>6, <1>7 DEF Deliver

LEMMA OneKept ==
    ASSUME OneInv, NothingNewPending, run' = run
    PROVE  OneInv'
<1>1. OnePendingPerMatch'
  BY DEF OneInv, OnePendingPerMatch, NothingNewPending
<1>2. InsertIsNeeded'
  BY DEF OneInv, InsertIsNeeded, NothingNewPending, PendingOf
<1>3. QED
  BY <1>1, <1>2 DEF OneInv

LEMMA OneEnqueue ==
    ASSUME TypeOK, OneInv, NEW r, Runs = {r}, Enqueue(r)
    PROVE  OneInv'
<1>1. /\ IsTable(queue, lastId) /\ lastId \in Nat
      /\ run \in [Runs -> RunState] /\ run[r] \in RunState
  BY DEF TypeOK
<1>2. CASE (\E m \in Matches : Build(r, m)) \/ Abandon(r)
  <2>1. queue' = queue /\ run'[r].pc # "selected"
    BY <1>1, <1>2 DEF Build, Abandon, Idle
  <2>2. QED
    BY <2>1 DEF OneInv, OnePendingPerMatch, InsertIsNeeded
<1>3. CASE SelectPending(r)
  <2>1. /\ queue' = queue /\ run'[r].match = run[r].match
        /\ run'[r].row = NoRow => PendingOf(queue, run[r].match) = {}
    <3>1. PICK id \in (IF PendingOf(queue, run[r].match) = {} THEN {NoRow}
                       ELSE PendingOf(queue, run[r].match)) :
            run' = [run EXCEPT ![r] = [pc |-> "selected", match |-> run[r].match,
                                       ver |-> run[r].ver, row |-> id]]
      BY <1>3 DEF SelectPending
    <3>2. NoRow \notin PendingOf(queue, run[r].match)
      BY <1>1 DEF IsTable, PendingOf, NoRow
    <3>3. QED
      BY <1>1, <1>3, <3>1, <3>2 DEF SelectPending
  <2>2. QED
    BY <2>1 DEF OneInv, OnePendingPerMatch, InsertIsNeeded
<1>4. CASE UpdatePending(r)
  <2>1. queue' = Overwrite(queue, run[r].row, run[r].ver) /\ run[r].ver \in Nat
    BY <1>1, <1>4, RunFields DEF UpdatePending, Version
  <2>2. NothingNewPending
    BY <1>1, <2>1, OverwriteFacts DEF NothingNewPending
  <2>3. run'[r].pc # "selected"
    BY <1>1, <1>4 DEF UpdatePending, Idle
  <2>4. OnePendingPerMatch'
    BY <2>2 DEF OneInv, OnePendingPerMatch, NothingNewPending
  <2>5. QED
    BY <2>3, <2>4 DEF OneInv, InsertIsNeeded
<1>5. CASE InsertPending(r)
  <2>1. /\ queue' = InsertRow(queue, lastId + 1, run[r].match, run[r].ver)
        /\ run'[r].pc # "selected"
        /\ PendingOf(queue, run[r].match) = {}
    BY <1>1, <1>5 DEF InsertPending, Idle, OneInv, InsertIsNeeded
  <2>2. /\ DOMAIN queue' = DOMAIN queue \cup {lastId + 1}
        /\ queue'[lastId + 1].match = run[r].match
        /\ \A i \in DOMAIN queue : i # lastId + 1 => queue'[i] = queue[i]
    BY <2>1, PushRowFields DEF InsertRow
  <2>3. OnePendingPerMatch'
    BY <2>1, <2>2 DEF OneInv, OnePendingPerMatch, PendingOf
  <2>4. QED
    BY <2>1, <2>3 DEF OneInv, InsertIsNeeded
<1>6. QED
  BY <1>2, <1>3, <1>4, <1>5 DEF Enqueue

LEMMA OneStep ==
    ASSUME NEW r, Runs = {r}, MaxReplays = 0, TypeOK, ClaimsArePending, OneInv, [Next]_vars
    PROVE  OneInv'
<1>0. IsTable(queue, lastId) /\ lastId \in Nat
  BY DEF TypeOK
<1>1. CASE \E s \in Runs : Enqueue(s)
  BY <1>1, OneEnqueue
<1>2. CASE \E id \in DOMAIN claimed : Deliver(id)
  <2>1. run' = run
    BY <1>2 DEF Deliver, Dispatch, Receive, ApplyOk, ApplyPermanent, ApplyRetryable,
                Applied, runVars
  <2>2. QED
    BY <1>2, <2>1, DeliverAddsNone, OneKept
<1>3. CASE Claim \/ Kill \/ UNCHANGED vars
  <2>1. queue' = queue /\ run' = run
    BY <1>3 DEF Claim, Kill, vars, runVars
  <2>2. QED
    BY <2>1, OneKept DEF NothingNewPending
<1>4. ASSUME NEW ms \in SUBSET Matches, Replay(ms) PROVE FALSE
  BY <1>4 DEF TypeOK, Replay
<1>5. CASE Tick
  <2>1. NothingNewPending
    BY <1>0, <1>5, ElapseFacts DEF Tick, NothingNewPending
  <2>2. run' = run
    BY <1>5 DEF Tick, runVars
  <2>3. QED
    BY <2>1, <2>2, OneKept
<1>6. QED
  BY <1>1, <1>2, <1>3, <1>4, <1>5 DEF Next

\* The invariant the comment of outbox.py states, under what it takes for it
\* to hold: one run enqueues at a time and no dead letter is replayed.  The
\* drain may be killed at any point and the receiver may answer anything.
THEOREM OneRunOnePending ==
    ASSUME NEW r, Runs = {r}, MaxReplays = 0
    PROVE  Spec => []OnePendingPerMatch
<1>1. Init => OneInv
  BY DEF Init, EmptyTable, OneInv, OnePendingPerMatch, InsertIsNeeded, Idle
<1>2. TypeOK /\ AttemptInv /\ OneInv /\ [Next]_vars => OneInv'
  BY OneStep DEF AttemptInv
<1>3. OneInv => OnePendingPerMatch
  BY DEF OneInv
<1>4. QED
  BY <1>1, <1>2, <1>3, AttemptInit, AttemptStep, TypeCorrect, PTL DEF Spec

-----------------------------------------------------------------------------
(* Bodies are lost only by the race                                        *)

LEMMA LossInit == Init => LossInv
<1> SUFFICES ASSUME Init PROVE LossInv
  OBVIOUS
<1>1. SelectedRowIsOurs
  BY DEF Init, Idle, SelectedRowIsOurs
<1>2. NothingNewerThanQueued /\ ClaimedIsNewest /\ AcceptedIsReceived
  BY DEF Init, EmptyTable, NoClaims, NothingNewerThanQueued, ClaimedIsNewest,
         AcceptedIsReceived
<1>3. LostOnlyByRace
  BY DEF Init, LostOnlyByRace
<1>4. QED
  BY <1>1, <1>2, <1>3 DEF LossInv

\* A step that keeps the body of every row and takes no new claim.
LEMMA LossSameBodies ==
    ASSUME AttemptInv, LossInv,
           UNCHANGED <<lastId, run, received, queued, raced>>,
           DOMAIN queue' = DOMAIN queue,
           \A i \in DOMAIN queue : queue'[i].match = queue[i].match,
           \A i \in DOMAIN queue : queue'[i].ver = queue[i].ver,
           DOMAIN claimed' \subseteq DOMAIN claimed,
           \A i \in DOMAIN claimed' : claimed'[i] = claimed[i]
    PROVE  LossInv'
<1>1. SelectedRowIsOurs'
  BY DEF LossInv, SelectedRowIsOurs
<1>2. NothingNewerThanQueued'
  BY DEF LossInv, NothingNewerThanQueued
<1>3. ClaimedIsNewest'
  BY DEF LossInv, ClaimedIsNewest, AttemptInv, ClaimsArePending
<1>4. AcceptedIsReceived'
  BY DEF LossInv, AcceptedIsReceived
<1>5. LostOnlyByRace'
  BY DEF LossInv, LostOnlyByRace, Held
<1>6. QED
  BY <1>1, <1>2, <1>3, <1>4, <1>5 DEF LossInv

\* What a write of enqueue does to the history, and to every match but its own.
LEMMA NoteQueuedFacts ==
    ASSUME TypeOK, NEW r \in Runs, run[r].pc = "selected", NoteQueued(r)
    PROVE  LET m == run[r].match IN
           /\ m \in Matches /\ run[r].ver \in Nat /\ run[r].row \in Nat
           /\ queued[m] \in Nat /\ queued'[m] \in Nat
           /\ queued'[m] >= queued[m] /\ queued'[m] >= run[r].ver
           /\ \A k \in Matches \ {m} : queued'[k] = queued[k]
           /\ \A k \in Matches \ {m} : k \in raced' <=> k \in raced
           /\ m \notin raced' => ~Races(r) /\ queued'[m] = run[r].ver
                                 /\ run[r].ver > queued[m]
<1>1. run[r] \in RunState
  BY DEF TypeOK
<1>2. run[r].match \in Matches /\ run[r].ver \in Nat /\ run[r].row \in Nat
  BY <1>1, RunFields DEF Version
<1>3. queued[run[r].match] \in Nat
  BY <1>2 DEF TypeOK, Version
<1>4. queued' = [queued EXCEPT ![run[r].match] = IF @ < run[r].ver THEN run[r].ver ELSE @]
  BY DEF NoteQueued
<1>5. /\ queued'[run[r].match] = (IF queued[run[r].match] < run[r].ver
                                  THEN run[r].ver ELSE queued[run[r].match])
      /\ \A k \in Matches \ {run[r].match} : queued'[k] = queued[k]
  BY <1>2, <1>4 DEF TypeOK
<1>6. \A k \in Matches \ {run[r].match} : k \in raced' <=> k \in raced
  BY DEF NoteQueued
<1>7. run[r].match \notin raced' => ~Races(r)
  BY DEF NoteQueued
<1>8. ~Races(r) => run[r].ver > queued[run[r].match]
  BY <1>2, <1>3 DEF Races
<1>9. QED
  BY <1>2, <1>3, <1>5, <1>6, <1>7, <1>8

\* A run writes its body into row w, one that exists or a new one.
LEMMA LossWrite ==
    ASSUME TypeOK, AttemptInv, LossInv,
           NEW r \in Runs, run[r].pc = "selected", NoteQueued(r),
           run' = [run EXCEPT ![r] = Idle], UNCHANGED <<claimed, received>>,
           lastId' \in Nat, lastId <= lastId',
           NEW w,
           DOMAIN queue \subseteq DOMAIN queue', DOMAIN queue' \subseteq DOMAIN queue \cup {w},
           \A i \in DOMAIN queue : i # w => queue'[i] = queue[i],
           w \in DOMAIN queue' => queue'[w].match = run[r].match,
           w \in DOMAIN queue' => queue'[w].ver = run[r].ver,
           w \in DOMAIN queue => queue[w].match = run[r].match,
           \A i \in DOMAIN queue' : i <= lastId => i \in DOMAIN queue,
           w \in DOMAIN claimed \/ w \notin DOMAIN queue' => Races(r)
    PROVE  LossInv'
<1> DEFINE m == run[r].match
           v == run[r].ver
<1>1. /\ m \in Matches /\ v \in Nat
      /\ queued[m] \in Nat /\ queued'[m] \in Nat
      /\ queued'[m] >= queued[m] /\ queued'[m] >= v
      /\ \A k \in Matches \ {m} : queued'[k] = queued[k]
      /\ \A k \in Matches \ {m} : k \in raced' <=> k \in raced
      /\ m \notin raced' => ~Races(r) /\ queued'[m] = v /\ v > queued[m]
  BY NoteQueuedFacts
<1>2. \A i \in DOMAIN queue : queue[i].match \in Matches /\ queue[i].ver \in Nat
  BY RowFields DEF TypeOK, IsTable
<1>3. SelectedRowIsOurs'
  <2>1. SUFFICES ASSUME NEW s \in Runs, run'[s].pc = "selected"
                 PROVE  /\ run'[s].row <= lastId'
                        /\ run'[s].row \in DOMAIN queue' =>
                             queue'[run'[s].row].match = run'[s].match
    BY DEF SelectedRowIsOurs
  <2>2. run'[r] = Idle
    BY DEF TypeOK
  <2>3. s # r
    BY <2>1, <2>2 DEF Idle
  <2>4. run'[s] = run[s]
    BY <2>3 DEF TypeOK
  <2>5. run[s].row \in Nat /\ lastId \in Nat
    BY <2>1, <2>4, RunFields DEF TypeOK
  <2>6. run[s].row <= lastId
    BY <2>1, <2>4 DEF LossInv, SelectedRowIsOurs
  <2>7. run'[s].row <= lastId'
    BY <2>4, <2>5, <2>6
  <2>8. ASSUME run[s].row \in DOMAIN queue' PROVE queue'[run[s].row].match = run[s].match
    <3>1. run[s].row \in DOMAIN queue
      BY <2>6, <2>8
    <3>2. queue[run[s].row].match = run[s].match
      BY <2>1, <2>4, <3>1 DEF LossInv, SelectedRowIsOurs
    <3>3. QED
      BY <2>8, <3>1, <3>2
  <2>9. QED
    BY <2>4, <2>7, <2>8
<1>4. NothingNewerThanQueued'
  <2>1. SUFFICES ASSUME NEW i \in DOMAIN queue'
                 PROVE  queue'[i].ver <= queued'[queue'[i].match]
    BY DEF NothingNewerThanQueued
  <2>2. CASE i = w
    BY <1>1, <2>2
  <2>3. CASE i # w
    <3>1. /\ i \in DOMAIN queue /\ queue'[i] = queue[i]
          /\ queue[i].ver <= queued[queue[i].match]
      BY <2>3 DEF LossInv, NothingNewerThanQueued
    <3>2. queue[i].match \in Matches /\ queue[i].ver \in Nat
      BY <1>2, <3>1
    <3>3. CASE queue[i].match = m
      BY <1>1, <3>1, <3>2, <3>3
    <3>4. CASE queue[i].match # m
      BY <1>1, <3>1, <3>2, <3>4
    <3>5. QED BY <3>3, <3>4
  <2>4. QED BY <2>2, <2>3
<1>5. ClaimedIsNewest'
  <2>1. SUFFICES ASSUME NEW i \in DOMAIN claimed,
                        claimed[i].row.match \notin raced',
                        queue'[i].ver = queued'[claimed[i].row.match]
                 PROVE  claimed[i].row.ver = queued'[claimed[i].row.match]
    BY DEF ClaimedIsNewest
  <2>2. i \in DOMAIN queue /\ queue[i].match = claimed[i].row.match
    BY DEF AttemptInv, ClaimsArePending
  <2>3. queue[i].match \in Matches /\ queue[i].ver \in Nat
    BY <1>2, <2>2
  <2>4. CASE claimed[i].row.match = m
    <3>1. ~Races(r) /\ queued'[m] > queued[m]
      BY <1>1, <2>1, <2>4
    <3>2. i # w
      BY <3>1
    <3>3. queue'[i].ver = queue[i].ver /\ queue[i].ver <= queued[m]
      BY <2>2, <2>4, <3>2 DEF LossInv, NothingNewerThanQueued
    <3>4. QED
      BY <1>1, <2>1, <2>3, <2>4, <3>1, <3>3
  <2>5. CASE claimed[i].row.match # m
    <3>1. i # w
      BY <2>2, <2>5
    <3>2. /\ queue'[i] = queue[i] /\ claimed[i].row.match \notin raced
          /\ queued'[claimed[i].row.match] = queued[claimed[i].row.match]
      BY <1>1, <2>1, <2>2, <2>3, <2>5, <3>1
    <3>3. QED
      BY <2>1, <3>2 DEF LossInv, ClaimedIsNewest
  <2>6. QED BY <2>4, <2>5
<1>6. AcceptedIsReceived'
  BY DEF LossInv, AcceptedIsReceived
<1>7. LostOnlyByRace'
  <2>1. SUFFICES ASSUME NEW k \in Matches, k \notin raced'
                 PROVE  \/ received[k] >= queued'[k]
                        \/ \E i \in DOMAIN queue' : /\ queue'[i].match = k
                                                    /\ queue'[i].ver = queued'[k]
    BY DEF LostOnlyByRace, Held
  <2>2. CASE k = m
    <3>1. w \in DOMAIN queue' /\ queued'[k] = v
      BY <1>1, <2>1, <2>2
    <3>2. QED
      BY <2>2, <3>1
  <2>3. CASE k # m
    <3>1. k \notin raced /\ queued'[k] = queued[k]
      BY <1>1, <2>1, <2>3
    <3>2. \/ received[k] >= queued[k]
          \/ \E i \in DOMAIN queue : queue[i].match = k /\ queue[i].ver = queued[k]
      BY <3>1 DEF LossInv, LostOnlyByRace, Held
    <3>3. ASSUME NEW i \in DOMAIN queue, queue[i].match = k, queue[i].ver = queued[k]
          PROVE  i \in DOMAIN queue' /\ queue'[i].match = k /\ queue'[i].ver = queued'[k]
      BY <2>3, <3>1, <3>3
    <3>4. QED
      BY <3>1, <3>2, <3>3
  <2>4. QED BY <2>2, <2>3
<1>8. QED
  BY <1>3, <1>4, <1>5, <1>6, <1>7 DEF LossInv

LEMMA LossEnqueue ==
    ASSUME TypeOK, AttemptInv, LossInv, NEW r \in Runs, Enqueue(r)
    PROVE  LossInv'
<1>0. run[r] \in RunState /\ lastId \in Nat
  BY DEF TypeOK
<1>1. ASSUME UNCHANGED <<queue, lastId, claimed, received, queued, raced>>,
             \A s \in Runs \ {r} : run'[s] = run[s],
             run'[r].pc = "selected" =>
               /\ run'[r].row <= lastId
               /\ run'[r].row \in DOMAIN queue => queue[run'[r].row].match = run'[r].match
      PROVE  LossInv'
  <2>1. SelectedRowIsOurs'
    BY <1>1 DEF LossInv, SelectedRowIsOurs
  <2>2. NothingNewerThanQueued' /\ ClaimedIsNewest' /\ AcceptedIsReceived' /\ LostOnlyByRace'
    BY <1>1 DEF LossInv, NothingNewerThanQueued, ClaimedIsNewest, AcceptedIsReceived,
                LostOnlyByRace, Held
  <2>3. QED
    BY <2>1, <2>2 DEF LossInv
<1>2. CASE \E m \in Matches : Build(r, m)
  <2>1. run'[r].pc = "built" /\ \A s \in Runs \ {r} : run'[s] = run[s]
    BY <1>2 DEF Build, TypeOK
  <2>2. QED
    BY <1>1, <1>2, <2>1 DEF Build, sweepVars
<1>3. CASE Abandon(r)
  <2>1. run'[r].pc = "idle" /\ \A s \in Runs \ {r} : run'[s] = run[s]
    BY <1>3 DEF Abandon, TypeOK, Idle
  <2>2. QED
    BY <1>1, <1>3, <2>1 DEF Abandon, sweepVars
<1>4. CASE SelectPending(r)
  <2>1. PICK id \in (IF PendingOf(queue, run[r].match) = {} THEN {NoRow}
                     ELSE PendingOf(queue, run[r].match)) :
          run' = [run EXCEPT ![r] = [pc |-> "selected", match |-> run[r].match,
                                     ver |-> run[r].ver, row |-> id]]
    BY <1>4 DEF SelectPending
  <2>2. /\ run'[r].row = id /\ run'[r].match = run[r].match
        /\ \A s \in Runs \ {r} : run'[s] = run[s]
    BY <2>1 DEF TypeOK
  <2>3. id <= lastId /\ (id \in DOMAIN queue => queue[id].match = run[r].match)
    BY <1>0, <2>1 DEF TypeOK, IsTable, PendingOf, NoRow
  <2>4. QED
    BY <1>1, <1>4, <2>2, <2>3 DEF SelectPending, sweepVars
<1>5. CASE UpdatePending(r)
  <2> DEFINE w == run[r].row
  <2>1. /\ run[r].pc = "selected" /\ NoteQueued(r) /\ w # NoRow
        /\ run' = [run EXCEPT ![r] = Idle] /\ UNCHANGED <<claimed, received, lastId>>
    BY <1>5 DEF UpdatePending, sweepVars
  <2>2. run[r].ver \in Nat
    BY <1>0, <2>1, RunFields DEF Version
  <2>3. /\ DOMAIN queue' = DOMAIN queue
        /\ \A i \in DOMAIN queue : i # w => queue'[i] = queue[i]
        /\ w \in DOMAIN queue => queue'[w].match = queue[w].match /\ queue'[w].ver = run[r].ver
    BY <1>5, <2>2, OverwriteFacts DEF UpdatePending, TypeOK
  <2>4. w \in DOMAIN queue => queue[w].match = run[r].match
    BY <2>1 DEF LossInv, SelectedRowIsOurs
  <2>5. w \in DOMAIN claimed \/ w \notin DOMAIN queue' => Races(r)
    BY <2>1, <2>3 DEF Races, PendingOf
  <2>6. /\ DOMAIN queue \subseteq DOMAIN queue'
        /\ DOMAIN queue' \subseteq DOMAIN queue \cup {w}
        /\ \A i \in DOMAIN queue' : i <= lastId => i \in DOMAIN queue
        /\ w \in DOMAIN queue' => queue'[w].match = run[r].match
        /\ w \in DOMAIN queue' => queue'[w].ver = run[r].ver
    BY <2>3, <2>4
  <2>7. lastId' \in Nat /\ lastId <= lastId'
    BY <1>0, <2>1
  <2>8. QED
    BY <2>1, <2>3, <2>4, <2>5, <2>6, <2>7, LossWrite
<1>6. CASE InsertPending(r)
  <2>1. /\ run[r].pc = "selected" /\ NoteQueued(r)
        /\ run' = [run EXCEPT ![r] = Idle] /\ UNCHANGED <<claimed, received>>
        /\ lastId' \in Nat /\ lastId <= lastId'
    BY <1>0, <1>6 DEF InsertPending, sweepVars
  <2>2. PICK w : /\ queue' = InsertRow(queue, w, run[r].match, run[r].ver)
                 /\ w \notin DOMAIN queue /\ w \notin DOMAIN claimed /\ ~(w <= lastId)
    <3>1. /\ lastId + 1 \notin DOMAIN queue /\ lastId + 1 \notin DOMAIN claimed
          /\ ~(lastId + 1 <= lastId)
      BY <1>0 DEF TypeOK, IsTable
    <3>2. QED
      BY <1>6, <3>1 DEF InsertPending
  <2>3. /\ DOMAIN queue' = DOMAIN queue \cup {w}
        /\ \A i \in DOMAIN queue : queue'[i] = queue[i]
        /\ queue'[w].match = run[r].match /\ queue'[w].ver = run[r].ver
    BY <2>2, PushRowFields DEF InsertRow
  <2>4. QED
    BY <2>1, <2>2, <2>3, LossWrite
<1>7. QED
  BY <1>2, <1>3, <1>4, <1>5, <1>6 DEF Enqueue

LEMMA LossDeliver ==
    ASSUME TypeOK, AttemptInv, LossInv, NEW id \in DOMAIN claimed, Deliver(id)
    PROVE  LossInv'
<1>0. /\ claimed[id].row.match \in Matches /\ claimed[id].row.ver \in Nat
      /\ claimed[id].row.attempts \in Nat
      /\ id \in DOMAIN queue /\ queue[id].match = claimed[id].row.match
  BY ClaimedFields, RowFields DEF TypeOK, AttemptInv, ClaimsArePending
\* Taking a claim one phase further.
<1>1. ASSUME NEW ph, claimed' = [claimed EXCEPT ![id] = [row |-> @.row, phase |-> ph]],
             UNCHANGED <<queue, lastId, run, queued, raced>>,
             \A k \in Matches : received'[k] \in Nat /\ received'[k] >= received[k],
             ph = "accepted" => received'[claimed[id].row.match] >= claimed[id].row.ver
      PROVE  LossInv'
  <2>1. /\ DOMAIN claimed' = DOMAIN claimed
        /\ \A i \in DOMAIN claimed : claimed'[i].row = claimed[i].row
        /\ \A i \in DOMAIN claimed : i # id => claimed'[i] = claimed[i]
        /\ claimed'[id].phase = ph
    BY <1>1 DEF TypeOK
  <2>2. SelectedRowIsOurs' /\ NothingNewerThanQueued' /\ ClaimedIsNewest'
    BY <1>1, <2>1 DEF LossInv, SelectedRowIsOurs, NothingNewerThanQueued, ClaimedIsNewest
  <2>3. AcceptedIsReceived'
    <3>1. SUFFICES ASSUME NEW i \in DOMAIN claimed, claimed'[i].phase = "accepted"
                   PROVE  received'[claimed[i].row.match] >= claimed[i].row.ver
      BY <2>1 DEF AcceptedIsReceived
    <3>2. CASE i = id
      BY <1>1, <2>1, <3>1, <3>2
    <3>3. CASE i # id
      <4>1. received[claimed[i].row.match] >= claimed[i].row.ver
        BY <2>1, <3>1, <3>3 DEF LossInv, AcceptedIsReceived
      <4>2. claimed[i].row.match \in Matches /\ claimed[i].row.ver \in Nat
        BY ClaimedFields, RowFields DEF TypeOK
      <4>3. received[claimed[i].row.match] \in Nat
        BY <4>2 DEF TypeOK
      <4>4. QED
        BY <1>1, <4>1, <4>2, <4>3
    <3>4. QED BY <3>2, <3>3
  <2>4. LostOnlyByRace'
    <3>1. SUFFICES ASSUME NEW k \in Matches, k \notin raced
                   PROVE  \/ received'[k] >= queued[k]
                          \/ \E i \in DOMAIN queue : queue[i].match = k /\ queue[i].ver = queued[k]
      BY <1>1 DEF LostOnlyByRace, Held
    <3>2. received[k] \in Nat /\ queued[k] \in Nat
      BY DEF TypeOK, Version
    <3>3. \/ received[k] >= queued[k]
          \/ \E i \in DOMAIN queue : queue[i].match = k /\ queue[i].ver = queued[k]
      BY <3>1 DEF LossInv, LostOnlyByRace, Held
    <3>4. QED
      BY <1>1, <3>2, <3>3
  <2>5. QED
    BY <2>2, <2>3, <2>4 DEF LossInv
<1>2. CASE Dispatch(id)
  <2>1. \A k \in Matches : received'[k] \in Nat /\ received'[k] >= received[k]
    BY <1>2 DEF Dispatch, TypeOK
  <2>2. QED
    BY <1>1, <1>2, <2>1 DEF Dispatch, runVars
<1>3. CASE Receive(id)
  <2>1. /\ \A k \in Matches : received'[k] \in Nat /\ received'[k] >= received[k]
        /\ received'[claimed[id].row.match] >= claimed[id].row.ver
    BY <1>0, <1>3 DEF Receive, TypeOK
  <2>2. QED
    BY <1>1, <1>3, <2>1 DEF Receive, runVars
<1>4. ASSUME Applied(id)
      PROVE  /\ UNCHANGED <<lastId, run, received, queued, raced>>
             /\ DOMAIN claimed' \subseteq DOMAIN claimed
             /\ id \notin DOMAIN claimed'
             /\ \A i \in DOMAIN claimed' : claimed'[i] = claimed[i]
  BY <1>4 DEF Applied, runVars
<1>5. CASE ApplyOk(id)
  <2>1. DOMAIN queue' = DOMAIN queue \ {id} /\ \A j \in DOMAIN queue' : queue'[j] = queue[j]
    BY <1>5, SentFacts DEF ApplyOk, TypeOK
  <2>2. /\ UNCHANGED <<lastId, run, received, queued, raced>>
        /\ DOMAIN claimed' \subseteq DOMAIN claimed
        /\ id \notin DOMAIN claimed'
        /\ \A i \in DOMAIN claimed' : claimed'[i] = claimed[i]
    BY <1>4, <1>5 DEF ApplyOk
  <2>3. SelectedRowIsOurs' /\ NothingNewerThanQueued'
    BY <2>1, <2>2 DEF LossInv, SelectedRowIsOurs, NothingNewerThanQueued
  <2>4. ClaimedIsNewest' /\ AcceptedIsReceived'
    BY <2>1, <2>2 DEF LossInv, ClaimedIsNewest, AcceptedIsReceived, AttemptInv, ClaimsArePending
  <2>5. LostOnlyByRace'
    <3>1. SUFFICES ASSUME NEW k \in Matches, k \notin raced
                   PROVE  \/ received[k] >= queued[k]
                          \/ \E i \in DOMAIN queue' : queue'[i].match = k /\ queue'[i].ver = queued[k]
      BY <2>2 DEF LostOnlyByRace, Held
    <3>2. CASE received[k] >= queued[k]
      BY <3>2
    <3>3. ASSUME NEW i \in DOMAIN queue, queue[i].match = k, queue[i].ver = queued[k], i # id
          PROVE  \E j \in DOMAIN queue' : queue'[j].match = k /\ queue'[j].ver = queued[k]
      BY <2>1, <3>3
    \* The row deleted held the newest body: it is the one that was accepted.
    <3>4. ASSUME queue[id].match = k, queue[id].ver = queued[k]
          PROVE  received[k] >= queued[k]
      <4>1. claimed[id].row.match = k
        BY <1>0, <3>4
      <4>2. claimed[id].row.ver = queued[k]
        BY <3>1, <3>4, <4>1 DEF LossInv, ClaimedIsNewest
      <4>3. received[claimed[id].row.match] >= claimed[id].row.ver
        BY <1>5 DEF ApplyOk, LossInv, AcceptedIsReceived
      <4>4. QED
        BY <4>1, <4>2, <4>3
    <3>5. QED
      BY <3>1, <3>2, <3>3, <3>4 DEF LossInv, LostOnlyByRace, Held
  <2>6. QED
    BY <2>3, <2>4, <2>5 DEF LossInv
<1>6. ASSUME queue' = MarkDead(queue, id), Applied(id)
      PROVE  LossInv'
  <2>1. /\ DOMAIN queue' = DOMAIN queue
        /\ \A j \in DOMAIN queue : j # id => queue'[j] = queue[j]
        /\ queue'[id].match = queue[id].match /\ queue'[id].ver = queue[id].ver
    BY <1>0, <1>6, DeadFacts DEF TypeOK
  <2>2. /\ \A j \in DOMAIN queue : queue'[j].match = queue[j].match
        /\ \A j \in DOMAIN queue : queue'[j].ver = queue[j].ver
    BY <2>1
  <2>3. QED
    BY <1>4, <1>6, <2>1, <2>2, LossSameBodies
<1>7. CASE ApplyPermanent(id)
  BY <1>6, <1>7 DEF ApplyPermanent
<1>8. CASE ApplyRetryable(id)
  <2>1. CASE claimed[id].row.attempts >= MaxAttempts
    BY <1>6, <1>8, <2>1 DEF ApplyRetryable
  <2>2. CASE ~(claimed[id].row.attempts >= MaxAttempts)
    <3>1. RetrySchedule[claimed[id].row.attempts + 1] \in Nat
      BY <1>0, <2>2, OutboxAssumption DEF MaxAttempts
    <3>2. RetrySchedule[claimed[id].row.attempts + 1] - age \in Int
      BY <3>1 DEF TypeOK
    <3>3. /\ DOMAIN queue' = DOMAIN queue
          /\ \A j \in DOMAIN queue : j # id => queue'[j] = queue[j]
          /\ queue'[id].match = queue[id].match /\ queue'[id].ver = queue[id].ver
      BY <1>0, <1>8, <2>2, <3>2, RetryFacts DEF ApplyRetryable, TypeOK
    <3>4. /\ \A j \in DOMAIN queue : queue'[j].match = queue[j].match
          /\ \A j \in DOMAIN queue : queue'[j].ver = queue[j].ver
      BY <3>3
    <3>5. QED
      BY <1>4, <1>8, <3>3, <3>4, LossSameBodies DEF ApplyRetryable
  <2>3. QED BY <2>1, <2>2
<1>9. QED
  BY <1>2, <1>3, <1>5, <1>7, <1>8 DEF Deliver

LEMMA LossStep == TypeOK /\ AttemptInv /\ LossInv /\ [Next]_vars => LossInv'
<1> SUFFICES ASSUME TypeOK, AttemptInv, LossInv, [Next]_vars PROVE LossInv'
  OBVIOUS
<1>1. CASE \E r \in Runs : Enqueue(r)
  BY <1>1, LossEnqueue
<1>2. CASE Claim
  <2>1. /\ UNCHANGED <<queue, lastId, run, received, queued, raced>>
        /\ \A id \in DOMAIN claimed' : claimed'[id].row = queue[id]
        /\ \A id \in DOMAIN claimed' : claimed'[id].phase = "waiting"
    BY <1>2 DEF Claim, runVars
  <2>2. SelectedRowIsOurs' /\ NothingNewerThanQueued' /\ LostOnlyByRace'
    BY <2>1 DEF LossInv, SelectedRowIsOurs, NothingNewerThanQueued, LostOnlyByRace, Held
  <2>3. ClaimedIsNewest' /\ AcceptedIsReceived'
    BY <2>1 DEF ClaimedIsNewest, AcceptedIsReceived
  <2>4. QED
    BY <2>2, <2>3 DEF LossInv
<1>3. CASE \E id \in DOMAIN claimed : Deliver(id)
  BY <1>3, LossDeliver
<1>4. CASE Kill
  BY <1>4, LossSameBodies DEF Kill, NoClaims, runVars
<1>5. ASSUME NEW ms \in SUBSET Matches, Replay(ms) PROVE LossInv'
  <2>1. /\ DOMAIN queue' = DOMAIN queue
        /\ \A i \in DOMAIN queue : queue'[i].match = queue[i].match
        /\ \A i \in DOMAIN queue : queue'[i].ver = queue[i].ver
    BY <1>5, ReplayFacts DEF Replay, TypeOK
  <2>2. QED
    BY <1>5, <2>1, LossSameBodies DEF Replay, runVars, sweepVars
<1>6. CASE Tick
  <2>1. /\ DOMAIN queue' = DOMAIN queue
        /\ \A i \in DOMAIN queue : queue'[i].match = queue[i].match
        /\ \A i \in DOMAIN queue : queue'[i].ver = queue[i].ver
    BY <1>6, ElapseFacts DEF Tick, TypeOK
  <2>2. QED
    BY <1>6, <2>1, LossSameBodies DEF Tick, runVars
<1>7. CASE UNCHANGED vars
  BY <1>7, LossSameBodies DEF vars
<1>8. QED
  BY <1>1, <1>2, <1>3, <1>4, <1>5, <1>6, <1>7 DEF Next

\* The newest body handed to the outbox for a match is at the receiver or in
\* the table, unless it was written into a row the drain had in hand or was
\* overwritten by an older one: whatever the number of runs, the rate and the
\* timeouts, nothing else loses a body.
THEOREM LossOnlyByRace == Spec => []LostOnlyByRace
<1>1. LossInv => LostOnlyByRace
  BY DEF LossInv
<1>2. Init => TypeOK /\ AttemptInv /\ LossInv
  BY TypeInit, AttemptInit, LossInit
<1>3. TypeOK /\ AttemptInv /\ LossInv /\ [Next]_vars => TypeOK' /\ AttemptInv' /\ LossInv'
  BY TypeStep, AttemptStep, LossStep
<1>4. QED
  BY <1>1, <1>2, <1>3, PTL DEF Spec
-----------------------------------------------------------------------------
(* The budget of a sweep                                                     *)

\* The rows that are served before a due row.
Ahead(q, id) == {j \in DueIds(q) : Before(q, j, id)}

\* SELECT ... LIMIT: each due row has a place of its own in the order.
LEMMA ClaimDueBounded ==
    ASSUME NEW q, NEW last \in Nat, IsTable(q, last), NEW limit \in Nat
    PROVE  /\ IsFiniteSet(ClaimDue(q, limit))
           /\ Cardinality(ClaimDue(q, limit)) <= limit
<1> DEFINE D == DueIds(q)
           C == ClaimDue(q, limit)
           rank(i) == Cardinality(Ahead(q, i))
<1>1. \A i \in D : i \in 1 .. last /\ q[i].due \in Int
  <2>1. \A i \in DOMAIN q : q[i] \in Row
    BY DEF IsTable
  <2>2. QED
    BY <2>1, RowFields DEF DueIds, IsTable
<1>2. IsFiniteSet(D)
  BY <1>1, FS_Interval, FS_Subset
<1>3. \A i \in D : Ahead(q, i) \subseteq D
  BY DEF Ahead
<1>4. \A i \in D : IsFiniteSet(Ahead(q, i)) /\ rank(i) \in Nat
  BY <1>2, <1>3, FS_Subset, FS_CardinalityType
<1>5. ASSUME NEW i \in D, NEW j \in D, Before(q, i, j) PROVE rank(i) < rank(j)
  <2>1. Ahead(q, i) \subseteq Ahead(q, j) /\ i \in Ahead(q, j) /\ i \notin Ahead(q, i)
    BY <1>1, <1>5 DEF Ahead, Before
  <2>2. Cardinality(Ahead(q, i)) <= Cardinality(Ahead(q, j))
        /\ (Cardinality(Ahead(q, i)) = Cardinality(Ahead(q, j)) => Ahead(q, i) = Ahead(q, j))
    BY <1>4, <2>1, FS_Subset
  <2>3. Ahead(q, i) # Ahead(q, j)
    BY <2>1
  <2>4. QED
    BY <1>4, <2>2, <2>3
<1>6. \A i, j \in D : i # j => Before(q, i, j) \/ Before(q, j, i)
  BY <1>1 DEF Before
<1>7. \A i \in C : i \in D /\ rank(i) < limit
  BY DEF ClaimDue, Ahead
<1> DEFINE place == [i \in C |-> rank(i)]
<1>8. place \in Injection(C, 0 .. limit - 1)
  <2>1. \A i \in C : rank(i) \in 0 .. limit - 1
    BY <1>4, <1>7
  <2>2. \A i, j \in C : i # j => rank(i) # rank(j)
    <3> SUFFICES ASSUME NEW i \in C, NEW j \in C, i # j PROVE rank(i) # rank(j)
      OBVIOUS
    <3> HIDE DEF rank
    <3>1. rank(i) \in Nat /\ rank(j) \in Nat
      BY <1>4, <1>7
    <3>2. rank(i) < rank(j) \/ rank(j) < rank(i)
      BY <1>5, <1>6, <1>7
    <3>3. QED
      BY <3>1, <3>2
  <2> HIDE DEF rank, C
  <2>3. QED
    BY <2>1, <2>2 DEF Injection, IsInjective
<1>9. IsFiniteSet(0 .. limit - 1) /\ Cardinality(0 .. limit - 1) = limit
  BY FS_Interval
<1> HIDE DEF C, place
<1>10. IsFiniteSet(C) /\ Cardinality(C) <= limit
  BY <1>8, <1>9, FS_Injection
<1>11. QED
  BY <1>10 DEF C

Waiting == {id \in DOMAIN claimed : claimed[id].phase = "waiting"}

\* Within a tick the calls made and those to come are those of one sweep: the loop rests
\* before the next one.
BudgetInv ==
    /\ calls.this + Cardinality(Waiting) <= RatePerMin
    /\ calls.last <= RatePerMin
    /\ rested => calls.this = 0 /\ claimed = NoClaims

LEMMA ClaimedFinite == TypeOK => IsFiniteSet(DOMAIN claimed) /\ IsFiniteSet(Waiting)
<1> SUFFICES ASSUME TypeOK PROVE IsFiniteSet(DOMAIN claimed) /\ IsFiniteSet(Waiting)
  OBVIOUS
<1>1. lastId \in Int /\ DOMAIN claimed \in SUBSET (1 .. lastId)
  BY DEF TypeOK
<1>f. IsFiniteSet(1 .. lastId)
  BY <1>1, FS_Interval
<1>2. IsFiniteSet(DOMAIN claimed)
  BY <1>1, <1>f, FS_Subset
<1>3. Waiting \in SUBSET DOMAIN claimed
  BY DEF Waiting
<1>4. QED
  BY <1>2, <1>3, FS_Subset

LEMMA BudgetStep == TypeOK /\ BudgetInv /\ [Next]_vars => BudgetInv'
<1> SUFFICES ASSUME TypeOK, BudgetInv, [Next]_vars PROVE BudgetInv'
  OBVIOUS
<1>0. /\ IsFiniteSet(Waiting) /\ Cardinality(Waiting) \in Nat /\ RatePerMin \in Nat
      /\ calls \in [this : Nat, last : Nat] /\ calls.this \in Nat /\ calls.last \in Nat
  BY ClaimedFinite, FS_CardinalityType, DistributeAssumption DEF TypeOK
<1>1. ASSUME UNCHANGED <<claimed, calls, rested>> PROVE BudgetInv'
  BY <1>1 DEF BudgetInv, Waiting
<1>2. ASSUME claimed' = NoClaims, UNCHANGED <<calls, rested>> PROVE BudgetInv'
  <2>1. Waiting' = {}
    BY <1>2 DEF Waiting, NoClaims
  <2>2. Cardinality(Waiting') = 0
    BY <2>1, FS_EmptySet
  <2>3. QED
    BY <1>0, <1>2, <2>2 DEF BudgetInv
<1>3. CASE Claim
  <2>1. /\ claimed' = [id \in ClaimDue(queue, RatePerMin) |->
                         [row |-> queue[id], phase |-> "waiting"]]
        /\ rested /\ ~rested' /\ calls' = calls
    BY <1>3 DEF Claim
  <2>2. Waiting' = ClaimDue(queue, RatePerMin)
    BY <2>1 DEF Waiting
  <2>3. Cardinality(Waiting') <= RatePerMin /\ IsFiniteSet(Waiting')
    BY <1>0, <2>2, ClaimDueBounded DEF TypeOK
  <2>4. Cardinality(Waiting') \in Nat
    BY <2>3, FS_CardinalityType
  <2>5. QED
    BY <1>0, <2>1, <2>3, <2>4 DEF BudgetInv
<1>4. ASSUME NEW id \in DOMAIN claimed, Deliver(id) PROVE BudgetInv'
  <2>1. claimed # NoClaims
    BY DEF NoClaims
  <2>2. ~rested
    BY <2>1 DEF BudgetInv
  <2>3. rested' = rested
    BY <1>4 DEF Deliver, Dispatch, Receive, ApplyOk, ApplyPermanent, ApplyRetryable, Applied
  <2>4. CASE Dispatch(id)
    <3>1. /\ claimed[id].phase = "waiting"
          /\ claimed' = [claimed EXCEPT ![id] = [row |-> @.row, phase |-> "sent"]]
          /\ calls' = [calls EXCEPT !.this = @ + 1]
      BY <2>4 DEF Dispatch
    <3>2. Waiting' = Waiting \ {id} /\ id \in Waiting
      BY <3>1 DEF Waiting
    <3>3. Cardinality(Waiting') = Cardinality(Waiting) - 1
      BY <1>0, <3>2, FS_RemoveElement
    <3>4. calls'.this = calls.this + 1 /\ calls'.last = calls.last
      BY <1>0, <3>1
    <3>5. QED
      BY <1>0, <2>2, <2>3, <3>3, <3>4 DEF BudgetInv
  <2>5. CASE ~Dispatch(id)
    <3>1. Waiting' \subseteq Waiting /\ calls' = calls
      BY <1>4, <2>5 DEF Deliver, Receive, ApplyOk, ApplyPermanent, ApplyRetryable, Applied,
                        Waiting
    <3>2. Cardinality(Waiting') <= Cardinality(Waiting) /\ Cardinality(Waiting') \in Nat
      BY <1>0, <3>1, FS_Subset, FS_CardinalityType
    <3>3. QED
      BY <1>0, <2>2, <2>3, <3>1, <3>2 DEF BudgetInv
  <2>6. QED
    BY <2>4, <2>5
<1>5. CASE Tick
  <2>1. /\ claimed' = claimed /\ rested' = (rested \/ claimed = NoClaims)
        /\ calls' = [this |-> 0, last |-> calls.this]
    BY <1>5 DEF Tick
  <2>2. Waiting' = Waiting
    BY <2>1 DEF Waiting
  <2>3. calls'.this = 0 /\ calls'.last = calls.this
    BY <2>1
  <2>4. rested' => claimed' = NoClaims
    BY <2>1, Zenon DEF BudgetInv
  <2>5. QED
    BY <1>0, <2>2, <2>3, <2>4 DEF BudgetInv
<1>6. CASE Kill
  BY <1>2, <1>6 DEF Kill
<1>7. CASE (\E r \in Runs : Enqueue(r)) \/ (\E ms \in SUBSET Matches : Replay(ms)) \/ UNCHANGED vars
  BY <1>1, <1>7 DEF Enqueue, Build, Abandon, SelectPending, UpdatePending, InsertPending,
                    Replay, sweepVars, vars
<1>8. QED
  BY <1>3, <1>4, <1>5, <1>6, <1>7 DEF Next

\* Two sweeps at most fall within a minute, and each makes rate_per_min calls at most, for
\* every table, backlog, kill and timeout of a sweep.
THEOREM TwoSweepsAlways == Spec => []TwoSweepsPerMinute
<1>1. Init => BudgetInv
  <2> SUFFICES ASSUME Init PROVE BudgetInv
    OBVIOUS
  <2>1. Waiting = {}
    BY DEF Init, Waiting, NoClaims
  <2>2. Cardinality(Waiting) = 0
    BY <2>1, FS_EmptySet
  <2>3. QED
    BY <2>2, DistributeAssumption DEF Init, BudgetInv
<1>2. TypeOK /\ BudgetInv => TwoSweepsPerMinute
  <2> SUFFICES ASSUME TypeOK, BudgetInv PROVE TwoSweepsPerMinute
    OBVIOUS
  <2>1. Cardinality(Waiting) \in Nat /\ calls.this \in Nat /\ calls.last \in Nat
    BY ClaimedFinite, FS_CardinalityType DEF TypeOK
  <2>2. QED
    BY <2>1, DistributeAssumption DEF BudgetInv, TwoSweepsPerMinute
<1>3. QED
  BY <1>1, <1>2, BudgetStep, TypeCorrect, PTL DEF Spec

-----------------------------------------------------------------------------
(* The wire is a mailbox                                                     *)

\* The slot of a match in a table, and its copy among the claims.
SlotIn(q, m) ==
    IF PendingOf(q, m) = {} THEN 0 ELSE q[CHOOSE id \in PendingOf(q, m) : TRUE].ver

ClaimsIn(c, m) == {id \in DOMAIN c : c[id].row.match = m}

CopyIn(c, m) ==
    IF ClaimsIn(c, m) = {} THEN 0 ELSE c[CHOOSE id \in ClaimsIn(c, m) : TRUE].row.ver

LEMMA SlotIs ==
    ASSUME NEW q, NEW m, NEW id \in PendingOf(q, m), \A j \in PendingOf(q, m) : j = id
    PROVE  SlotIn(q, m) = q[id].ver
<1>1. (CHOOSE j \in PendingOf(q, m) : TRUE) \in PendingOf(q, m)
  OBVIOUS
<1>2. QED
  BY <1>1 DEF SlotIn

LEMMA SlotSame ==
    ASSUME NEW q, NEW p, NEW m, PendingOf(p, m) = PendingOf(q, m),
           \A id \in PendingOf(q, m) : p[id].ver = q[id].ver
    PROVE  SlotIn(p, m) = SlotIn(q, m)
<1> DEFINE X == PendingOf(q, m)
<1>1. X # {} => (CHOOSE j \in X : TRUE) \in X
  OBVIOUS
<1>2. X # {} => p[CHOOSE j \in X : TRUE].ver = q[CHOOSE j \in X : TRUE].ver
  BY <1>1
<1>3. QED
  BY <1>2 DEF SlotIn

LEMMA CopyIs ==
    ASSUME NEW c, NEW m, NEW id \in ClaimsIn(c, m), \A j \in ClaimsIn(c, m) : j = id
    PROVE  CopyIn(c, m) = c[id].row.ver
<1>1. (CHOOSE j \in ClaimsIn(c, m) : TRUE) \in ClaimsIn(c, m)
  OBVIOUS
<1>2. QED
  BY <1>1 DEF CopyIn

LEMMA CopySame ==
    ASSUME NEW c, NEW d, NEW m, ClaimsIn(d, m) = ClaimsIn(c, m),
           \A id \in ClaimsIn(c, m) : d[id].row.ver = c[id].row.ver
    PROVE  CopyIn(d, m) = CopyIn(c, m)
<1> DEFINE X == ClaimsIn(c, m)
<1>1. X # {} => (CHOOSE j \in X : TRUE) \in X
  OBVIOUS
<1>2. X # {} => d[CHOOSE j \in X : TRUE].row.ver = c[CHOOSE j \in X : TRUE].row.ver
  BY <1>1
<1>3. QED
  BY <1>2 DEF CopyIn

\* The versions of its dead rows.
DeadIn(q, m) == {id \in DOMAIN q : q[id].match = m /\ q[id].status = "dead"}

LettersIn(q, m) == {q[id].ver : id \in DeadIn(q, m)}

LEMMA LettersSame ==
    ASSUME NEW q, NEW p, NEW m, DeadIn(p, m) = DeadIn(q, m),
           \A id \in DeadIn(q, m) : p[id].ver = q[id].ver
    PROVE  LettersIn(p, m) = LettersIn(q, m)
  BY DEF LettersIn

LEMMA SlotsAndCopies ==
    /\ \A m : /\ SlotOf(m) = SlotIn(queue, m) /\ CopyOf(m) = CopyIn(claimed, m)
              /\ LettersOf(m) = LettersIn(queue, m)
    /\ [m \in Matches |-> LettersOf(m)]' = [m \in Matches |-> LettersIn(queue', m)]
    /\ [m \in Matches |-> SlotOf(m)]' = [m \in Matches |-> SlotIn(queue', m)]
    /\ [m \in Matches |-> CopyOf(m)]' = [m \in Matches |-> CopyIn(claimed', m)]
  BY DEF SlotOf, SlotIn, CopyOf, ClaimOf, CopyIn, ClaimsIn, PendingOf, LettersOf, LettersIn,
         DeadOf, DeadIn

-----------------------------------------------------------------------------
\* A body already written carries a version given before the one in the run's hands.
OldRow(row) ==
    /\ 0 < row.ver /\ row.ver <= built[row.match]
    /\ \A s \in Runs : run[s] # Idle /\ run[s].match = row.match => row.ver < run[s].ver

\* Two rows of a match never hold the same body.
DistinctBodies ==
    \A i, j \in DOMAIN queue :
        queue[i].match = queue[j].match /\ queue[i].ver = queue[j].ver => i = j

FreshInv ==
    /\ DistinctBodies
    /\ \A id \in DOMAIN queue : OldRow(queue[id])
    /\ \A id \in DOMAIN claimed : OldRow(claimed[id].row)
    /\ \A s \in Runs : run[s] # Idle =>
         0 < run[s].ver /\ run[s].ver = built[run[s].match]

\* No body of this step is new to the table or to the claims.
NoNewBody ==
    /\ \A id \in DOMAIN queue' :
         /\ id \in DOMAIN queue
         /\ queue'[id].match = queue[id].match /\ queue'[id].ver = queue[id].ver
    /\ \A id \in DOMAIN claimed' :
         \/ id \in DOMAIN claimed /\ claimed'[id].row = claimed[id].row
         \/ id \in DOMAIN queue /\ claimed'[id].row = queue[id]

LEMMA FreshKept ==
    ASSUME FreshInv, NoNewBody, UNCHANGED <<run, built>>
    PROVE  FreshInv'
<1>1. ASSUME NEW id \in DOMAIN queue' PROVE OldRow(queue[id])'
  BY <1>1 DEF FreshInv, NoNewBody, OldRow
<1>2. ASSUME NEW id \in DOMAIN claimed' PROVE OldRow(claimed[id].row)'
  BY <1>2 DEF FreshInv, NoNewBody, OldRow
<1>3. DistinctBodies'
  BY DEF FreshInv, NoNewBody, DistinctBodies
<1>4. QED
  BY <1>1, <1>2, <1>3 DEF FreshInv

\* What an answer, or its absence, does to the claim and to its row.
LEMMA DeliverBodies ==
    ASSUME TypeOK, ClaimsArePending, NEW id \in DOMAIN claimed, Deliver(id)
    PROVE  NoNewBody /\ UNCHANGED <<run, built>>
<1>1. id \in DOMAIN queue /\ IsTable(queue, lastId) /\ lastId \in Nat
  BY DEF ClaimsArePending, TypeOK
<1>2. CASE Dispatch(id) \/ Receive(id)
  <2>1. \A i \in DOMAIN claimed' : i \in DOMAIN claimed /\ claimed'[i].row = claimed[i].row
    BY <1>2 DEF Dispatch, Receive, TypeOK
  <2>2. QED
    BY <1>2, <2>1 DEF Dispatch, Receive, NoNewBody, runVars
<1>3. ASSUME Applied(id)
      PROVE  /\ \A i \in DOMAIN claimed' : i \in DOMAIN claimed /\ claimed'[i].row = claimed[i].row
             /\ UNCHANGED <<run, built>>
  BY <1>3 DEF Applied, runVars
<1>4. ASSUME Applied(id), \A i \in DOMAIN queue' : /\ i \in DOMAIN queue
                                                   /\ queue'[i].match = queue[i].match
                                                   /\ queue'[i].ver = queue[i].ver
      PROVE  NoNewBody /\ UNCHANGED <<run, built>>
  <2>1. /\ \A i \in DOMAIN claimed' : i \in DOMAIN claimed /\ claimed'[i].row = claimed[i].row
        /\ UNCHANGED <<run, built>>
    BY <1>3, <1>4
  <2>2. NoNewBody
    BY <1>4, <2>1 DEF NoNewBody
  <2>3. QED
    BY <2>1, <2>2
<1>5. CASE ApplyOk(id)
  <2>1. DOMAIN queue' = DOMAIN queue \ {id} /\ \A i \in DOMAIN queue' : queue'[i] = queue[i]
    BY <1>1, <1>5, SentFacts DEF ApplyOk
  <2>2. \A i \in DOMAIN queue' : /\ i \in DOMAIN queue
                                /\ queue'[i].match = queue[i].match
                                /\ queue'[i].ver = queue[i].ver
    BY <2>1
  <2>3. QED
    BY <1>4, <1>5, <2>2 DEF ApplyOk
<1>6. ASSUME queue' = MarkDead(queue, id)
      PROVE  \A i \in DOMAIN queue' : /\ i \in DOMAIN queue
                                      /\ queue'[i].match = queue[i].match
                                      /\ queue'[i].ver = queue[i].ver
  <2>1. /\ DOMAIN queue' = DOMAIN queue
        /\ \A i \in DOMAIN queue : i # id => queue'[i] = queue[i]
        /\ queue'[id].match = queue[id].match /\ queue'[id].ver = queue[id].ver
    BY <1>1, <1>6, DeadFacts
  <2>2. QED
    BY <2>1
<1>7. ASSUME NEW wait, queue' = MarkRetry(queue, id, wait)
      PROVE  \A i \in DOMAIN queue' : /\ i \in DOMAIN queue
                                      /\ queue'[i].match = queue[i].match
                                      /\ queue'[i].ver = queue[i].ver
  BY <1>7, PushRowFields DEF MarkRetry
<1>8. CASE ApplyPermanent(id)
  BY <1>4, <1>6, <1>8 DEF ApplyPermanent
<1>9. CASE ApplyRetryable(id)
  <2>1. Applied(id) /\ (queue' = MarkDead(queue, id) \/ \E wait : queue' = MarkRetry(queue, id, wait))
    BY <1>9 DEF ApplyRetryable
  <2>2. QED
    BY <1>4, <1>6, <1>7, <2>1
<1>10. QED
  BY <1>2, <1>5, <1>8, <1>9 DEF Deliver

LEMMA FreshEnqueue ==
    ASSUME TypeOK, FreshInv, SelectedRowIsOurs, NEW r, Runs = {r}, Enqueue(r)
    PROVE  FreshInv'
<1>1. /\ IsTable(queue, lastId) /\ lastId \in Nat
      /\ run \in [Runs -> RunState] /\ run[r] \in RunState
      /\ built \in [Matches -> Version]
      /\ claimed' = claimed
  BY DEF TypeOK, Enqueue, Build, Abandon, SelectPending, UpdatePending, InsertPending, sweepVars
<1>2. /\ \A id \in DOMAIN queue : queue[id].match \in Matches /\ queue[id].ver \in Nat
      /\ \A id \in DOMAIN claimed : /\ claimed[id].row.match \in Matches
                                    /\ claimed[id].row.ver \in Nat
      /\ \A m \in Matches : built[m] \in Nat
  BY <1>1, RowFields, ClaimedFields DEF TypeOK, IsTable, Version
<1>3. ASSUME NEW m \in Matches, Build(r, m) PROVE FreshInv'
  <2>1. /\ queue' = queue /\ run'[r].match = m /\ run'[r].ver = built[m] + 1
        /\ built'[m] = built[m] + 1 /\ \A k \in Matches \ {m} : built'[k] = built[k]
    BY <1>1, <1>3 DEF Build
  <2>2. ASSUME NEW row, row.match \in Matches, row.ver \in Nat, OldRow(row)
        PROVE  /\ 0 < row.ver /\ row.ver <= built'[row.match]
               /\ \A s \in Runs : run'[s] # Idle /\ run'[s].match = row.match
                                    => row.ver < run'[s].ver
    BY <1>2, <2>1, <2>2 DEF OldRow
  <2>3. \A id \in DOMAIN queue : OldRow(queue[id])'
    BY <1>2, <2>1, <2>2 DEF FreshInv, OldRow
  <2>4. \A id \in DOMAIN claimed : OldRow(claimed[id].row)'
    BY <1>1, <1>2, <2>2 DEF FreshInv, OldRow
  <2>5. QED
    BY <1>1, <1>2, <2>1, <2>3, <2>4 DEF FreshInv, DistinctBodies
<1>4. ASSUME queue' = queue, built' = built,
             run'[r] # Idle => /\ run[r] # Idle
                               /\ run'[r].match = run[r].match /\ run'[r].ver = run[r].ver
      PROVE  FreshInv'
  <2>1. \A id \in DOMAIN queue : OldRow(queue[id])'
    BY <1>4 DEF FreshInv, OldRow
  <2>2. \A id \in DOMAIN claimed : OldRow(claimed[id].row)'
    BY <1>1, <1>4 DEF FreshInv, OldRow
  <2>3. QED
    BY <1>1, <1>4, <2>1, <2>2 DEF FreshInv, DistinctBodies
<1>5. CASE Abandon(r)
  BY <1>1, <1>4, <1>5 DEF Abandon
<1>6. CASE SelectPending(r)
  <2>1. /\ queue' = queue /\ built' = built /\ run[r] # Idle
        /\ run'[r].match = run[r].match /\ run'[r].ver = run[r].ver
    BY <1>1, <1>6, RunFields DEF SelectPending
  <2>2. QED
    BY <1>4, <2>1
<1>7. ASSUME built' = built, run'[r] = Idle, run[r] # Idle,
             \A id \in DOMAIN queue' :
               \/ id \in DOMAIN queue /\ queue'[id] = queue[id]
               \/ queue'[id].match = run[r].match /\ queue'[id].ver = run[r].ver,
             \A i, j \in DOMAIN queue' :
               \/ i = j
               \/ i \in DOMAIN queue /\ queue'[i] = queue[i]
               \/ j \in DOMAIN queue /\ queue'[j] = queue[j]
      PROVE  FreshInv'
  <2>0. run[r].match \in Matches /\ run[r].ver \in Nat
    BY <1>1, <1>7, RunFields DEF Version
  <2>1. \A id \in DOMAIN queue' : OldRow(queue[id])'
    BY <1>2, <1>7, <2>0 DEF FreshInv, OldRow
  <2>2. \A id \in DOMAIN claimed : OldRow(claimed[id].row)'
    BY <1>1, <1>7 DEF FreshInv, OldRow
  <2>3. DistinctBodies'
    <3>1. SUFFICES ASSUME NEW i \in DOMAIN queue', NEW j \in DOMAIN queue', i # j,
                          queue'[i].match = queue'[j].match
                   PROVE  queue'[i].ver # queue'[j].ver
      BY DEF DistinctBodies
    <3>2. ASSUME NEW k \in DOMAIN queue, queue[k].match = run[r].match
          PROVE  queue[k].ver < run[r].ver
      BY <1>7, <3>2 DEF FreshInv, OldRow
    <3>3. \A k \in DOMAIN queue : queue[k].match = run[r].match => queue[k].ver # run[r].ver
      BY <1>2, <2>0, <3>2
    <3>4. QED
      BY <1>7, <3>1, <3>3 DEF FreshInv, DistinctBodies
  <2>4. QED
    BY <1>1, <1>7, <2>1, <2>2, <2>3 DEF FreshInv
<1>8. CASE UpdatePending(r)
  <2>1. /\ queue' = Overwrite(queue, run[r].row, run[r].ver) /\ built' = built
        /\ run'[r] = Idle /\ run[r] # Idle /\ run[r].ver \in Nat
    BY <1>1, <1>8, RunFields DEF UpdatePending, Version
  <2>2. run[r].row \in DOMAIN queue => queue[run[r].row].match = run[r].match
    BY <1>8 DEF UpdatePending, SelectedRowIsOurs
  <2>3. \A id \in DOMAIN queue' :
          \/ id \in DOMAIN queue /\ queue'[id] = queue[id]
          \/ queue'[id].match = run[r].match /\ queue'[id].ver = run[r].ver
    BY <1>1, <2>1, <2>2, OverwriteFacts
  <2>4. \A i \in DOMAIN queue' : i # run[r].row => i \in DOMAIN queue /\ queue'[i] = queue[i]
    BY <1>1, <2>1, OverwriteFacts
  <2>5. QED
    BY <1>7, <2>1, <2>3, <2>4
<1>9. CASE InsertPending(r)
  <2>1. /\ queue' = InsertRow(queue, lastId + 1, run[r].match, run[r].ver) /\ built' = built
        /\ run'[r] = Idle /\ run[r] # Idle
    BY <1>1, <1>9, RunFields DEF InsertPending
  <2>2. \A id \in DOMAIN queue' :
          \/ id \in DOMAIN queue /\ queue'[id] = queue[id]
          \/ queue'[id].match = run[r].match /\ queue'[id].ver = run[r].ver
    BY <2>1, PushRowFields DEF InsertRow
  <2>3. \A i \in DOMAIN queue' : i # lastId + 1 => i \in DOMAIN queue /\ queue'[i] = queue[i]
    BY <2>1 DEF InsertRow
  <2>4. QED
    BY <1>7, <2>1, <2>2, <2>3
<1>10. QED
  BY <1>3, <1>5, <1>6, <1>8, <1>9 DEF Enqueue

LEMMA FreshStep ==
    ASSUME NEW r, Runs = {r}, MaxReplays = 0, TypeOK, ClaimsArePending, SelectedRowIsOurs,
           FreshInv, [Next]_vars
    PROVE  FreshInv'
<1>1. CASE \E s \in Runs : Enqueue(s)
  BY <1>1, FreshEnqueue
<1>2. CASE \E id \in DOMAIN claimed : Deliver(id)
  BY <1>2, DeliverBodies, FreshKept
<1>3. CASE Claim
  <2>1. \A id \in DOMAIN claimed' : id \in DOMAIN queue /\ claimed'[id].row = queue[id]
    BY <1>3, ClaimDuePending DEF Claim
  <2>2. NoNewBody /\ UNCHANGED <<run, built>>
    BY <1>3, <2>1 DEF Claim, NoNewBody, runVars
  <2>3. QED
    BY <2>2, FreshKept
<1>4. CASE Kill \/ UNCHANGED vars
  <2>1. NoNewBody /\ UNCHANGED <<run, built>>
    BY <1>4 DEF Kill, NoNewBody, NoClaims, vars, runVars
  <2>2. QED
    BY <2>1, FreshKept
<1>5. ASSUME NEW ms \in SUBSET Matches, Replay(ms) PROVE FALSE
  BY <1>5 DEF TypeOK, Replay
<1>6. CASE Tick
  <2>1. NoNewBody /\ UNCHANGED <<run, built>>
    BY <1>6, ElapseFacts DEF Tick, NoNewBody, TypeOK, runVars
  <2>2. QED
    BY <2>1, FreshKept
<1>7. QED
  BY <1>1, <1>2, <1>3, <1>4, <1>5, <1>6 DEF Next

-----------------------------------------------------------------------------

SlotStays(m) == SlotIn(queue', m) = SlotIn(queue, m)
CopyStays(m) == CopyIn(claimed', m) = CopyIn(claimed, m)
LettersStay(m) == LettersIn(queue', m) = LettersIn(queue, m)

\* The mailbox through the refinement.
MailSlot == [m \in Matches |-> SlotIn(queue, m)]
MailCopy == [m \in Matches |-> CopyIn(claimed, m)]
MailDead == [m \in Matches |-> LettersIn(queue, m)]

LEMMA MailboxIs ==
    /\ [m \in Matches |-> SlotOf(m)] = MailSlot /\ [m \in Matches |-> SlotOf(m)]' = MailSlot'
    /\ [m \in Matches |-> CopyOf(m)] = MailCopy /\ [m \in Matches |-> CopyOf(m)]' = MailCopy'
    /\ [m \in Matches |-> LettersOf(m)] = MailDead
    /\ [m \in Matches |-> LettersOf(m)]' = MailDead'
  BY SlotsAndCopies DEF MailSlot, MailCopy, MailDead

LEMMA MailStays ==
    /\ (\A m \in Matches : SlotStays(m)) => MailSlot' = MailSlot
    /\ (\A m \in Matches : CopyStays(m)) => MailCopy' = MailCopy
    /\ (\A m \in Matches : LettersStay(m)) => MailDead' = MailDead
  BY DEF MailSlot, MailCopy, MailDead, SlotStays, CopyStays, LettersStay

LEMMA MailStutter ==
    ASSUME \A m \in Matches : SlotStays(m) /\ CopyStays(m) /\ LettersStay(m),
           received' = received
    PROVE  UNCHANGED Mail!vars
  BY MailboxIs, MailStays DEF Mail!vars

LEMMA MailPut ==
    ASSUME NEW m \in Matches, NEW v \in 1 .. MaxVersion,
           v > SlotIn(queue, m), v > CopyIn(claimed, m), SlotIn(queue', m) = v,
           \A k \in Matches : k # m => SlotStays(k),
           \A k \in Matches : CopyStays(k) /\ LettersStay(k), received' = received
    PROVE  Mail!Next
<1>1. MailSlot' = [MailSlot EXCEPT ![m] = v] /\ MailCopy' = MailCopy /\ MailDead' = MailDead
  BY MailStays DEF SlotStays, MailSlot
<1>2. v > MailSlot[m] /\ v > MailCopy[m]
  BY DEF MailSlot, MailCopy
<1>3. Mail!Put(m, v)
  BY <1>1, <1>2, MailboxIs DEF Mail!Put
<1>4. QED
  BY <1>3 DEF Mail!Next

LEMMA MailAmend ==
    ASSUME NEW m \in Matches, NEW v \in 1 .. MaxVersion, NEW w \in LettersIn(queue, m), v > w,
           LettersIn(queue', m) = (LettersIn(queue, m) \ {w}) \cup {v},
           \A k \in Matches : k # m => LettersStay(k),
           \A k \in Matches : SlotStays(k) /\ CopyStays(k), received' = received
    PROVE  Mail!Next
<1>1. /\ MailDead' = [MailDead EXCEPT ![m] = (@ \ {w}) \cup {v}]
      /\ MailCopy' = MailCopy /\ MailSlot' = MailSlot
  BY MailStays DEF LettersStay, MailDead
<1>2. w \in MailDead[m]
  BY DEF MailDead
<1>3. Mail!Amend(m, v, w)
  BY <1>1, <1>2, MailboxIs DEF Mail!Amend
<1>4. w \in [k \in Matches |-> LettersOf(k)][m]
  BY <1>2, MailboxIs
<1>5. QED
  BY <1>3, <1>4 DEF Mail!Next

LEMMA MailLeave ==
    ASSUME NEW ms \in SUBSET Matches, \A m \in Matches : CopyIn(claimed, m) = 0,
           \A m \in ms : SlotIn(queue, m) # 0,
           \A m \in Matches : CopyIn(claimed', m) = IF m \in ms THEN SlotIn(queue, m) ELSE 0,
           \A k \in Matches : SlotStays(k) /\ LettersStay(k), received' = received
    PROVE  Mail!Next
<1>1. /\ MailSlot' = MailSlot /\ MailDead' = MailDead
      /\ MailCopy' = [m \in Matches |-> IF m \in ms THEN MailSlot[m] ELSE 0]
  BY MailStays DEF MailSlot, MailCopy
<1>2. (\A m \in Matches : MailCopy[m] = 0) /\ (\A m \in ms : MailSlot[m] # 0)
  BY DEF MailSlot, MailCopy
<1>3. Mail!Leave(ms)
  BY <1>1, <1>2, MailboxIs DEF Mail!Leave
<1>4. QED
  BY <1>3 DEF Mail!Next

LEMMA MailHand ==
    ASSUME NEW m \in Matches, CopyIn(claimed, m) # 0,
           received' = [received EXCEPT ![m] = IF @ < CopyIn(claimed, m)
                                               THEN CopyIn(claimed, m) ELSE @],
           \A k \in Matches : SlotStays(k) /\ CopyStays(k) /\ LettersStay(k)
    PROVE  Mail!Next
<1>1. /\ MailSlot' = MailSlot /\ MailCopy' = MailCopy /\ MailDead' = MailDead
      /\ MailCopy[m] = CopyIn(claimed, m)
  BY MailStays DEF MailCopy
<1>2. Mail!Hand(m)
  BY <1>1, MailboxIs DEF Mail!Hand
<1>3. QED
  BY <1>2 DEF Mail!Next

LEMMA MailCopyBack ==
    ASSUME NEW m \in Matches, CopyIn(claimed', m) = 0, CopyIn(claimed, m) # 0,
           \A k \in Matches : k # m => CopyStays(k)
    PROVE  MailCopy' = [MailCopy EXCEPT ![m] = 0] /\ MailCopy[m] # 0
  BY DEF MailCopy, CopyStays

LEMMA MailReturn ==
    ASSUME NEW m \in Matches, CopyIn(claimed', m) = 0, CopyIn(claimed, m) # 0,
           \A k \in Matches : k # m => CopyStays(k),
           \A k \in Matches : SlotStays(k) /\ LettersStay(k), received' = received
    PROVE  Mail!Next
<1>1. MailSlot' = MailSlot /\ MailDead' = MailDead
  BY MailStays
<1>2. Mail!Return(m)
  BY <1>1, MailCopyBack, MailboxIs DEF Mail!Return
<1>3. QED
  BY <1>2 DEF Mail!Next

LEMMA MailEmpty ==
    ASSUME NEW m \in Matches, CopyIn(claimed', m) = 0, CopyIn(claimed, m) # 0,
           received[m] >= CopyIn(claimed, m),
           \A k \in Matches : k # m => CopyStays(k) /\ SlotStays(k),
           \A k \in Matches : LettersStay(k), SlotIn(queue', m) = 0, received' = received
    PROVE  Mail!Next
<1>1. MailSlot' = [MailSlot EXCEPT ![m] = 0] /\ MailDead' = MailDead
  BY MailStays DEF MailSlot, SlotStays
<1>2. received[m] >= MailCopy[m]
  BY DEF MailCopy
<1>3. Mail!Empty(m)
  BY <1>1, <1>2, MailCopyBack, MailboxIs DEF Mail!Empty
<1>4. QED
  BY <1>3 DEF Mail!Next

LEMMA MailGiveUp ==
    ASSUME NEW m \in Matches, CopyIn(claimed', m) = 0, CopyIn(claimed, m) # 0,
           \A k \in Matches : k # m => CopyStays(k) /\ SlotStays(k) /\ LettersStay(k),
           LettersIn(queue', m) = LettersIn(queue, m) \cup {SlotIn(queue, m)},
           SlotIn(queue', m) = 0, received' = received
    PROVE  Mail!Next
<1>1. /\ MailSlot' = [MailSlot EXCEPT ![m] = 0]
      /\ MailDead' = [MailDead EXCEPT ![m] = @ \cup {MailSlot[m]}]
  BY DEF MailSlot, MailDead, SlotStays, LettersStay
<1>2. Mail!GiveUp(m)
  BY <1>1, MailCopyBack, MailboxIs DEF Mail!GiveUp
<1>3. QED
  BY <1>2 DEF Mail!Next

LEMMA MailLost ==
    ASSUME \A m \in Matches : CopyIn(claimed', m) = 0,
           \A k \in Matches : SlotStays(k) /\ LettersStay(k), received' = received
    PROVE  Mail!Next
<1>1. /\ MailSlot' = MailSlot /\ MailDead' = MailDead
      /\ MailCopy' = [m \in Matches |-> 0]
  BY MailStays DEF MailCopy
<1>2. Mail!Lost
  BY <1>1, MailboxIs DEF Mail!Lost
<1>3. QED
  BY <1>2 DEF Mail!Next

-----------------------------------------------------------------------------
MailInv == TypeOK /\ AttemptInv /\ OneInv /\ LossInv /\ FreshInv

\* A step that leaves the rows of a match alone leaves its slot and its letters alone.
RowsStay(m) ==
    /\ \A i \in DOMAIN queue : queue[i].match = m =>
         /\ i \in DOMAIN queue' /\ queue'[i].match = m
         /\ queue'[i].ver = queue[i].ver /\ queue'[i].status = queue[i].status
    /\ \A i \in DOMAIN queue' : queue'[i].match = m => i \in DOMAIN queue /\ queue[i].match = m

LEMMA RowsStayed ==
    ASSUME NEW m, RowsStay(m)
    PROVE  SlotStays(m) /\ LettersStay(m)
<1>1. /\ PendingOf(queue', m) = PendingOf(queue, m) /\ DeadIn(queue', m) = DeadIn(queue, m)
      /\ \A i \in PendingOf(queue, m) : queue'[i].ver = queue[i].ver
      /\ \A i \in DeadIn(queue, m) : queue'[i].ver = queue[i].ver
  BY DEF RowsStay, PendingOf, DeadIn
<1>2. QED
  BY <1>1, SlotSame, LettersSame DEF SlotStays, LettersStay

ClaimsStay(m) ==
    /\ \A i \in DOMAIN claimed : claimed[i].row.match = m =>
         i \in DOMAIN claimed' /\ claimed'[i].row = claimed[i].row
    /\ \A i \in DOMAIN claimed' : claimed'[i].row.match = m =>
         i \in DOMAIN claimed /\ claimed'[i].row = claimed[i].row

LEMMA ClaimsStayed ==
    ASSUME NEW m, ClaimsStay(m)
    PROVE  CopyStays(m)
<1>1. /\ ClaimsIn(claimed', m) = ClaimsIn(claimed, m)
      /\ \A i \in ClaimsIn(claimed, m) : claimed'[i].row.ver = claimed[i].row.ver
  BY DEF ClaimsStay, ClaimsIn
<1>2. QED
  BY <1>1, CopySame DEF CopyStays

\* The claim of a match and its pending row are one.
LEMMA ClaimFacts ==
    ASSUME MailInv, NEW id \in DOMAIN claimed
    PROVE  LET m == claimed[id].row.match IN
           /\ m \in Matches
           /\ id \in DOMAIN queue /\ queue[id].match = m /\ queue[id].status = "pending"
           /\ PendingOf(queue, m) = {id} /\ ClaimsIn(claimed, m) = {id}
           /\ CopyIn(claimed, m) = claimed[id].row.ver /\ CopyIn(claimed, m) # 0
           /\ SlotIn(queue, m) = queue[id].ver
<1> DEFINE m == claimed[id].row.match
<1>1. /\ m \in Matches /\ claimed[id].row.ver \in Nat
      /\ id \in DOMAIN queue /\ queue[id].match = m /\ queue[id].status = "pending"
  BY ClaimedFields, RowFields DEF MailInv, TypeOK, AttemptInv, ClaimsArePending
<1>2. PendingOf(queue, m) = {id}
  BY <1>1 DEF MailInv, OneInv, OnePendingPerMatch, PendingOf
<1>3. \A j \in DOMAIN claimed : claimed[j].row.match = m => j \in PendingOf(queue, m)
  BY DEF MailInv, AttemptInv, ClaimsArePending, PendingOf
<1>4. ClaimsIn(claimed, m) = {id}
  BY <1>2, <1>3 DEF ClaimsIn
<1>5. 0 < claimed[id].row.ver
  BY DEF MailInv, FreshInv, OldRow
<1>6. CopyIn(claimed, m) = claimed[id].row.ver
  BY <1>4, CopyIs
<1>7. SlotIn(queue, m) = queue[id].ver
  BY <1>2, SlotIs
<1>8. QED
  BY <1>1, <1>2, <1>4, <1>5, <1>6, <1>7

\* Whatever is in the slot of a match or in its copy is older than the body in the hands
\* of a run.
LEMMA OlderThanRun ==
    ASSUME MailInv, NEW r \in Runs, run[r] # Idle
    PROVE  LET m == run[r].match IN
           /\ m \in Matches /\ run[r].ver \in 1 .. MaxVersion
           /\ run[r].ver > SlotIn(queue, m) /\ run[r].ver > CopyIn(claimed, m)
           /\ \A id \in DOMAIN queue : queue[id].match = m => run[r].ver > queue[id].ver
<1> DEFINE m == run[r].match
<1>1. run[r].match \in Matches /\ run[r].ver \in 0 .. MaxVersion /\ 0 < run[r].ver
  <2>1. run[r] \in RunState
    BY DEF MailInv, TypeOK
  <2>2. 0 < run[r].ver
    BY DEF MailInv, FreshInv
  <2>3. QED
    BY <2>1, <2>2, RunFields DEF Version
<1>2. /\ \A id \in DOMAIN queue : queue[id].ver \in Nat
      /\ \A id \in DOMAIN claimed : claimed[id].row.ver \in Nat
  BY RowFields, ClaimedFields DEF MailInv, TypeOK, IsTable
<1>3. ASSUME NEW id \in DOMAIN queue, queue[id].match = m PROVE run[r].ver > queue[id].ver
  <2>1. queue[id].ver < run[r].ver
    BY <1>3 DEF MailInv, FreshInv, OldRow
  <2>2. QED
    BY <1>1, <1>2, <2>1
<1>4. ASSUME NEW id \in DOMAIN claimed, claimed[id].row.match = m
      PROVE  run[r].ver > claimed[id].row.ver
  <2>1. claimed[id].row.ver < run[r].ver
    BY <1>4 DEF MailInv, FreshInv, OldRow
  <2>2. QED
    BY <1>1, <1>2, <2>1
<1>5. SlotIn(queue, m) = 0 \/ \E id \in PendingOf(queue, m) : SlotIn(queue, m) = queue[id].ver
  <2>1. PendingOf(queue, m) # {} => (CHOOSE id \in PendingOf(queue, m) : TRUE) \in PendingOf(queue, m)
    OBVIOUS
  <2>2. QED
    BY <2>1 DEF SlotIn
<1>6. CopyIn(claimed, m) = 0 \/ \E id \in ClaimsIn(claimed, m) : CopyIn(claimed, m) = claimed[id].row.ver
  <2>1. ClaimsIn(claimed, m) # {} => (CHOOSE id \in ClaimsIn(claimed, m) : TRUE) \in ClaimsIn(claimed, m)
    OBVIOUS
  <2>2. QED
    BY <2>1 DEF CopyIn
<1>7. run[r].ver > SlotIn(queue, m)
  BY <1>1, <1>3, <1>5 DEF PendingOf
<1>8. run[r].ver > CopyIn(claimed, m)
  BY <1>1, <1>4, <1>6 DEF ClaimsIn
<1>9. QED
  BY <1>1, <1>3, <1>7, <1>8

LEMMA MailWrite ==
    ASSUME MailInv, NEW r \in Runs, UpdatePending(r) \/ InsertPending(r)
    PROVE  Mail!Next \/ UNCHANGED Mail!vars
<1> DEFINE m == run[r].match
           v == run[r].ver
           w == run[r].row
<1>1. /\ run[r] # Idle /\ v \in Nat /\ claimed' = claimed /\ received' = received
      /\ IsTable(queue, lastId) /\ lastId \in Nat
  BY RunFields DEF MailInv, TypeOK, UpdatePending, InsertPending, sweepVars, Version
<1>2. \A k \in Matches : CopyStays(k)
  BY <1>1 DEF CopyStays
<1>3. /\ m \in Matches /\ v \in 1 .. MaxVersion
      /\ v > SlotIn(queue, m) /\ v > CopyIn(claimed, m)
      /\ \A id \in DOMAIN queue : queue[id].match = m => v > queue[id].ver
  BY <1>1, OlderThanRun
<1>4. CASE UpdatePending(r)
  <2>1. /\ DOMAIN queue' = DOMAIN queue
        /\ \A i \in DOMAIN queue : i # w => queue'[i] = queue[i]
        /\ w \in DOMAIN queue => /\ queue'[w].match = queue[w].match /\ queue'[w].ver = v
                                 /\ queue'[w].status = queue[w].status
    BY <1>1, <1>4, OverwriteFacts DEF UpdatePending
  <2>2. w \in DOMAIN queue => queue[w].match = m
    BY <1>4 DEF UpdatePending, MailInv, LossInv, SelectedRowIsOurs
  <2>3. \A k \in Matches : k # m => SlotStays(k) /\ LettersStay(k)
    <3>1. \A k \in Matches : k # m => RowsStay(k)
      BY <2>1, <2>2 DEF RowsStay
    <3>2. QED
      BY <3>1, RowsStayed
  \* The row is gone: the UPDATE finds nothing.
  <2>4. CASE w \notin DOMAIN queue
    <3>1. \A k \in Matches : RowsStay(k)
      BY <2>1, <2>4 DEF RowsStay
    <3>2. QED
      BY <1>1, <1>2, <3>1, RowsStayed, MailStutter
  <2>5. CASE w \in DOMAIN queue /\ queue[w].status = "pending"
    <3>1. PendingOf(queue, m) = {w}
      BY <2>2, <2>5 DEF MailInv, OneInv, OnePendingPerMatch, PendingOf
    <3>2. PendingOf(queue', m) = {w}
      BY <2>1, <2>2, <2>5, <3>1 DEF PendingOf
    <3>3. SlotIn(queue', m) = v
      BY <2>1, <2>5, <3>2, SlotIs
    <3>4. DeadIn(queue', m) = DeadIn(queue, m) /\ \A i \in DeadIn(queue, m) : queue'[i] = queue[i]
      BY <2>1, <2>2, <2>5 DEF DeadIn
    <3>5. LettersStay(m)
      BY <3>4, LettersSame DEF LettersStay
    <3>6. QED
      BY <1>1, <1>2, <1>3, <2>3, <3>3, <3>5, MailPut
  \* The row went dead since the SELECT: its letter is amended.
  <2>6. CASE w \in DOMAIN queue /\ queue[w].status # "pending"
    <3>1. queue[w].status = "dead"
      BY <1>1, <2>6, RowFields DEF IsTable
    <3>2. PendingOf(queue', m) = PendingOf(queue, m)
          /\ \A i \in PendingOf(queue, m) : queue'[i] = queue[i]
      BY <2>1, <2>2, <2>6 DEF PendingOf
    <3>3. SlotStays(m)
      BY <3>2, SlotSame DEF SlotStays
    <3>4. DeadIn(queue', m) = DeadIn(queue, m) /\ w \in DeadIn(queue, m)
          /\ \A i \in DeadIn(queue, m) : i # w => queue'[i] = queue[i]
      BY <2>1, <2>2, <2>6, <3>1 DEF DeadIn
    <3>5. \A i \in DeadIn(queue, m) : i # w => queue[i].ver # queue[w].ver
      BY <3>4 DEF MailInv, FreshInv, DistinctBodies, DeadIn
    <3>6. LettersIn(queue', m) = (LettersIn(queue, m) \ {queue[w].ver}) \cup {v}
      BY <2>1, <2>6, <3>4, <3>5 DEF LettersIn
    <3>7. queue[w].ver \in LettersIn(queue, m) /\ v > queue[w].ver
      BY <1>3, <2>2, <2>6, <3>4 DEF LettersIn
    <3>8. \A k \in Matches : SlotStays(k) /\ CopyStays(k)
      BY <1>2, <2>3, <3>3
    <3>9. QED
      BY <1>1, <1>3, <2>3, <3>6, <3>7, <3>8, MailAmend
  <2>7. QED
    BY <2>4, <2>5, <2>6
<1>5. CASE InsertPending(r)
  <2>1. /\ queue' = InsertRow(queue, lastId + 1, m, v) /\ PendingOf(queue, m) = {}
        /\ lastId + 1 \notin DOMAIN queue
    BY <1>1, <1>5 DEF InsertPending, MailInv, OneInv, InsertIsNeeded, IsTable
  <2>2. PICK n : n = lastId + 1
    OBVIOUS
  <2>3. /\ DOMAIN queue' = DOMAIN queue \cup {n} /\ n \notin DOMAIN queue
        /\ queue'[n].match = m /\ queue'[n].ver = v /\ queue'[n].status = "pending"
        /\ \A i \in DOMAIN queue : queue'[i] = queue[i]
    BY <2>1, <2>2, PushRowFields DEF InsertRow
  <2>4. \A k \in Matches : k # m => SlotStays(k) /\ LettersStay(k)
    <3>1. \A k \in Matches : k # m => RowsStay(k)
      BY <2>3 DEF RowsStay
    <3>2. QED
      BY <3>1, RowsStayed
  <2>5. PendingOf(queue', m) = {n}
    BY <2>1, <2>3 DEF PendingOf
  <2>6. SlotIn(queue', m) = v
    BY <2>3, <2>5, SlotIs
  <2>7. DeadIn(queue', m) = DeadIn(queue, m) /\ \A i \in DeadIn(queue, m) : queue'[i] = queue[i]
    BY <2>3 DEF DeadIn
  <2>8. LettersStay(m)
    BY <2>7, LettersSame DEF LettersStay
  <2>9. QED
    BY <1>1, <1>2, <1>3, <2>4, <2>6, <2>8, MailPut
<1>6. QED
  BY <1>4, <1>5

LEMMA MailDeliver ==
    ASSUME MailInv, NEW id \in DOMAIN claimed, Deliver(id)
    PROVE  Mail!Next \/ UNCHANGED Mail!vars
<1> DEFINE m == claimed[id].row.match
<1>1. /\ m \in Matches
      /\ id \in DOMAIN queue /\ queue[id].match = m /\ queue[id].status = "pending"
      /\ PendingOf(queue, m) = {id} /\ ClaimsIn(claimed, m) = {id}
      /\ CopyIn(claimed, m) = claimed[id].row.ver /\ CopyIn(claimed, m) # 0
      /\ SlotIn(queue, m) = queue[id].ver
  BY ClaimFacts
<1>2. IsTable(queue, lastId) /\ lastId \in Nat
  BY DEF MailInv, TypeOK
<1>3. CASE Dispatch(id) \/ Receive(id)
  <2>1. /\ queue' = queue
        /\ \A i \in DOMAIN claimed : i \in DOMAIN claimed' /\ claimed'[i].row = claimed[i].row
        /\ DOMAIN claimed' = DOMAIN claimed
    BY <1>3 DEF Dispatch, Receive, MailInv, TypeOK
  <2>2. \A k \in Matches : ClaimsStay(k) /\ RowsStay(k)
    BY <2>1 DEF ClaimsStay, RowsStay
  <2>3. \A k \in Matches : SlotStays(k) /\ CopyStays(k) /\ LettersStay(k)
    BY <2>2, ClaimsStayed, RowsStayed
  <2>4. CASE Dispatch(id)
    BY <2>3, <2>4, MailStutter DEF Dispatch
  <2>5. CASE Receive(id)
    <3>1. received' = [received EXCEPT ![m] = IF @ < CopyIn(claimed, m)
                                              THEN CopyIn(claimed, m) ELSE @]
      BY <1>1, <2>5 DEF Receive
    <3>2. QED
      BY <1>1, <2>3, <3>1, MailHand
  <2>6. QED
    BY <1>3, <2>4, <2>5
\* A claim that is settled takes its copy back, and no other.
<1>4. ASSUME Applied(id)
      PROVE  /\ received' = received /\ CopyIn(claimed', m) = 0
             /\ \A k \in Matches : k # m => CopyStays(k)
  <2>1. /\ DOMAIN claimed' = DOMAIN claimed \ {id}
        /\ \A i \in DOMAIN claimed' : claimed'[i] = claimed[i]
        /\ received' = received
    BY <1>4 DEF Applied
  <2>2. \A k \in Matches : k # m => ClaimsStay(k)
    BY <2>1 DEF ClaimsStay
  <2>3. ClaimsIn(claimed', m) = {}
    BY <1>1, <2>1 DEF ClaimsIn
  <2>4. QED
    BY <2>1, <2>2, <2>3, ClaimsStayed DEF CopyIn
<1>5. CASE ApplyOk(id)
  <2>1. /\ DOMAIN queue' = DOMAIN queue \ {id}
        /\ \A i \in DOMAIN queue' : queue'[i] = queue[i]
        /\ Applied(id) /\ claimed[id].phase = "accepted"
    BY <1>2, <1>5, SentFacts DEF ApplyOk
  <2>2. received[m] >= CopyIn(claimed, m)
    BY <1>1, <2>1 DEF MailInv, LossInv, AcceptedIsReceived
  <2>3. PendingOf(queue', m) = {}
    BY <1>1, <2>1 DEF PendingOf
  <2>4. SlotIn(queue', m) = 0
    BY <2>3 DEF SlotIn
  <2>5. DeadIn(queue', m) = DeadIn(queue, m) /\ \A i \in DeadIn(queue, m) : queue'[i] = queue[i]
    BY <1>1, <2>1 DEF DeadIn
  <2>6. LettersStay(m)
    BY <2>5, LettersSame DEF LettersStay
  <2>7. \A k \in Matches : k # m => RowsStay(k)
    BY <1>1, <2>1 DEF RowsStay
  <2>8. /\ \A k \in Matches : k # m => CopyStays(k) /\ SlotStays(k)
        /\ \A k \in Matches : LettersStay(k)
    BY <1>4, <2>1, <2>6, <2>7, RowsStayed
  <2>9. QED
    BY <1>1, <1>4, <2>1, <2>2, <2>4, <2>8, MailEmpty
<1>6. ASSUME queue' = MarkDead(queue, id), Applied(id) PROVE Mail!Next
  <2>1. /\ DOMAIN queue' = DOMAIN queue
        /\ \A i \in DOMAIN queue : i # id => queue'[i] = queue[i]
        /\ queue'[id].match = m /\ queue'[id].ver = queue[id].ver
        /\ queue'[id].status = "dead"
    BY <1>1, <1>2, <1>6, DeadFacts
  <2>2. PendingOf(queue', m) = {}
    BY <1>1, <2>1 DEF PendingOf
  <2>3. SlotIn(queue', m) = 0
    BY <2>2 DEF SlotIn
  <2>4. DeadIn(queue', m) = DeadIn(queue, m) \cup {id} /\ id \notin DeadIn(queue, m)
    BY <1>1, <2>1 DEF DeadIn
  <2>5. \A i \in DeadIn(queue', m) : queue'[i].ver = queue[i].ver
    BY <2>1, <2>4 DEF DeadIn
  <2>6. LettersIn(queue', m) = LettersIn(queue, m) \cup {SlotIn(queue, m)}
    BY <1>1, <2>4, <2>5 DEF LettersIn
  <2>7. \A k \in Matches : k # m => RowsStay(k)
    BY <1>1, <2>1 DEF RowsStay
  <2>8. \A k \in Matches : k # m => CopyStays(k) /\ SlotStays(k) /\ LettersStay(k)
    BY <1>4, <1>6, <2>7, RowsStayed
  <2>9. QED
    BY <1>1, <1>4, <1>6, <2>3, <2>6, <2>8, MailGiveUp
<1>7. ASSUME NEW wait, queue' = MarkRetry(queue, id, wait), Applied(id) PROVE Mail!Next
  <2>1. /\ DOMAIN queue' = DOMAIN queue
        /\ \A i \in DOMAIN queue : /\ queue'[i].match = queue[i].match
                                   /\ queue'[i].ver = queue[i].ver
                                   /\ queue'[i].status = queue[i].status
    BY <1>7, PushRowFields DEF MarkRetry
  <2>2. \A k \in Matches : RowsStay(k)
    BY <2>1 DEF RowsStay
  <2>3. QED
    BY <1>1, <1>4, <1>7, <2>2, RowsStayed, MailReturn
<1>8. CASE ApplyPermanent(id)
  BY <1>6, <1>8 DEF ApplyPermanent
<1>9. CASE ApplyRetryable(id)
  <2>1. Applied(id) /\ (queue' = MarkDead(queue, id) \/ \E wait : queue' = MarkRetry(queue, id, wait))
    BY <1>9 DEF ApplyRetryable
  <2>2. QED
    BY <1>6, <1>7, <2>1
<1>10. QED
  BY <1>3, <1>5, <1>8, <1>9 DEF Deliver

LEMMA MailClaim ==
    ASSUME MailInv, MailInv', Claim
    PROVE  Mail!Next
<1> DEFINE ms == {m \in Matches : ClaimsIn(claimed', m) # {}}
<1>1. /\ claimed = NoClaims /\ queue' = queue /\ received' = received
      /\ DOMAIN claimed' = ClaimDue(queue, RatePerMin)
      /\ \A id \in DOMAIN claimed' : claimed'[id].row = queue[id]
  BY DEF Claim
<1>2. \A m \in Matches : SlotStays(m) /\ LettersStay(m)
  BY <1>1 DEF SlotStays, LettersStay
<1>3. \A m \in Matches : CopyIn(claimed, m) = 0
  <2>1. \A m \in Matches : ClaimsIn(claimed, m) = {}
    BY <1>1 DEF ClaimsIn, NoClaims
  <2>2. QED
    BY <2>1 DEF CopyIn
<1>4. ASSUME NEW m \in ms
      PROVE  SlotIn(queue, m) # 0 /\ CopyIn(claimed', m) = SlotIn(queue, m)
  <2>1. PICK id \in DOMAIN claimed' : claimed'[id].row.match = m
    BY DEF ClaimsIn
  <2>2. \A j \in ClaimsIn(claimed', m) : j \in PendingOf(queue, m)
    BY <1>1, ClaimDuePending DEF ClaimsIn, PendingOf
  <2>3. id \in ClaimsIn(claimed', m)
    BY <2>1 DEF ClaimsIn
  <2>4. PendingOf(queue, m) = {id}
    BY <2>2, <2>3 DEF MailInv, OneInv, OnePendingPerMatch, PendingOf
  <2>5. SlotIn(queue, m) = queue[id].ver
    BY <2>4, SlotIs
  <2>6. CopyIn(claimed', m) = claimed'[id].row.ver
    BY <2>2, <2>3, <2>4, CopyIs
  <2>7. 0 < queue[id].ver
    BY <2>4 DEF PendingOf, MailInv, FreshInv, OldRow
  <2>8. QED
    BY <1>1, <2>1, <2>5, <2>6, <2>7
<1>5. \A m \in Matches : m \notin ms => CopyIn(claimed', m) = 0
  BY DEF CopyIn
<1>6. ms \in SUBSET Matches
  OBVIOUS
<1>7. \A m \in Matches : CopyIn(claimed', m) = IF m \in ms THEN SlotIn(queue, m) ELSE 0
  BY <1>4, <1>5
<1>8. \A m \in ms : SlotIn(queue, m) # 0
  BY <1>4
<1> HIDE DEF ms
<1>9. QED
  BY <1>1, <1>2, <1>3, <1>6, <1>7, <1>8, MailLeave

LEMMA MailStep ==
    ASSUME NEW r, Runs = {r}, MaxReplays = 0, MailInv, MailInv', [Next]_vars
    PROVE  Mail!Next \/ UNCHANGED Mail!vars
<1>0. IsTable(queue, lastId) /\ lastId \in Nat
  BY DEF MailInv, TypeOK
<1>1. ASSUME queue' = queue, claimed' = claimed, received' = received
      PROVE  UNCHANGED Mail!vars
  <2>1. \A m \in Matches : SlotStays(m) /\ CopyStays(m) /\ LettersStay(m)
    BY <1>1 DEF SlotStays, CopyStays, LettersStay
  <2>2. QED
    BY <1>1, <2>1, MailStutter
<1>2. CASE \E s \in Runs : Enqueue(s)
  <2>1. PICK s \in Runs : Enqueue(s)
    BY <1>2
  <2>2. CASE (\E m \in Matches : Build(s, m)) \/ Abandon(s) \/ SelectPending(s)
    BY <1>1, <2>2 DEF Build, Abandon, SelectPending, sweepVars
  <2>3. QED
    BY <2>1, <2>2, MailWrite DEF Enqueue
<1>3. CASE \E id \in DOMAIN claimed : Deliver(id)
  BY <1>3, MailDeliver
<1>4. CASE Claim
  BY <1>4, MailClaim
<1>5. CASE Kill
  <2>1. queue' = queue /\ received' = received /\ claimed' = NoClaims
    BY <1>5 DEF Kill
  <2>2. \A m \in Matches : SlotStays(m) /\ LettersStay(m)
    BY <2>1 DEF SlotStays, LettersStay
  <2>3. \A m \in Matches : ClaimsIn(claimed', m) = {}
    BY <2>1 DEF ClaimsIn, NoClaims
  <2>4. \A m \in Matches : CopyIn(claimed', m) = 0
    BY <2>3 DEF CopyIn
  <2>5. QED
    BY <2>1, <2>2, <2>4, MailLost
<1>6. ASSUME NEW ms \in SUBSET Matches, Replay(ms) PROVE FALSE
  BY <1>6 DEF MailInv, TypeOK, Replay
<1>7. CASE Tick
  <2>1. /\ DOMAIN queue' = DOMAIN queue
        /\ \A i \in DOMAIN queue : /\ queue'[i].match = queue[i].match
                                   /\ queue'[i].ver = queue[i].ver
                                   /\ queue'[i].status = queue[i].status
        /\ claimed' = claimed /\ received' = received
    BY <1>0, <1>7, ElapseFacts DEF Tick
  <2>2. \A m \in Matches : RowsStay(m) /\ CopyStays(m)
    BY <2>1 DEF RowsStay, CopyStays
  <2>3. QED
    BY <2>1, <2>2, RowsStayed, MailStutter
<1>8. CASE UNCHANGED vars
  BY <1>1, <1>8 DEF vars
<1>9. QED
  BY <1>2, <1>3, <1>4, <1>5, <1>6, <1>7, <1>8 DEF Next

LEMMA MailInit == ASSUME Init PROVE FreshInv /\ Mail!Init
<1>1. DOMAIN queue = {} /\ DOMAIN claimed = {} /\ \A s \in Runs : run[s] = Idle
  BY DEF Init, EmptyTable, NoClaims
<1>2. FreshInv
  BY <1>1 DEF FreshInv, DistinctBodies
<1>3. \A m \in Matches : PendingOf(queue, m) = {} /\ ClaimsIn(claimed, m) = {} /\ DeadIn(queue, m) = {}
  BY <1>1 DEF PendingOf, ClaimsIn, DeadIn
<1>4. \A m \in Matches : SlotIn(queue, m) = 0 /\ CopyIn(claimed, m) = 0 /\ LettersIn(queue, m) = {}
  BY <1>3 DEF SlotIn, CopyIn, LettersIn
<1>5. /\ MailSlot = [m \in Matches |-> 0] /\ MailCopy = [m \in Matches |-> 0]
      /\ MailDead = [m \in Matches |-> {}] /\ received = [m \in Matches |-> 0]
  BY <1>4 DEF MailSlot, MailCopy, MailDead, Init
<1>6. Mail!Init
  BY <1>5, MailboxIs DEF Mail!Init
<1>7. QED
  BY <1>2, <1>6

\* The wire is a mailbox, whatever the number of matches and bodies, the retry schedule, the
\* rate and the timeouts, as long as one run enqueues at a time and no dead letter is
\* replayed: every statement on the table, answer and kill is a step of Mailbox or leaves
\* it alone, so a body leaves its slot only for the receiver or for the dead letters.
THEOREM WireIsAMailbox ==
    ASSUME NEW r, Runs = {r}, MaxReplays = 0
    PROVE  Spec => ImplementsMailbox
<1>1. Init => MailInv /\ Mail!Init
  <2>1. Init => OneInv
    BY DEF Init, EmptyTable, OneInv, OnePendingPerMatch, InsertIsNeeded, Idle
  <2>2. QED
    BY <2>1, TypeInit, AttemptInit, LossInit, MailInit DEF MailInv
<1>2. MailInv /\ [Next]_vars => MailInv'
  <2>1. SUFFICES ASSUME MailInv, [Next]_vars PROVE MailInv'
    OBVIOUS
  <2>2. TypeOK' /\ AttemptInv' /\ LossInv'
    BY <2>1, TypeStep, AttemptStep, LossStep DEF MailInv
  <2>3. OneInv' /\ FreshInv'
    BY <2>1, OneStep, FreshStep DEF MailInv, AttemptInv, LossInv
  <2>4. QED
    BY <2>2, <2>3 DEF MailInv
<1>3. MailInv /\ MailInv' /\ [Next]_vars => [Mail!Next]_(Mail!vars)
  BY MailStep
<1>4. QED
  BY <1>1, <1>2, <1>3, PTL DEF Spec, ImplementsMailbox, Mail!Spec

-----------------------------------------------------------------------------
(* The wire is a postbox                                                     *)

BoxInv == TypeOK /\ AttemptInv /\ LossInv

BoxLetters == [id \in DOMAIN queue |-> LetterOf(queue[id])]
BoxCopies == [id \in DOMAIN claimed |-> BodyOf(claimed[id].row)]

\* Letters and copies are made of these fields only.
LEMMA LetterIs ==
    /\ \A a, b : a.match = b.match /\ a.ver = b.ver /\ a.status = b.status
                   => LetterOf(a) = LetterOf(b)
    /\ \A a, b : a.match = b.match /\ a.ver = b.ver => BodyOf(a) = BodyOf(b)
    /\ \A a : /\ LetterOf(a).match = a.match /\ LetterOf(a).ver = a.ver
              /\ LetterOf(a).dead = (a.status = "dead")
              /\ BodyOf(a).match = a.match /\ BodyOf(a).ver = a.ver
  BY DEF LetterOf, BodyOf

LEMMA LetterExcept ==
    ASSUME NEW row, NEW d
    PROVE  [LetterOf(row) EXCEPT !.dead = d]
             = [match |-> row.match, ver |-> row.ver, dead |-> d]
<1>1. LetterOf(row) \in [match : {row.match}, ver : {row.ver}, dead : BOOLEAN]
  BY DEF LetterOf
<1>2. QED
  BY <1>1

\* A step that keeps the bodies and the status of all rows keeps the letters.
LEMMA LettersKept ==
    ASSUME DOMAIN queue' = DOMAIN queue,
           \A i \in DOMAIN queue : /\ queue'[i].match = queue[i].match
                                   /\ queue'[i].ver = queue[i].ver
                                   /\ queue'[i].status = queue[i].status
    PROVE  BoxLetters' = BoxLetters
<1>1. \A i \in DOMAIN queue : LetterOf(queue'[i]) = LetterOf(queue[i])
  BY LetterIs
<1>2. QED
  BY <1>1 DEF BoxLetters

LEMMA CopiesKept ==
    ASSUME DOMAIN claimed' = DOMAIN claimed,
           \A i \in DOMAIN claimed : claimed'[i].row = claimed[i].row
    PROVE  BoxCopies' = BoxCopies
  BY DEF BoxCopies

\* What a run writes goes into a letter there is, into a new one, or nowhere.
LEMMA BoxWrite ==
    ASSUME BoxInv, NEW r \in Runs, UpdatePending(r) \/ InsertPending(r)
    PROVE  Box!Next \/ UNCHANGED Box!vars
<1> DEFINE m == run[r].match
           v == run[r].ver
<1>1. IsTable(queue, lastId) /\ lastId \in Nat /\ run[r] \in RunState /\ run[r].pc = "selected"
  BY DEF BoxInv, TypeOK, UpdatePending, InsertPending
<1>2. m \in Matches /\ v \in Version /\ v \in Nat
  BY <1>1, RunFields DEF Version
<1>3. CASE UpdatePending(r)
  <2> DEFINE id == run[r].row
  <2>1. /\ queue' = Overwrite(queue, id, v)
        /\ UNCHANGED <<lastId, claimed, received>>
    BY <1>3 DEF UpdatePending, sweepVars
  <2>2. /\ DOMAIN queue' = DOMAIN queue
        /\ \A i \in DOMAIN queue : i # id => queue'[i] = queue[i]
        /\ id \in DOMAIN queue => /\ queue'[id].match = queue[id].match
                                  /\ queue'[id].ver = v
                                  /\ queue'[id].status = queue[id].status
    BY <1>1, <1>2, <2>1, OverwriteFacts
  <2>3. BoxCopies' = BoxCopies
    BY <2>1 DEF BoxCopies
  <2>4. CASE id \in DOMAIN queue
    <3>1. LetterOf(queue'[id]) = [LetterOf(queue[id]) EXCEPT !.ver = v]
      BY <2>2, <2>4 DEF LetterOf
    <3>2. BoxLetters' = [BoxLetters EXCEPT ![id].ver = v]
      <4> HIDE DEF id, v
      <4> QED
        BY <2>2, <2>4, <3>1 DEF BoxLetters
    <3>3. Box!Amend(id, v)
      BY <2>1, <2>3, <3>2 DEF Box!Amend, BoxLetters, BoxCopies
    <3>4. QED
      BY <1>2, <2>4, <3>3 DEF Box!Next
  <2>5. CASE id \notin DOMAIN queue
    <3>1. BoxLetters' = BoxLetters
      BY <2>2, <2>5, LettersKept
    <3>2. QED
      BY <2>1, <2>3, <3>1 DEF Box!vars, BoxLetters, BoxCopies
  <2>6. QED
    BY <2>4, <2>5
<1>4. CASE InsertPending(r)
  <2>1. /\ queue' = InsertRow(queue, lastId + 1, m, v) /\ lastId' = lastId + 1
        /\ UNCHANGED <<claimed, received>>
    BY <1>4 DEF InsertPending, sweepVars
  <2>2. lastId + 1 \notin DOMAIN queue
    BY <1>1, <1>2, InsertType
  <2>3. LetterOf(PushRow(m, v, 0, 0, "pending")) = [match |-> m, ver |-> v, dead |-> FALSE]
    BY DEF PushRow, LetterOf
  <2>4. BoxLetters' = [id \in DOMAIN BoxLetters \cup {lastId'} |->
                         IF id = lastId' THEN [match |-> m, ver |-> v, dead |-> FALSE]
                         ELSE BoxLetters[id]]
    <3> HIDE DEF m, v
    <3> QED
      BY <2>1, <2>2, <2>3 DEF BoxLetters, InsertRow
  <2>5. BoxCopies' = BoxCopies
    BY <2>1 DEF BoxCopies
  <2>6. Box!Post(m, v)
    BY <2>1, <2>4, <2>5 DEF Box!Post, BoxLetters, BoxCopies
  <2>7. QED
    BY <1>2, <2>6 DEF Box!Next
<1>5. QED
  BY <1>3, <1>4

\* The outcome of a delivery goes to the letter whose copy it was.
LEMMA BoxDeliver ==
    ASSUME BoxInv, NEW id \in DOMAIN claimed, Deliver(id)
    PROVE  Box!Next \/ UNCHANGED Box!vars
<1> DEFINE m == claimed[id].row.match
           v == claimed[id].row.ver
<1>1. /\ IsTable(queue, lastId) /\ lastId \in Nat
      /\ id \in DOMAIN queue /\ queue[id].status = "pending" /\ queue[id].match = m
      /\ id \in DOMAIN BoxLetters /\ id \in DOMAIN BoxCopies
      /\ BoxCopies[id].match = m /\ BoxCopies[id].ver = v
  BY LetterIs DEF BoxInv, TypeOK, AttemptInv, ClaimsArePending, BoxLetters, BoxCopies
<1>2. CASE Dispatch(id) \/ Receive(id)
  <2>1. /\ UNCHANGED <<queue, lastId>> /\ DOMAIN claimed' = DOMAIN claimed
        /\ \A i \in DOMAIN claimed : claimed'[i].row = claimed[i].row
    BY <1>2 DEF Dispatch, Receive, BoxInv, TypeOK
  <2>2. BoxCopies' = BoxCopies /\ BoxLetters' = BoxLetters
    BY <2>1, CopiesKept DEF BoxLetters
  <2>3. CASE Dispatch(id)
    BY <2>1, <2>2, <2>3 DEF Dispatch, Box!vars, BoxLetters, BoxCopies
  <2>4. CASE Receive(id)
    <3>1. received' = [received EXCEPT ![m] = IF @ < v THEN v ELSE @]
      BY <2>4 DEF Receive
    <3>2. Box!Hand(id)
      BY <1>1, <2>1, <2>2, <3>1 DEF Box!Hand, BoxLetters, BoxCopies
    <3>3. QED
      BY <1>1, <3>2 DEF Box!Next, BoxCopies
  <2>5. QED
    BY <1>2, <2>3, <2>4
<1>3. ASSUME Applied(id)
      PROVE  BoxCopies' = Box!Without(BoxCopies, id) /\ UNCHANGED <<lastId, received>>
  <2>1. /\ DOMAIN claimed' = DOMAIN claimed \ {id}
        /\ \A i \in DOMAIN claimed' : claimed'[i] = claimed[i]
        /\ UNCHANGED <<lastId, received>>
    BY <1>3 DEF Applied
  <2>2. QED
    BY <2>1 DEF BoxCopies, Box!Without
<1>4. CASE ApplyOk(id)
  <2>1. /\ DOMAIN queue' = DOMAIN queue \ {id}
        /\ \A i \in DOMAIN queue' : queue'[i] = queue[i]
        /\ Applied(id) /\ claimed[id].phase = "accepted"
    BY <1>4 DEF ApplyOk, MarkSent
  <2>2. BoxLetters' = Box!Without(BoxLetters, id)
    BY <2>1 DEF BoxLetters, Box!Without
  <2>3. received[m] >= v
    BY <2>1 DEF BoxInv, LossInv, AcceptedIsReceived
  <2>4. Box!Destroy(id)
    BY <1>1, <1>3, <2>1, <2>2, <2>3 DEF Box!Destroy, BoxLetters, BoxCopies
  <2>5. QED
    BY <1>1, <2>4 DEF Box!Next, BoxLetters, BoxCopies
<1>5. ASSUME queue' = MarkDead(queue, id), Applied(id) PROVE Box!Next
  <2>1. /\ DOMAIN queue' = DOMAIN queue
        /\ \A i \in DOMAIN queue : i # id => queue'[i] = queue[i]
        /\ queue'[id].match = queue[id].match /\ queue'[id].ver = queue[id].ver
        /\ queue'[id].status = "dead"
    BY <1>1, <1>5, DeadFacts
  <2>2. LetterOf(queue'[id]) = [LetterOf(queue[id]) EXCEPT !.dead = TRUE]
    <3>1. (queue'[id].status = "dead") = TRUE
      BY <2>1
    <3>2. LetterOf(queue'[id]) = [match |-> queue[id].match, ver |-> queue[id].ver, dead |-> TRUE]
      BY <2>1, <3>1, Zenon DEF LetterOf
    <3>3. QED
      BY <3>2, LetterExcept
  <2>3. BoxLetters' = [BoxLetters EXCEPT ![id].dead = TRUE]
    BY <1>1, <2>1, <2>2 DEF BoxLetters
  <2>4. ~BoxLetters[id].dead
    BY <1>1, LetterIs DEF BoxLetters
  <2>5. Box!GiveUp(id)
    BY <1>3, <1>5, <2>3, <2>4 DEF Box!GiveUp, BoxLetters, BoxCopies
  <2>6. QED
    BY <1>1, <2>5 DEF Box!Next, BoxLetters, BoxCopies
<1>6. ASSUME NEW wait, queue' = MarkRetry(queue, id, wait), Applied(id) PROVE Box!Next
  <2>1. /\ DOMAIN queue' = DOMAIN queue
        /\ \A i \in DOMAIN queue : /\ queue'[i].match = queue[i].match
                                   /\ queue'[i].ver = queue[i].ver
                                   /\ queue'[i].status = queue[i].status
    BY <1>6, PushRowFields DEF MarkRetry
  <2>2. BoxLetters' = BoxLetters
    BY <2>1, LettersKept
  <2>3. Box!Return(id)
    BY <1>3, <1>6, <2>2 DEF Box!Return, BoxLetters, BoxCopies
  <2>4. QED
    BY <1>1, <2>3 DEF Box!Next, BoxLetters, BoxCopies
<1>7. CASE ApplyPermanent(id)
  BY <1>5, <1>7 DEF ApplyPermanent
<1>8. CASE ApplyRetryable(id)
  <2>1. Applied(id) /\ (queue' = MarkDead(queue, id) \/ \E wait : queue' = MarkRetry(queue, id, wait))
    BY <1>8 DEF ApplyRetryable
  <2>2. QED
    BY <1>5, <1>6, <2>1
<1>9. QED
  BY <1>2, <1>4, <1>7, <1>8 DEF Deliver

\* A sweep takes copies of rows that are pending.
LEMMA BoxClaim ==
    ASSUME Claim
    PROVE  Box!Next
<1> DEFINE ids == ClaimDue(queue, RatePerMin)
<1>1. /\ claimed = NoClaims /\ UNCHANGED <<queue, lastId, received>>
      /\ DOMAIN claimed' = ids /\ \A id \in ids : claimed'[id].row = queue[id]
  BY DEF Claim
<1>2. ids \subseteq DOMAIN queue /\ \A id \in ids : queue[id].status = "pending"
  BY ClaimDuePending
<1> HIDE DEF ids
<1>3. BoxCopies = Box!Nothing /\ BoxLetters' = BoxLetters
  BY <1>1 DEF BoxCopies, BoxLetters, NoClaims, Box!Nothing
<1>4. \A id \in ids : ~BoxLetters[id].dead
  BY <1>2, LetterIs DEF BoxLetters
<1>5. BoxCopies' = [id \in ids |-> [match |-> BoxLetters[id].match, ver |-> BoxLetters[id].ver]]
  BY <1>1, <1>2, LetterIs DEF BoxCopies, BoxLetters, BodyOf
<1>6. Box!Leave(ids)
  BY <1>1, <1>3, <1>4, <1>5 DEF Box!Leave, BoxCopies, BoxLetters
<1>7. QED
  BY <1>2, <1>6 DEF Box!Next, BoxLetters

\* A replay revives the dead rows of its matches.
LEMMA BoxReplay ==
    ASSUME BoxInv, NEW ms \in SUBSET Matches, Replay(ms)
    PROVE  Box!Next
<1> DEFINE ids == {id \in DOMAIN queue : queue[id].status = "dead" /\ queue[id].match \in ms}
<1>1. queue' = RetryDeadLetters(queue, ms) /\ UNCHANGED <<lastId, claimed, received>>
  BY DEF Replay, sweepVars
<1>2. /\ DOMAIN queue' = DOMAIN queue
      /\ \A id \in DOMAIN queue :
           queue'[id] = IF id \in ids THEN PushRow(queue[id].match, queue[id].ver, 0, 0, "pending")
                        ELSE queue[id]
  BY <1>1 DEF RetryDeadLetters
<1>3. \A id \in ids : LetterOf(queue'[id]) = [LetterOf(queue[id]) EXCEPT !.dead = FALSE]
  <2>1. SUFFICES ASSUME NEW id \in ids
                 PROVE  LetterOf(queue'[id]) = [LetterOf(queue[id]) EXCEPT !.dead = FALSE]
    OBVIOUS
  <2>2. queue'[id] = PushRow(queue[id].match, queue[id].ver, 0, 0, "pending")
    BY <1>2
  <2>3. LetterOf(PushRow(queue[id].match, queue[id].ver, 0, 0, "pending"))
          = [match |-> queue[id].match, ver |-> queue[id].ver, dead |-> FALSE]
    BY DEF PushRow, LetterOf
  <2>4. QED
    BY <2>2, <2>3, LetterExcept
<1>4. \A id \in ids : BoxLetters[id].dead
  BY LetterIs DEF BoxLetters
<1>5. ids \subseteq DOMAIN queue
  OBVIOUS
<1> HIDE DEF ids
<1>6. BoxLetters' = [id \in DOMAIN BoxLetters |->
                       IF id \in ids THEN [BoxLetters[id] EXCEPT !.dead = FALSE] ELSE BoxLetters[id]]
  BY <1>2, <1>3, <1>5 DEF BoxLetters
<1>7. BoxCopies' = BoxCopies
  BY <1>1 DEF BoxCopies
<1>8. Box!Revive(ids)
  BY <1>1, <1>4, <1>6, <1>7 DEF Box!Revive, BoxLetters, BoxCopies
<1>9. QED
  BY <1>5, <1>8 DEF Box!Next, BoxLetters

LEMMA BoxStep == BoxInv /\ [Next]_vars => Box!Next \/ UNCHANGED Box!vars
<1> SUFFICES ASSUME BoxInv, [Next]_vars PROVE Box!Next \/ UNCHANGED Box!vars
  OBVIOUS
<1>1. ASSUME UNCHANGED <<queue, lastId, claimed, received>> PROVE UNCHANGED Box!vars
  BY <1>1 DEF Box!vars
<1>2. CASE \E r \in Runs : Enqueue(r)
  <2>1. PICK r \in Runs : Enqueue(r)
    BY <1>2
  <2>2. CASE (\E m \in Matches : Build(r, m)) \/ Abandon(r) \/ SelectPending(r)
    BY <1>1, <2>2 DEF Build, Abandon, SelectPending, sweepVars
  <2>3. QED
    BY <2>1, <2>2, BoxWrite DEF Enqueue
<1>3. CASE \E id \in DOMAIN claimed : Deliver(id)
  BY <1>3, BoxDeliver
<1>4. CASE Claim
  BY <1>4, BoxClaim
<1>5. CASE Kill
  <2>1. UNCHANGED <<queue, lastId, received>> /\ claimed' = NoClaims
    BY <1>5 DEF Kill
  <2>2. BoxLetters' = BoxLetters /\ BoxCopies' = Box!Nothing
    BY <2>1 DEF BoxLetters, BoxCopies, NoClaims, Box!Nothing
  <2>3. Box!Lost
    BY <2>1, <2>2 DEF Box!Lost, BoxLetters, BoxCopies
  <2>4. QED
    BY <2>3 DEF Box!Next
<1>6. CASE \E ms \in SUBSET Matches : Replay(ms)
  BY <1>6, BoxReplay
<1>7. CASE Tick
  <2>1. IsTable(queue, lastId) /\ lastId \in Nat
    BY DEF BoxInv, TypeOK
  <2>2. /\ DOMAIN queue' = DOMAIN queue
        /\ \A i \in DOMAIN queue : /\ queue'[i].match = queue[i].match
                                   /\ queue'[i].ver = queue[i].ver
                                   /\ queue'[i].status = queue[i].status
        /\ UNCHANGED <<lastId, claimed, received>>
    BY <1>7, <2>1, ElapseFacts DEF Tick
  <2>3. BoxLetters' = BoxLetters /\ BoxCopies' = BoxCopies
    BY <2>2, LettersKept DEF BoxCopies
  <2>4. QED
    BY <2>2, <2>3 DEF Box!vars, BoxLetters, BoxCopies
<1>8. CASE UNCHANGED vars
  BY <1>1, <1>8 DEF vars
<1>9. QED
  BY <1>2, <1>3, <1>4, <1>5, <1>6, <1>7, <1>8 DEF Next

\* The wire is a postbox, for any number of runs, matches, bodies, kills and replays, any
\* retry schedule, rate and timeout: a row is deleted only when the receiver has the body that
\* was claimed from it, is given up only by the sweep that claimed it, and comes back only
\* by a replay.
THEOREM WireIsAPostbox == Spec => ImplementsPostbox
<1>1. Init => BoxInv /\ Box!Init
  <2>1. SUFFICES ASSUME Init PROVE BoxInv /\ Box!Init
    OBVIOUS
  <2>2. BoxLetters = Box!Nothing /\ BoxCopies = Box!Nothing
    BY <2>1 DEF Init, EmptyTable, NoClaims, BoxLetters, BoxCopies, Box!Nothing
  <2>3. Box!Init
    BY <2>1, <2>2 DEF Init, Box!Init, BoxLetters, BoxCopies
  <2>4. QED
    BY <2>1, <2>3, TypeInit, AttemptInit, LossInit DEF BoxInv
<1>2. BoxInv /\ [Next]_vars => BoxInv'
  BY TypeStep, AttemptStep, LossStep DEF BoxInv
<1>3. BoxInv /\ [Next]_vars => [Box!Next]_(Box!vars)
  BY BoxStep
<1>4. QED
  BY <1>1, <1>2, <1>3, PTL DEF Spec, ImplementsPostbox, Box!Spec

-----------------------------------------------------------------------------
(* The live feed                                                             *)

\* Where a socket may be: the set of clients holds those that are in, the broadcast and
\* its casualties no socket that is yet to come.
SocketsInv ==
    \A c \in Browsers :
        /\ conn[c] \in {"out", "knocking"} => c \notin live
        /\ conn[c] = "in" => c \in live
        /\ conn[c] = "knocking" => c \notin sending
        /\ conn[c] \in {"knocking", "in"} => c \notin dead

\* The half of the board the cycle has assigned, and what the browsers have of it.
FeedInv ==
    /\ Feed!TypeOK
    /\ SocketsInv
    /\ sched.pc \in {"save", "day", "hour", "send"} => board.markets = "new"
    /\ sched.pc = "send" =>
         /\ board.stats = "new"
         /\ \A c \in Browsers : conn[c] = "in" => heard[c] = board \/ c \in sending
    /\ ClientsAreCurrent

LEMMA FeedInit == Feed!Init => FeedInv
<1> SUFFICES ASSUME Feed!Init PROVE FeedInv
  OBVIOUS
<1>1. 0 \in 0 .. Every - 1
  BY DeliveryAssumption DEF Feed!MarketAssumption
<1>2. Feed!TypeOK
  BY <1>1 DEF Feed!Init, Feed!TypeOK, Feed!Board, Feed!Age, Feed!Blank
<1>3. QED
  BY <1>2 DEF Feed!Init, FeedInv, SocketsInv, ClientsAreCurrent, Feed!ClientsAreCurrent

LEMMA FeedStep == FeedInv /\ Feed!Next => FeedInv'
<1> SUFFICES ASSUME FeedInv, Feed!Next PROVE FeedInv'
  OBVIOUS
<1> DEFINE Stage == {"fetch", "save", "day", "hour", "send", "sleep"}
<1>0. /\ sched \in [pc : Stage, tick : 0 .. Every - 1, done : BOOLEAN]
      /\ board \in Feed!Board /\ held \in [all : BOOLEAN, prev : BOOLEAN]
      /\ live \subseteq Browsers /\ conn \in [Browsers -> {"out", "knocking", "in", "gone"}]
      /\ heard \in [Browsers -> Feed!Board] /\ sending \subseteq Browsers /\ dead \subseteq Browsers
  BY DEF FeedInv, Feed!TypeOK
<1>a. \A done \in BOOLEAN :
        /\ Feed!Ended(done) \in [pc : Stage, tick : 0 .. Every - 1, done : BOOLEAN]
        /\ Feed!Ended(done).pc = "sleep" /\ Feed!Ended(done).done = done
  <2>1. sched.tick \in 0 .. Every - 1 /\ Every \in Nat \ {0}
    BY <1>0, DeliveryAssumption DEF Feed!MarketAssumption
  <2>2. (sched.tick + 1) % Every \in 0 .. Every - 1
    BY <2>1
  <2>3. QED
    BY <2>2 DEF Feed!Ended
<1>b. /\ \A b \in Feed!Board : Feed!Aged(b) \in Feed!Board
      /\ Feed!Blank \in Feed!Board
  BY DEF Feed!Aged, Feed!Older, Feed!Board, Feed!Age, Feed!Blank
\* The board and the messages it changes to, where the scheduler alone moves.
<1>1. ASSUME NEW full \in BOOLEAN, Feed!Process(full) PROVE FeedInv'
  <2> DEFINE moved == IF held.prev THEN [Feed!Aged(board) EXCEPT !.h24 = "tick", !.h1 = "tick"]
                      ELSE Feed!Aged(board)
             first == [moved EXCEPT !.markets = "new"]
  <2>1. first \in Feed!Board /\ first.markets = "new"
    BY <1>0, <1>b DEF Feed!Board, Feed!Age
  <2>2. heard' \in [Browsers -> Feed!Board] /\ UNCHANGED <<live, conn>> /\ sched.pc = "fetch"
    BY <1>0, <1>1, <1>b DEF Feed!Process
  <2>3. CASE Feed!Persists(sched.tick)
    <3>1. /\ sched' = [sched EXCEPT !.pc = "save"] /\ board' = first
          /\ held' = [held EXCEPT !.all = full] /\ UNCHANGED <<sending, dead>>
      BY <1>1, <2>3 DEF Feed!Process
    <3> HIDE DEF first, moved
    <3>2. sched'.pc = "save" /\ sched' \in [pc : Stage, tick : 0 .. Every - 1, done : BOOLEAN]
          /\ held' \in [all : BOOLEAN, prev : BOOLEAN]
      BY <1>0, <3>1
    <3>3. Feed!TypeOK'
      BY <1>0, <2>1, <2>2, <3>1, <3>2 DEF Feed!TypeOK
    <3>4. QED
      BY <2>1, <2>2, <3>1, <3>2, <3>3
      DEF FeedInv, SocketsInv, ClientsAreCurrent, Feed!ClientsAreCurrent
  <2>4. CASE ~Feed!Persists(sched.tick)
    <3>1. /\ sched' = [sched EXCEPT !.pc = "send"]
          /\ held' = [all |-> full, prev |-> full] /\ Feed!Publish(first)
      BY <1>1, <2>4 DEF Feed!Process
    <3> HIDE DEF first, moved
    <3>2. sched'.pc = "send" /\ sched' \in [pc : Stage, tick : 0 .. Every - 1, done : BOOLEAN]
          /\ held' \in [all : BOOLEAN, prev : BOOLEAN]
      BY <1>0, <3>1
    <3>3. /\ board' \in Feed!Board /\ board'.markets = "new" /\ board'.stats = "new"
          /\ sending' = live /\ dead' = {}
      BY <2>1, <3>1 DEF Feed!Publish, Feed!Board, Feed!Age
    <3>4. Feed!TypeOK'
      BY <1>0, <2>2, <3>2, <3>3 DEF Feed!TypeOK
    <3>5. QED
      BY <2>2, <3>2, <3>3, <3>4
      DEF FeedInv, SocketsInv, ClientsAreCurrent, Feed!ClientsAreCurrent
  <2>5. QED
    BY <2>3, <2>4
<1>2. ASSUME NEW ok \in BOOLEAN, Feed!Save(ok) PROVE FeedInv'
  <2>1. /\ UNCHANGED <<board, held, live, conn, heard, sending, dead>> /\ sched.pc = "save"
        /\ \/ sched' = [sched EXCEPT !.pc = "day"]
           \/ sched' = Feed!Ended(FALSE)
    BY <1>2 DEF Feed!Save
  <2>2. /\ sched' \in [pc : Stage, tick : 0 .. Every - 1, done : BOOLEAN]
        /\ sched'.pc = "day" \/ (sched'.pc = "sleep" /\ sched'.done = FALSE)
    BY <1>0, <1>a, <2>1
  <2>3. Feed!TypeOK'
    BY <1>0, <2>1, <2>2 DEF Feed!TypeOK
  <2>4. QED
    BY <2>1, <2>2, <2>3 DEF FeedInv, SocketsInv, ClientsAreCurrent, Feed!ClientsAreCurrent
<1>3. ASSUME NEW some \in BOOLEAN, Feed!DayMovers(some) PROVE FeedInv'
  <2>1. /\ UNCHANGED <<held, live, conn, heard, sending, dead>> /\ sched.pc = "day"
        /\ sched' = [sched EXCEPT !.pc = "hour"]
        /\ board' = IF some THEN [board EXCEPT !.h24 = "window"] ELSE board
    BY <1>3 DEF Feed!DayMovers
  <2>2. /\ sched' \in [pc : Stage, tick : 0 .. Every - 1, done : BOOLEAN] /\ sched'.pc = "hour"
        /\ board' \in Feed!Board /\ board'.markets = board.markets
    BY <1>0, <2>1 DEF Feed!Board
  <2>3. Feed!TypeOK'
    BY <1>0, <2>1, <2>2 DEF Feed!TypeOK
  <2>4. QED
    BY <2>1, <2>2, <2>3 DEF FeedInv, SocketsInv, ClientsAreCurrent, Feed!ClientsAreCurrent
<1>4. ASSUME NEW some \in BOOLEAN, Feed!HourMovers(some) PROVE FeedInv'
  <2> DEFINE b == IF some THEN [board EXCEPT !.h1 = "window"] ELSE board
  <2>1. /\ UNCHANGED <<live, conn, heard>> /\ sched.pc = "hour"
        /\ sched' = [sched EXCEPT !.pc = "send"] /\ Feed!Publish(b)
        /\ held' = [held EXCEPT !.prev = held.all]
    BY <1>4 DEF Feed!HourMovers
  <2>2. b \in Feed!Board /\ b.markets = board.markets
    BY <1>0 DEF Feed!Board
  <2> HIDE DEF b
  <2>3. /\ sched' \in [pc : Stage, tick : 0 .. Every - 1, done : BOOLEAN] /\ sched'.pc = "send"
        /\ board' \in Feed!Board /\ board'.markets = board.markets /\ board'.stats = "new"
        /\ sending' = live /\ dead' = {} /\ held' \in [all : BOOLEAN, prev : BOOLEAN]
    BY <1>0, <2>1, <2>2 DEF Feed!Publish, Feed!Board, Feed!Age
  <2>4. Feed!TypeOK'
    BY <1>0, <2>1, <2>3 DEF Feed!TypeOK
  <2>5. QED
    BY <2>1, <2>3, <2>4 DEF FeedInv, SocketsInv, ClientsAreCurrent, Feed!ClientsAreCurrent
<1>5. ASSUME NEW c \in Browsers, Feed!Send(c) PROVE FeedInv'
  <2>1. /\ UNCHANGED <<sched, board, held, live, conn>> /\ sched.pc = "send"
        /\ sending' = sending \ {c} /\ dead' \subseteq dead \cup {c}
        /\ conn[c] = "in" => heard' = [heard EXCEPT ![c] = board] /\ dead' = dead
        /\ conn[c] # "in" => heard' = heard
        /\ c \in sending
    BY <1>5 DEF Feed!Send
  <2>2. heard' \in [Browsers -> Feed!Board] /\ dead' \subseteq Browsers
    BY <1>0, <2>1
  <2>3. \A k \in Browsers : conn[k] = "in" => heard'[k] = board \/ k \in sending'
    BY <1>0, <2>1 DEF FeedInv
  <2>4. Feed!TypeOK'
    BY <1>0, <2>1, <2>2 DEF Feed!TypeOK
  <2>5. SocketsInv'
    BY <2>1 DEF FeedInv, SocketsInv
  <2>6. QED
    BY <2>1, <2>3, <2>4, <2>5 DEF FeedInv, ClientsAreCurrent, Feed!ClientsAreCurrent
<1>6. CASE Feed!Sent
  <2>1. /\ sched.pc = "send" /\ sending = {} /\ live' = live \ dead /\ dead' = {}
        /\ sched' = Feed!Ended(TRUE) /\ UNCHANGED <<board, held, conn, heard, sending>>
    BY <1>6 DEF Feed!Sent
  <2>2. sched' \in [pc : Stage, tick : 0 .. Every - 1, done : BOOLEAN] /\ sched'.pc = "sleep"
    BY <1>a, <2>1
  <2>3. Feed!TypeOK'
    BY <1>0, <2>1, <2>2 DEF Feed!TypeOK
  <2>4. SocketsInv'
    BY <2>1 DEF FeedInv, SocketsInv
  <2>5. QED
    BY <2>1, <2>2, <2>3, <2>4
    DEF FeedInv, SocketsInv, ClientsAreCurrent, Feed!ClientsAreCurrent
<1>7. CASE Feed!Wake
  <2>1. /\ sched' = [sched EXCEPT !.pc = "fetch"]
        /\ UNCHANGED <<board, held, live, conn, heard, sending, dead>>
    BY <1>7 DEF Feed!Wake
  <2>2. sched' \in [pc : Stage, tick : 0 .. Every - 1, done : BOOLEAN] /\ sched'.pc = "fetch"
    BY <1>0, <2>1
  <2>3. Feed!TypeOK'
    BY <1>0, <2>1, <2>2 DEF Feed!TypeOK
  <2>4. QED
    BY <2>1, <2>2, <2>3 DEF FeedInv, SocketsInv, ClientsAreCurrent, Feed!ClientsAreCurrent
<1>8. ASSUME NEW c \in Browsers, Feed!Knock(c) \/ Feed!Leave(c) \/ Feed!Notice(c)
      PROVE  FeedInv'
  <2>1. /\ UNCHANGED <<sched, board, held, sending, dead>>
        /\ \A k \in Browsers : k # c => conn'[k] = conn[k] /\ heard'[k] = heard[k]
        /\ conn'[c] # "in" /\ live' \subseteq live /\ live \subseteq live' \cup {c}
        /\ conn'[c] \in {"out", "knocking", "gone"}
        /\ conn'[c] = "knocking" => c \notin live /\ c \notin sending /\ c \notin dead
        /\ conn'[c] = "out" => c \notin live'
    BY <1>0, <1>8 DEF Feed!Knock, Feed!Leave, Feed!Notice, FeedInv, SocketsInv
  <2>2. /\ conn' \in [Browsers -> {"out", "knocking", "in", "gone"}]
        /\ heard' \in [Browsers -> Feed!Board] /\ live' \subseteq Browsers
    BY <1>0, <1>8, <1>b DEF Feed!Knock, Feed!Leave, Feed!Notice
  <2>3. Feed!TypeOK'
    BY <1>0, <2>1, <2>2 DEF Feed!TypeOK
  <2>4. SocketsInv'
    BY <2>1 DEF FeedInv, SocketsInv
  <2>5. QED
    BY <2>1, <2>3, <2>4 DEF FeedInv, ClientsAreCurrent, Feed!ClientsAreCurrent
<1>9. ASSUME NEW c \in Browsers, Feed!Accept(c) PROVE FeedInv'
  <2>1. /\ UNCHANGED <<sched, board, held, sending, dead>> /\ conn[c] = "knocking"
        /\ conn' = [conn EXCEPT ![c] = "in"] /\ live' = live \cup {c}
        /\ heard' = [heard EXCEPT ![c] = Feed!Greeting]
    BY <1>9 DEF Feed!Accept
  <2>2. Feed!Greeting \in Feed!Board /\ (board.stats = "new" => Feed!Greeting = board)
    BY <1>0, <1>b DEF Feed!Greeting
  <2>3. /\ conn' \in [Browsers -> {"out", "knocking", "in", "gone"}]
        /\ heard' \in [Browsers -> Feed!Board] /\ live' \subseteq Browsers
        /\ \A k \in Browsers : conn'[k] = IF k = c THEN "in" ELSE conn[k]
        /\ \A k \in Browsers : heard'[k] = IF k = c THEN Feed!Greeting ELSE heard[k]
    BY <1>0, <2>1, <2>2
  <2>4. Feed!TypeOK'
    BY <1>0, <2>1, <2>3 DEF Feed!TypeOK
  <2>5. SocketsInv'
    BY <2>1, <2>3 DEF FeedInv, SocketsInv
  <2>6. QED
    BY <2>1, <2>2, <2>3, <2>4, <2>5 DEF FeedInv, ClientsAreCurrent, Feed!ClientsAreCurrent
<1>10. QED
  BY <1>1, <1>2, <1>3, <1>4, <1>5, <1>6, <1>7, <1>8, <1>9 DEF Feed!Next, Feed!Cycle

\* Whenever the scheduler sleeps after a cycle that got to its end, the board is of that
\* cycle in both halves and the last thing every connected browser was sent, for every
\* number of browsers, period of the snapshots and failure of the store.
THEOREM ClientsAreCurrentAlways == DeliverySpec => []ClientsAreCurrent
<1>1. DeliveryInit => FeedInv
  BY FeedInit DEF DeliveryInit
<1>2. FeedInv /\ [DeliveryNext]_<<vars, feedVars, arbVars, part>> => FeedInv'
  <2>1. FeedInv /\ UNCHANGED feedVars => FeedInv'
    BY DEF feedVars, FeedInv, Feed!TypeOK, SocketsInv, ClientsAreCurrent, Feed!ClientsAreCurrent
  <2>2. QED
    BY <2>1, FeedStep DEF DeliveryNext
<1>3. FeedInv => ClientsAreCurrent
  BY DEF FeedInv
<1>4. QED
  BY <1>1, <1>2, <1>3, PTL DEF DeliverySpec

-----------------------------------------------------------------------------
(* The pairs of a cycle of the market scheduler (Arbitrage).                 *)

Below == {ss \in Nat \X Nat : ss[1] < ss[2]}

\* A set of naturals that has 0, and with n what follows it up to last, has all up to last.
LEMMA UpTo ==
    ASSUME NEW last \in Nat, NEW S, 0 \in S,
           \A n \in 0 .. last : n # last /\ n \in S => n + 1 \in S
    PROVE  0 .. last \subseteq S
<1> DEFINE Rest == {n \in 0 .. last : n \notin S}
<1>1. SUFFICES ASSUME Rest # {} PROVE FALSE
  OBVIOUS
<1>2. IsWellFoundedOn(Below, Nat)
  BY NatLessThanWellFounded DEF OpToRel, Below
<1>3. Rest \subseteq Nat
  OBVIOUS
<1>4. PICK n \in Rest : \A k \in Rest : ~(<<k, n>> \in Below)
  <2> HIDE DEF Rest
  <2> QED
    BY <1>1, <1>2, <1>3, WFMin, Zenon
<1>5. n \in 1 .. last /\ n \notin S
  OBVIOUS
<1>6. n - 1 \notin S
  <2> HIDE DEF Rest
  <2>1. n - 1 \in 0 .. last /\ n - 1 # last /\ (n - 1) + 1 = n
    BY <1>5
  <2>2. QED
    BY <1>5, <2>1
<1>7. n - 1 \in Rest /\ n - 1 < n /\ n \in Nat /\ n - 1 \in Nat
  BY <1>5, <1>6
<1>8. QED
  BY <1>4, <1>7 DEF Below

\* The markets of each platform.
Kal == Arb!Ks
Pol == Arb!Ps

\* What is assumed of the two lists, market by market.
LEMMA Listing ==
    /\ KalshiMarkets \in Seq(Kal) /\ PolyMarkets \in Seq(Pol)
    /\ Len(KalshiMarkets) \in Nat /\ Len(PolyMarkets) \in Nat
    /\ \A i \in 1 .. Len(KalshiMarkets) : KalshiMarkets[i] \in Kal
    /\ \A p \in Pol : \E i \in 1 .. Len(PolyMarkets) : PolyMarkets[i] = p
    /\ \A i \in 1 .. Len(PolyMarkets) : PolyMarkets[i] \in Pol /\ Arb!Index(PolyMarkets[i]) = i
    /\ Alike \in [Kal \X Pol -> Nat] /\ AlikeEnough \in Nat
<1>1. /\ KalshiMarkets \in Seq(Kal) /\ PolyMarkets \in Seq(Pol)
      /\ Alike \in [Kal \X Pol -> Nat] /\ AlikeEnough \in Nat
  BY DeliveryAssumption DEF Arb!ArbitrageAssumption, Kal, Pol
<1>2. Pol = {PolyMarkets[i] : i \in DOMAIN PolyMarkets}
  BY DEF Pol, Arb!Ps, Arb!Range
<1>3. DOMAIN PolyMarkets = 1 .. Len(PolyMarkets)
  BY <1>1
<1>4. \A i, j \in 1 .. Len(PolyMarkets) : PolyMarkets[i] = PolyMarkets[j] => i = j
  BY <1>3, DeliveryAssumption DEF Arb!ArbitrageAssumption, Arb!IsInjective
<1>5. \A i \in 1 .. Len(PolyMarkets) : Arb!Index(PolyMarkets[i]) = i
  BY <1>3, <1>4 DEF Arb!Index
<1>6. QED
  BY <1>1, <1>2, <1>3, <1>5

\* The turns are the function their definition says: one of every length there is.
LEMMA TurnsAre ==
    Arb!Turns = [n \in 0 .. Len(KalshiMarkets) |->
                    IF n = 0 THEN {} ELSE Arb!Served(Arb!Turns[n - 1], KalshiMarkets[n])]
<1> DEFINE last == Len(KalshiMarkets)
           Is(g, m) == g = [n \in 0 .. m |->
                              IF n = 0 THEN {} ELSE Arb!Served(g[n - 1], KalshiMarkets[n])]
           S == {m \in 0 .. last : \E g : Is(g, m)}
<1>1. last \in Nat
  BY Listing
<1>2. 0 \in S
  <2> DEFINE g == [n \in 0 .. 0 |-> {}]
  <2>1. Is(g, 0)
    OBVIOUS
  <2>2. 0 \in 0 .. last
    BY <1>1
  <2> HIDE DEF g, Is
  <2>3. QED
    BY <2>1, <2>2
<1>3. ASSUME NEW m \in 0 .. last, m # last, m \in S PROVE m + 1 \in S
  <2>1. PICK g : Is(g, m)
    BY <1>3
  <2> DEFINE h == [n \in 0 .. m + 1 |->
                     IF n = m + 1 THEN Arb!Served(g[m], KalshiMarkets[m + 1]) ELSE g[n]]
  <2>2. \A n \in 0 .. m : h[n] = g[n]
    BY <1>1
  <2>3. \A n \in 0 .. m + 1 :
          h[n] = IF n = 0 THEN {} ELSE Arb!Served(h[n - 1], KalshiMarkets[n])
    <3> TAKE n \in 0 .. m + 1
    <3>1. CASE n = m + 1
      BY <3>1, <2>2, <1>1
    <3>2. CASE n # m + 1
      <4>1. n \in 0 .. m /\ h[n] = g[n] /\ (n # 0 => h[n - 1] = g[n - 1])
        BY <3>2, <2>2, <1>1
      <4>2. g[n] = IF n = 0 THEN {} ELSE Arb!Served(g[n - 1], KalshiMarkets[n])
        BY <4>1, <2>1
      <4>3. QED
        BY <4>1, <4>2
    <3>3. QED
      BY <3>1, <3>2
  <2>4. Is(h, m + 1)
    <3> DEFINE e(n) == IF n = 0 THEN {} ELSE Arb!Served(h[n - 1], KalshiMarkets[n])
    <3>1. h = [n \in 0 .. m + 1 |-> h[n]]
      OBVIOUS
    <3>2. \A n \in 0 .. m + 1 : h[n] = e(n)
      BY <2>3
    <3> HIDE DEF h, e
    <3>3. [n \in 0 .. m + 1 |-> h[n]] = [n \in 0 .. m + 1 |-> e(n)]
      BY <3>2
    <3>4. QED
      BY <3>1, <3>3 DEF e
  <2>5. m + 1 \in 0 .. last
    BY <1>1, <1>3
  <2> HIDE DEF h, Is
  <2>6. QED
    BY <2>4, <2>5
<1>4. last \in S
  <2> HIDE DEF S, last
  <2> QED
    BY <1>1, <1>2, <1>3, UpTo
<1>5. \E g : Is(g, last)
  BY <1>4
<1>6. QED
  BY <1>5 DEF Arb!Turns

\* The best of some markets is one of them.
LEMMA BestIsThere ==
    ASSUME NEW k \in Kal, NEW left \in SUBSET Pol, left # {}
    PROVE  Arb!Best(k, left) \in left
<1> DEFINE last == Len(PolyMarkets)
           at(i) == PolyMarkets[i]
           Better(p, q) == \/ Alike[<<k, p>>] > Alike[<<k, q>>]
                           \/ Alike[<<k, p>>] = Alike[<<k, q>>] /\ Arb!Index(p) <= Arb!Index(q)
           Tops(i, m) == at(i) \in left /\ \A j \in 1 .. m : at(j) \in left => Better(at(i), at(j))
           S == {m \in 0 .. last : \/ \A j \in 1 .. m : at(j) \notin left
                                  \/ \E i \in 1 .. m : Tops(i, m)}
<1>1. /\ last \in Nat
      /\ \A i \in 1 .. last : /\ at(i) \in Pol /\ Arb!Index(at(i)) = i /\ Alike[<<k, at(i)>>] \in Nat
      /\ \A p \in Pol : \E i \in 1 .. last : at(i) = p
  BY Listing
<1>2. 0 \in S
  BY <1>1
<1>3. ASSUME NEW m \in 0 .. last, m # last, m \in S PROVE m + 1 \in S
  <2> HIDE DEF last, at
  <2>1. m + 1 \in 1 .. last /\ m \in Nat
    BY <1>1, <1>3
  <2>a. m + 1 \in 0 .. last /\ m + 1 \in 1 .. m + 1 /\ 1 .. m \subseteq 1 .. m + 1
        /\ 1 .. m \subseteq 1 .. last
    BY <1>1, <2>1
  <2>b. (\E i \in 1 .. m + 1 : Tops(i, m + 1)) => m + 1 \in S
    <3> HIDE DEF Tops
    <3> QED
      BY <2>a
  <2>2. CASE at(m + 1) \notin left
    <3>1. \A j \in 1 .. m + 1 : at(j) \in left => j \in 1 .. m
      BY <2>1, <2>2
    <3>2. QED
      BY <1>3, <2>1, <3>1 DEF Tops
  <2>3. CASE at(m + 1) \in left /\ \A j \in 1 .. m : at(j) \notin left
    <3>1. \A j \in 1 .. m + 1 : at(j) \in left => j = m + 1
      BY <2>1, <2>3
    <3>2. Tops(m + 1, m + 1)
      BY <1>1, <2>1, <2>3, <3>1
    <3>3. QED
      BY <2>a, <2>b, <3>2
  <2>4. CASE at(m + 1) \in left /\ \E i \in 1 .. m : Tops(i, m)
    <3>1. PICK i \in 1 .. m : Tops(i, m)
      BY <2>4
    <3>2. CASE Better(at(i), at(m + 1))
      <4>1. Tops(i, m + 1)
        BY <2>1, <3>1, <3>2
      <4>2. QED
        BY <2>a, <2>b, <4>1
    <3>3. CASE ~Better(at(i), at(m + 1))
      <4>1. i \in 1 .. last /\ i < m + 1
        <5> HIDE DEF Tops, Better
        <5> QED
          BY <2>1, <2>a
      <4>2. Alike[<<k, at(i)>>] < Alike[<<k, at(m + 1)>>]
        BY <1>1, <2>1, <3>3, <4>1
      <4>3. ASSUME NEW j \in 1 .. m + 1, at(j) \in left PROVE Better(at(m + 1), at(j))
        <5>1. CASE j = m + 1
          BY <1>1, <2>1, <5>1
        <5>2. CASE j # m + 1
          <6>a. j \in 1 .. m /\ j \in 1 .. last
            <7> HIDE DEF Tops, Better
            <7> QED
              BY <2>1, <2>a, <5>2
          <6>1. j \in 1 .. m /\ j \in 1 .. last /\ Better(at(i), at(j))
            <7> HIDE DEF Better
            <7> QED
              BY <3>1, <4>3, <6>a
          <6>2. QED
            BY <1>1, <2>1, <4>1, <4>2, <6>1
        <5>3. QED
          BY <5>1, <5>2
      <4>4. Tops(m + 1, m + 1)
        BY <2>4, <4>3
      <4>5. QED
        BY <2>a, <2>b, <4>4
    <3>4. QED
      BY <3>2, <3>3
  <2>5. QED
    <3> HIDE DEF Tops
    <3> QED
      BY <1>3, <2>2, <2>3, <2>4
<1>4. last \in S
  <2> HIDE DEF S, last
  <2> QED
    BY <1>1, <1>2, <1>3, UpTo
<1>5. \E i \in 1 .. last : Tops(i, last)
  <2> HIDE DEF last, Tops, at
  <2> QED
    BY <1>1, <1>4 DEF at
<1>6. \E p \in left : \A q \in left : Better(p, q)
  <2>1. PICK i \in 1 .. last : Tops(i, last)
    BY <1>5
  <2>2. ASSUME NEW q \in left PROVE Better(at(i), q)
    <3>1. PICK j \in 1 .. last : at(j) = q
      BY <1>1
    <3> HIDE DEF Better, last, at
    <3>2. QED
      BY <2>1, <3>1
  <2> HIDE DEF Better
  <2>3. QED
    BY <2>1, <2>2
<1>7. QED
  BY <1>6 DEF Arb!Best

\* After every turn the pairs are of listed markets, and no market of Polymarket is in two.
Paired(pairs) ==
    /\ pairs \subseteq Kal \X Pol
    /\ \A a, b \in pairs : a[2] = b[2] => a = b

LEMMA ServedPairs ==
    ASSUME NEW pairs, Paired(pairs), NEW k \in Kal
    PROVE  Paired(Arb!Served(pairs, k))
<1> DEFINE left == Arb!Candidates(pairs, k)
           best == Arb!Best(k, left)
<1>1. CASE left = {}
  BY <1>1 DEF Arb!Served
<1>2. CASE left # {}
  <2>1. left \subseteq Pol /\ \A p \in left : \A a \in pairs : a[2] # p
    BY DEF Arb!Candidates, Arb!Taken, Pol
  <2>2. best \in left
    <3> HIDE DEF left
    <3> QED
      BY <1>2, <2>1, BestIsThere
  <2>3. Arb!Served(pairs, k) = pairs \cup {<<k, best>>}
    BY <1>2 DEF Arb!Served
  <2> HIDE DEF left, best
  <2>4. QED
    BY <2>1, <2>2, <2>3 DEF Paired
<1>3. QED
  BY <1>1, <1>2

LEMMA MatchedPairs == Paired(Arb!Matched)
<1> DEFINE last == Len(KalshiMarkets)
           S == {n \in 0 .. last : Paired(Arb!Turns[n])}
<1>1. last \in Nat
  BY Listing
<1>2. \A n \in 0 .. last :
        Arb!Turns[n] = IF n = 0 THEN {} ELSE Arb!Served(Arb!Turns[n - 1], KalshiMarkets[n])
  BY TurnsAre
<1>3. 0 \in S
  BY <1>1, <1>2 DEF Paired
<1>4. ASSUME NEW n \in 0 .. last, n # last, n \in S PROVE n + 1 \in S
  <2>1. n + 1 \in 0 .. last /\ n + 1 # 0 /\ (n + 1) - 1 = n /\ n + 1 \in 1 .. last
    BY <1>1, <1>4
  <2>2. Arb!Turns[n + 1] = Arb!Served(Arb!Turns[n], KalshiMarkets[n + 1])
    BY <1>2, <2>1
  <2>3. KalshiMarkets[n + 1] \in Kal
    BY <2>1, Listing
  <2>4. Paired(Arb!Turns[n + 1])
    BY <1>4, <2>2, <2>3, ServedPairs
  <2>5. QED
    BY <2>1, <2>4
<1>5. last \in S
  <2> HIDE DEF S, last
  <2> QED
    BY <1>1, <1>3, <1>4, UpTo
<1>6. QED
  BY <1>5 DEF Arb!Matched

-----------------------------------------------------------------------------
(* What is reported of the pairs.                                            *)

LEMMA QuotientBelow ==
    ASSUME NEW n \in Nat, NEW d \in Nat \ {0}
    PROVE  n \div d \in 0 .. n
<1>1. n \div d \in Nat /\ d * (n \div d) <= n
  BY Z3
<1>2. ASSUME NEW q \in Nat, d * q <= n PROVE q <= n
  <2>1. d * q = (d - 1) * q + q /\ (d - 1) * q >= 0
    BY Z3
  <2>2. d * q \in Int /\ (d - 1) * q \in Int
    OBVIOUS
  <2>3. QED
    BY <1>2, <2>1, <2>2
<1>3. QED
  BY <1>1, <1>2

\* No edge is wider than this.
Widest == 20000 * 200

LEMMA EdgeIsBounded ==
    ASSUME NEW total \in 1 .. 199
    PROVE  Widest \in Nat /\ Arb!EdgeOf(total) \in 0 .. Widest
<1> DEFINE num == 20000 * (200 - total) + total
           den == 2 * total
<1>1. num \in Nat /\ num <= Widest /\ den \in Nat \ {0} /\ Widest \in Nat
  BY Z3 DEF Widest
<1>2. Arb!EdgeOf(total) = num \div den
  BY Z3 DEF Arb!EdgeOf, Arb!Dollar
<1> HIDE DEF num, den
<1>3. num \div den \in 0 .. num
  BY <1>1, QuotientBelow
<1>4. QED
  BY <1>1, <1>2, <1>3

\* The quotes and the prices are of those there may be.
ArbTyped == book \in [Kal -> Quotes] /\ outcome \in [Pol -> Prices]

\* The ways that pay at the quotes of the step, and the best of them for a title.
Found == {w \in UNION {Arb!Ways(pair[1], pair[2]) : pair \in Arb!Matched} : Arb!Pays(w)}

EdgeOn(w) == Arb!EdgeOf(w.yes + w.no)

BestOn(t) ==
    CHOOSE w \in {w \in Found : Titles[w.k] = t} :
        \A v \in {v \in Found : Titles[v.k] = t} : EdgeOn(v) <= EdgeOn(w)

LEMMA PricesAreWhole ==
    /\ \A b \in Quotes : Arb!KalshiPrice(b).yes \in Int /\ Arb!KalshiPrice(b).no \in Int
    /\ \A o \in Prices : Arb!PolyPrice(o).yes \in Int /\ Arb!PolyPrice(o).no \in Int
<1>1. ASSUME NEW b \in Quotes
      PROVE  Arb!KalshiPrice(b).yes \in Int /\ Arb!KalshiPrice(b).no \in Int
  <2>1. b.yesBid \in 0 .. 100 /\ b.yesAsk \in 0 .. 100 /\ b.noBid \in 0 .. 100 /\ b.noAsk \in 0 .. 100
    BY DeliveryAssumption DEF Arb!ArbitrageAssumption
  <2>2. \A c \in 0 .. 100 : Arb!ToDecimal(c) \in Int
    BY DEF Arb!ToDecimal, Arb!Dollar
  <2>3. \A c, d \in Int : Arb!Mid(c, d) \in Int
    BY DEF Arb!Mid
  <2>4. /\ Arb!Mid(Arb!ToDecimal(b.yesBid), Arb!ToDecimal(b.yesAsk)) \in Int
        /\ Arb!Mid(Arb!ToDecimal(b.noBid), Arb!ToDecimal(b.noAsk)) \in Int
    <3> HIDE DEF Arb!Mid, Arb!ToDecimal
    <3> QED
      BY <2>1, <2>2, <2>3
  <2>5. QED
    BY <2>4 DEF Arb!KalshiPrice, Arb!Dollar
<1>2. ASSUME NEW o \in Prices
      PROVE  Arb!PolyPrice(o).yes \in Int /\ Arb!PolyPrice(o).no \in Int
  <2>1. o = Arb!Unpriced \/ {o.yes, o.no} \subseteq 0 .. 200
    BY DeliveryAssumption DEF Arb!ArbitrageAssumption, Arb!Dollar
  <2>2. CASE o = Arb!Unpriced
    BY <2>2 DEF Arb!PolyPrice, Arb!Dollar
  <2>3. CASE o # Arb!Unpriced
    BY <2>1, <2>3 DEF Arb!PolyPrice
  <2>4. QED
    BY <2>2, <2>3
<1>3. QED
  BY <1>1, <1>2

\* A way that pays is one of the two ways to buy its pair, and has an edge.
LEMMA FoundWay ==
    ASSUME ArbTyped', NEW w \in Found
    PROVE  /\ <<w.k, w.p>> \in Arb!Matched /\ w.k \in Kal /\ w.p \in Pol
           /\ w \in Arb!Ways(w.k, w.p) /\ Arb!Pays(w)
           /\ Widest \in Nat /\ EdgeOn(w) \in 0 .. Widest
<1>1. PICK pair \in Arb!Matched : w \in Arb!Ways(pair[1], pair[2])
  BY DEF Found
<1>2. pair \in Kal \X Pol /\ pair = <<pair[1], pair[2]>>
  BY MatchedPairs DEF Paired
<1>3. w.k = pair[1] /\ w.p = pair[2]
  BY <1>1 DEF Arb!Ways
<1>4. book'[w.k] \in Quotes /\ outcome'[w.p] \in Prices
  BY <1>2, <1>3 DEF ArbTyped
<1>5. w.yes \in Int /\ w.no \in Int
  BY <1>1, <1>3, <1>4, PricesAreWhole DEF Arb!Ways
<1>6. Arb!Pays(w)
  BY DEF Found
<1>7. w.yes + w.no \in 1 .. 199
  BY <1>5, <1>6 DEF Arb!Pays, Arb!Dollar
<1>8. QED
  BY <1>1, <1>2, <1>3, <1>6, <1>7, EdgeIsBounded DEF EdgeOn

LEMMA BestOnIsThere ==
    ASSUME ArbTyped', NEW t, NEW f \in Found, Titles[f.k] = t
    PROVE  BestOn(t) \in Found /\ Titles[BestOn(t).k] = t
<1> DEFINE Of == {w \in Found : Titles[w.k] = t}
           Short == {Widest - EdgeOn(w) : w \in Of}
<1>1. \A w \in Of : Widest \in Nat /\ EdgeOn(w) \in 0 .. Widest
  BY FoundWay
<1>2. Short \subseteq Nat /\ Short # {}
  BY <1>1
<1>3. IsWellFoundedOn(Below, Nat)
  BY NatLessThanWellFounded DEF OpToRel, Below
<1>4. PICK x \in Short : \A y \in Short : ~(<<y, x>> \in Below)
  <2> HIDE DEF Short
  <2> QED
    BY <1>2, <1>3, WFMin, Zenon
<1>5. PICK w \in Of : x = Widest - EdgeOn(w)
  BY <1>4
<1>6. ASSUME NEW v \in Of PROVE EdgeOn(v) <= EdgeOn(w)
  <2>1. Widest - EdgeOn(v) \in Short /\ Widest - EdgeOn(v) \in Nat /\ x \in Nat
    BY <1>1, <1>5
  <2>2. ~(Widest - EdgeOn(v) < x)
    <3> HIDE DEF Short
    <3> QED
      BY <1>4, <2>1 DEF Below
  <2>3. QED
    BY <1>1, <1>5, <2>2
<1>7. BestOn(t) \in Of
  <2> DEFINE Top(z) == \A v \in Of : EdgeOn(v) <= EdgeOn(z)
  <2>1. \E z \in Of : Top(z)
    BY <1>6
  <2>2. BestOn(t) = CHOOSE z \in Of : Top(z)
    BY DEF BestOn
  <2> HIDE DEF Of, Top
  <2>3. QED
    BY <2>1, <2>2, Zenon
<1>8. QED
  BY <1>7

\* What is reported, in the terms above.
LEMMA DetectedIs == Arb!Detected = {BestOn(Titles[w.k]) : w \in Found}
BY DEF Arb!Detected, Found, BestOn, EdgeOn

\* At whole quotes none of which is a single cent, what a way is priced at is what it costs.
LEMMA PriceIsCost ==
    ASSUME ArbTyped', NEW w \in Found, outcome'[w.p] # Arb!Unpriced,
           ~Arb!QuotedAtACent(book'[w.k])
    PROVE  Arb!Cost(w)' = w.yes + w.no
<1> DEFINE b == book'[w.k]
           o == outcome'[w.p]
<1>1. b \in Quotes /\ o \in Prices /\ w \in Arb!Ways(w.k, w.p) /\ Arb!Pays(w)
  BY FoundWay DEF ArbTyped
<1>2. /\ b.yesBid \in 0 .. 100 /\ b.yesAsk \in 0 .. 100 /\ b.noBid \in 0 .. 100 /\ b.noAsk \in 0 .. 100
      /\ b.yesBid # 1 /\ b.yesAsk # 1 /\ b.noBid # 1 /\ b.noAsk # 1
  BY <1>1, DeliveryAssumption DEF Arb!ArbitrageAssumption, Arb!QuotedAtACent
<1>3. \A c \in 0 .. 100 : c # 1 => Arb!ToDecimal(c) = 2 * c
  BY DEF Arb!ToDecimal, Arb!Dollar
<1>4. \A c, d \in 0 .. 100 : c # 1 /\ d # 1 =>
        Arb!Mid(Arb!ToDecimal(c), Arb!ToDecimal(d)) = Arb!Middle(c, d)
  BY <1>3 DEF Arb!Mid, Arb!Middle
<1> HIDE DEF b, o
<1>5. /\ Arb!KalshiPrice(b).yes = Arb!Worth(b, "yes")
      /\ Arb!KalshiPrice(b).no > 0 => Arb!KalshiPrice(b).no = Arb!Worth(b, "no")
  <2>1. /\ Arb!Mid(Arb!ToDecimal(b.yesBid), Arb!ToDecimal(b.yesAsk)) = Arb!Middle(b.yesBid, b.yesAsk)
        /\ Arb!Mid(Arb!ToDecimal(b.noBid), Arb!ToDecimal(b.noAsk)) = Arb!Middle(b.noBid, b.noAsk)
    BY <1>2, <1>4
  <2>2. QED
    BY <2>1 DEF Arb!KalshiPrice, Arb!Worth, Arb!Dollar
<1>6. Arb!PolyPrice(o) = o
  BY DEF Arb!PolyPrice, o
<1>7. \/ w.yesOn = "kalshi" /\ w.yes = Arb!KalshiPrice(b).yes /\ w.no = Arb!PolyPrice(o).no
      \/ w.yesOn = "polymarket" /\ w.yes = Arb!PolyPrice(o).yes /\ w.no = Arb!KalshiPrice(b).no
  BY <1>1 DEF Arb!Ways, b, o
<1>8. w.yes > 0 /\ w.no > 0 /\ w.yes \in Int /\ w.no \in Int
  BY <1>1, <1>7, PricesAreWhole DEF Arb!Pays
<1>9. Arb!Cost(w)' = IF w.yesOn = "kalshi" THEN Arb!Worth(b, "yes") + o.no
                     ELSE Arb!Worth(b, "no") + o.yes
  BY DEF Arb!Cost, b, o
<1>10. QED
  BY <1>5, <1>6, <1>7, <1>8, <1>9

\* What a cycle reports is all it claims to be.
LEMMA CycleStep ==
    ASSUME ArbTyped', opps' = Arb!Detected
    PROVE  Arb!QuotedOpportunityPays'
<1>1. ASSUME NEW w \in opps' PROVE w \in Found /\ w = BestOn(Titles[w.k])
  <2>1. PICK f \in Found : w = BestOn(Titles[f.k])
    BY <1>1, DetectedIs
  <2>2. QED
    BY <2>1, BestOnIsThere
<1>2. ASSUME NEW w \in opps', outcome'[w.p] # Arb!Unpriced, ~Arb!QuotedAtACent(book'[w.k])
      PROVE  Arb!Cost(w)' < Arb!Dollar
  <2>1. w \in Found /\ Arb!Pays(w)
    BY <1>1, FoundWay
  <2>2. QED
    BY <1>2, <2>1, PriceIsCost DEF Arb!Pays
<1>3. ASSUME NEW v \in opps', NEW w \in opps',
             v.p = w.p \/ v.k = w.k \/ Titles[v.k] = Titles[w.k]
      PROVE  v = w
  <2>1. /\ v \in Found /\ v = BestOn(Titles[v.k]) /\ w \in Found /\ w = BestOn(Titles[w.k])
        /\ <<v.k, v.p>> \in Arb!Matched /\ <<w.k, w.p>> \in Arb!Matched
    BY <1>1, FoundWay
  <2>2. v.p = w.p => v.k = w.k
    BY <2>1, MatchedPairs DEF Paired
  <2>3. QED
    BY <1>3, <2>1, <2>2
<1>4. QED
  BY <1>2, <1>3 DEF Arb!QuotedOpportunityPays, Arb!Cost, Arb!Worth

\* Where the scheduler is what runs, its quotes are quotes and what it reports pays; where
\* it is not, there is nothing on its board.
ArbInv ==
    IF part = "arbitrage" THEN ArbTyped /\ QuotedOpportunityPays ELSE opps = {}

LEMMA ArbInit == DeliveryInit => ArbInv
<1> SUFFICES ASSUME DeliveryInit PROVE ArbInv
  OBVIOUS
<1>1. ASSUME part = "arbitrage" PROVE ArbTyped /\ opps = {}
  BY <1>1 DEF DeliveryInit, Arb!Init, ArbTyped, Kal, Pol
<1>2. part # "arbitrage" => opps = {}
  BY DEF DeliveryInit
<1>3. opps = {} => QuotedOpportunityPays
  BY DEF QuotedOpportunityPays, Arb!QuotedOpportunityPays
<1>4. QED
  BY <1>1, <1>2, <1>3 DEF ArbInv

\* A cycle changes one quote for another of its kind, and reports from the new ones.
LEMMA ArbStep == ArbInv /\ [DeliveryNext]_<<vars, feedVars, arbVars, part>> => ArbInv'
<1> SUFFICES ASSUME ArbInv, [DeliveryNext]_<<vars, feedVars, arbVars, part>> PROVE ArbInv'
  OBVIOUS
<1>1. CASE UNCHANGED <<arbVars, part>>
  BY <1>1 DEF ArbInv, arbVars, ArbTyped, QuotedOpportunityPays, Arb!QuotedOpportunityPays,
              Arb!Cost, Arb!Worth
<1>2. CASE part = "arbitrage" /\ part' = part /\ Arb!Next
  <2>1. ArbTyped
    BY <1>2 DEF ArbInv
  <2>2. opps' = Arb!Detected
    BY <1>2 DEF Arb!Next, Arb!Cycle
  <2>3. /\ \A k \in Kal, b \in Quotes : [book EXCEPT ![k] = b] \in [Kal -> Quotes]
        /\ \A p \in Pol, o \in Prices : [outcome EXCEPT ![p] = o] \in [Pol -> Prices]
    BY <2>1 DEF ArbTyped
  <2>4. \/ \E k \in Kal, b \in Quotes : book' = [book EXCEPT ![k] = b] /\ UNCHANGED outcome
        \/ \E p \in Pol, o \in Prices : outcome' = [outcome EXCEPT ![p] = o] /\ UNCHANGED book
    BY <1>2 DEF Arb!Next, Arb!Cycle, Kal, Pol
  <2>5. ArbTyped'
    BY <2>1, <2>3, <2>4 DEF ArbTyped
  <2>6. QED
    BY <1>2, <2>2, <2>5, CycleStep DEF ArbInv, QuotedOpportunityPays
<1>3. QED
  BY <1>1, <1>2 DEF DeliveryNext

\* An opportunity on the board costs less than a dollar at the prices both vendors quote,
\* unless one of them is a single cent or is not there; and no two on it are of one market,
\* or of one title: for every list of markets, quotes and likeness of titles.
THEOREM OpportunitiesPay == DeliverySpec => []QuotedOpportunityPays
<1>1. ArbInv => QuotedOpportunityPays
  BY DEF ArbInv, QuotedOpportunityPays, Arb!QuotedOpportunityPays
<1>2. QED
  BY ArbInit, ArbStep, <1>1, PTL DEF DeliverySpec
=============================================================================
