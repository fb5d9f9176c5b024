------------------------------- MODULE Outbox -------------------------------
(***************************************************************************)
(* The push_queue table of the outbound wire                               *)
(* (desk/desk/distribute/outbox.py), as pure operators: a table is a       *)
(* function from the ids of the rows that exist to the rows, and each      *)
(* operator is the effect of one SQL statement on it.  Every statement     *)
(* runs in autocommit mode, so one operator is one atomic step; enqueue    *)
(* is two statements, hence two operators.                                 *)
(*                                                                         *)
(* A body is identified by its version, the updated_at it carries.         *)
(* next_attempt_at is kept relative to the present: `due` is the number    *)
(* of ticks until the row is due, zero or negative once it is.             *)
(***************************************************************************)
EXTENDS Integers, FiniteSets, Sequences

CONSTANTS
    Matches,        \* the match ids
    RetrySchedule,  \* backoff steps, in ticks (RETRY_SCHEDULE_SEC)
    MaxLate         \* bound: a row overdue by more is not told from one overdue by this

ASSUME OutboxAssumption ==
    /\ RetrySchedule \in Seq(Nat)
    /\ MaxLate \in Nat

Status == {"pending", "dead"}

Row == [match : Matches, ver : Nat, attempts : Nat, due : Int, status : Status]

PushRow(m, v, n, d, s) ==
    [match |-> m, ver |-> v, attempts |-> n, due |-> d, status |-> s]

\* A table whose AUTOINCREMENT counter stands at `last`.
IsTable(q, last) == q \in [DOMAIN q -> Row] /\ DOMAIN q \subseteq 1 .. last

EmptyTable == [id \in {} |-> <<>>]

MaxAttempts == Len(RetrySchedule)

-----------------------------------------------------------------------------
(* Faulty variants of the operators below, one plausible slip each.  No      *)
(* action uses them: they stand in for the operator they are named after to  *)
(* show that a property notices the slip.                                    *)

\* The SELECT of enqueue only sees rows that are due.
PendingOf_OnlyDue(q, m) ==
    {id \in DOMAIN q : q[id].match = m /\ q[id].status = "pending" /\ q[id].due <= 0}

\* The UPDATE of enqueue also sets status = 'pending'.
Overwrite_Revives(q, id, v) ==
    [i \in DOMAIN q |-> IF i = id THEN PushRow(q[i].match, v, 0, 0, "pending") ELSE q[i]]

\* mark_sent deletes by match_id.
MarkSent_ByMatch(q, id) == [i \in {j \in DOMAIN q : q[j].match # q[id].match} |-> q[i]]

\* mark_retry does not count the attempt.
MarkRetry_Uncounted(q, id, wait) ==
    [i \in DOMAIN q |-> IF i = id THEN [q[i] EXCEPT !.due = wait] ELSE q[i]]

-----------------------------------------------------------------------------
(* Reads *)

PendingOf(q, m) == {id \in DOMAIN q : q[id].match = m /\ q[id].status = "pending"}

DueIds(q) == {id \in DOMAIN q : q[id].status = "pending" /\ q[id].due <= 0}

\* ORDER BY next_attempt_at ASC, id ASC
Before(q, i, j) == q[i].due < q[j].due \/ (q[i].due = q[j].due /\ i < j)

\* A faulty variant: the LIMIT lets one row more through.
ClaimDue_OneMore(q, limit) ==
    {id \in DueIds(q) : Cardinality({j \in DueIds(q) : Before(q, j, id)}) <= limit}

\* claim_due: the first `limit` due rows in that order.
ClaimDue(q, limit) ==
    {id \in DueIds(q) : Cardinality({j \in DueIds(q) : Before(q, j, id)}) < limit}

-----------------------------------------------------------------------------
(* Writes *)

\* enqueue, the UPDATE ... WHERE id = ?: nothing happens when the row is gone,
\* and the status of the row is left as it is.
Overwrite(q, id, v) ==
    [i \in DOMAIN q |->
        IF i = id THEN PushRow(q[i].match, v, 0, 0, q[i].status) ELSE q[i]]

\* enqueue, the INSERT.
InsertRow(q, id, m, v) ==
    [i \in DOMAIN q \cup {id} |->
        IF i = id THEN PushRow(m, v, 0, 0, "pending") ELSE q[i]]

MarkSent(q, id) == [i \in DOMAIN q \ {id} |-> q[i]]

MarkRetry(q, id, wait) ==
    [i \in DOMAIN q |->
        IF i = id
        THEN PushRow(q[i].match, q[i].ver, q[i].attempts + 1, wait, q[i].status)
        ELSE q[i]]

MarkDead(q, id) ==
    [i \in DOMAIN q |->
        IF i = id
        THEN PushRow(q[i].match, q[i].ver, q[i].attempts + 1, q[i].due, "dead")
        ELSE q[i]]

\* retry_dead_letters(match_ids): every dead row of these matches, whether or
\* not the match has a pending row by now.
RetryDeadLetters(q, ms) ==
    [i \in DOMAIN q |->
        IF q[i].status = "dead" /\ q[i].match \in ms
        THEN PushRow(q[i].match, q[i].ver, 0, 0, "pending")
        ELSE q[i]]

\* One tick of the clock brings every pending row one tick nearer to its
\* next_attempt_at (a dead row's is never read).
Elapse(q) ==
    [i \in DOMAIN q |->
        IF q[i].status = "pending" /\ q[i].due > -MaxLate
        THEN PushRow(q[i].match, q[i].ver, q[i].attempts, q[i].due - 1, "pending")
        ELSE q[i]]
=============================================================================
