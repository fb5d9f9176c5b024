-------------------------- MODULE DistributeMailbox -------------------------
(***************************************************************************)
(* Distribute implements Mailbox when one run enqueues at a time and no    *)
(* dead letter is replayed: then a match has one pending row at most       *)
(* (OnePendingPerMatch), and that row is its slot.                         *)
(***************************************************************************)
EXTENDS Distribute

SlotOf(m) ==
    IF PendingOf(queue, m) = {} THEN 0
    ELSE queue[CHOOSE id \in PendingOf(queue, m) : TRUE].ver

ClaimOf(m) == {id \in DOMAIN claimed : claimed[id].row.match = m}

CopyOf(m) ==
    IF ClaimOf(m) = {} THEN 0
    ELSE claimed[CHOOSE id \in ClaimOf(m) : TRUE].row.ver

DeadOf(m) == {id \in DOMAIN queue : queue[id].match = m /\ queue[id].status = "dead"}

LettersOf(m) == {queue[id].ver : id \in DeadOf(m)}

Mail == INSTANCE Mailbox WITH
    Versions <- 1 .. MaxVersion,
    slot <- [m \in Matches |-> SlotOf(m)],
    copy <- [m \in Matches |-> CopyOf(m)],
    have <- received,
    dead <- [m \in Matches |-> LettersOf(m)]

\* Every step of the wire is a step of the mailbox or leaves it alone: the
\* pending row of a match is deleted only after the receiver has taken the
\* body that was claimed from it, and a body given up stays in the table.
ImplementsMailbox == Mail!Spec
=============================================================================
