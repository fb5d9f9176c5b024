-------------------------- MODULE DistributePostbox -------------------------
(***************************************************************************)
(* Distribute implements Postbox: a row of the table is a letter, a claim  *)
(* is a copy.                                                              *)
(***************************************************************************)
EXTENDS Distribute

LetterOf(row) == [match |-> row.match, ver |-> row.ver, dead |-> row.status = "dead"]

BodyOf(row) == [match |-> row.match, ver |-> row.ver]

Box == INSTANCE Postbox WITH
    Versions <- Version,
    posted <- lastId,
    letters <- [id \in DOMAIN queue |-> LetterOf(queue[id])],
    copies <- [id \in DOMAIN claimed |-> BodyOf(claimed[id].row)],
    have <- received

\* Whatever runs, sweeps, kills and replays do between any two statements, a row of the
\* table is deleted only when the receiver has taken the body that was claimed from it, is
\* given up only by the sweep that claimed it, and is carried again only by a replay.
ImplementsPostbox == Box!Spec
=============================================================================
