------------------------------- MODULE Postbox ------------------------------
(***************************************************************************)
(* What the outbound wire promises whoever uses it, any number of runs at  *)
(* a time and dead letters replayed too: letters numbered as they are      *)
(* posted, a carrier that takes copies of some to the receiver, and the    *)
(* rule that a letter is destroyed only when the receiver holds the copy   *)
(* that was taken of it, and is given up only by the carrier that has its  *)
(* copy.  When letters are due, how often they are tried and how many the  *)
(* carrier takes is left open.                                             *)
(*                                                                         *)
(* Mailbox is the case of one sender and no replays: one letter per match. *)
(***************************************************************************)
EXTENDS Integers

CONSTANTS Matches, Versions

VARIABLES
    posted,   \* letters so far
    letters,  \* of each letter there is: its match, its version, whether it is given up
    copies,   \* of each letter the carrier has: the match and the version it took
    have      \* per match: the newest version the receiver holds

vars == <<posted, letters, copies, have>>

Nothing == [id \in {} |-> <<>>]

Init ==
    /\ posted = 0
    /\ letters = Nothing /\ copies = Nothing
    /\ have = [m \in Matches |-> 0]

Post(m, v) ==
    /\ posted' = posted + 1
    /\ letters' = [id \in DOMAIN letters \cup {posted'} |->
                     IF id = posted' THEN [match |-> m, ver |-> v, dead |-> FALSE]
                     ELSE letters[id]]
    /\ UNCHANGED <<copies, have>>

\* Another body for the match of a letter, which may be out, or given up.
Amend(id, v) ==
    /\ letters' = [letters EXCEPT ![id].ver = v]
    /\ UNCHANGED <<posted, copies, have>>

\* The carrier leaves with copies of some letters that are not given up.
Leave(ids) ==
    /\ copies = Nothing
    /\ \A id \in ids : ~letters[id].dead
    /\ copies' = [id \in ids |-> [match |-> letters[id].match, ver |-> letters[id].ver]]
    /\ UNCHANGED <<posted, letters, have>>

Hand(id) ==
    /\ LET copy == copies[id] IN
         have' = [have EXCEPT ![copy.match] = IF @ < copy.ver THEN copy.ver ELSE @]
    /\ UNCHANGED <<posted, letters, copies>>

Without(f, id) == [i \in DOMAIN f \ {id} |-> f[i]]

Destroy(id) ==
    /\ have[copies[id].match] >= copies[id].ver
    /\ letters' = Without(letters, id)
    /\ copies' = Without(copies, id)
    /\ UNCHANGED <<posted, have>>

\* Not delivered: the letter stays as it is by now, or is given up.
Return(id) ==
    /\ copies' = Without(copies, id)
    /\ UNCHANGED <<posted, letters, have>>

GiveUp(id) ==
    /\ ~letters[id].dead
    /\ letters' = [letters EXCEPT ![id].dead = TRUE]
    /\ copies' = Without(copies, id)
    /\ UNCHANGED <<posted, have>>

\* The carrier is lost with all its copies.
Lost ==
    /\ copies' = Nothing
    /\ UNCHANGED <<posted, letters, have>>

\* The operator has some of the letters given up carried again.
Revive(ids) ==
    /\ \A id \in ids : letters[id].dead
    /\ letters' = [id \in DOMAIN letters |->
                     IF id \in ids THEN [letters[id] EXCEPT !.dead = FALSE] ELSE letters[id]]
    /\ UNCHANGED <<posted, copies, have>>

Next ==
    \/ \E m \in Matches, v \in Versions : Post(m, v)
    \/ \E id \in DOMAIN letters, v \in Versions : Amend(id, v)
    \/ \E id \in DOMAIN copies : Hand(id)
    \* A copy is of a letter there is: whatever becomes of it becomes of that letter.
    \/ \E id \in DOMAIN copies \cap DOMAIN letters : Destroy(id) \/ Return(id) \/ GiveUp(id)
    \/ \E ids \in SUBSET DOMAIN letters : Leave(ids) \/ Revive(ids)
    \/ Lost

Spec == Init /\ [][Next]_vars
=============================================================================
