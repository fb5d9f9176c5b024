------------------------------ MODULE Mailbox -------------------------------
(***************************************************************************)
(* What the outbound wire promises, without rows, retries or statements:   *)
(* one slot per match that holds the newest body put into it, a carrier    *)
(* that takes copies of slots to the receiver, and the rule that a slot is *)
(* emptied only when the receiver holds the copy the carrier took, or when *)
(* what it holds is given up and kept as a dead letter for the operator.   *)
(*                                                                         *)
(* The rule speaks of the copy, not of the slot: a body put while a copy   *)
(* is out goes with the old one.  That is the wire as it is, and why       *)
(* LostOnlyByRace of Distribute has to name the race.                      *)
(***************************************************************************)
EXTENDS Integers

CONSTANTS Matches, Versions

VARIABLES
    slot,  \* per match: the version in the slot, 0 when empty
    copy,  \* per match: the version the carrier took, 0 when none
    have,  \* per match: the newest version the receiver holds
    dead   \* per match: the versions given up, which nobody carries again

vars == <<slot, copy, have, dead>>

Init ==
    /\ slot = [m \in Matches |-> 0]
    /\ copy = [m \in Matches |-> 0]
    /\ have = [m \in Matches |-> 0]
    /\ dead = [m \in Matches |-> {}]

Put(m, v) ==
    /\ v > slot[m] /\ v > copy[m]
    /\ slot' = [slot EXCEPT ![m] = v]
    /\ UNCHANGED <<copy, have, dead>>

\* A body meant for a slot whose body was given up meanwhile: it takes the place of the
\* dead letter, and is not carried.
Amend(m, v, w) ==
    /\ w \in dead[m] /\ v > w
    /\ dead' = [dead EXCEPT ![m] = (@ \ {w}) \cup {v}]
    /\ UNCHANGED <<slot, copy, have>>

\* The carrier leaves with copies of some full slots.
Leave(ms) ==
    /\ \A m \in Matches : copy[m] = 0
    /\ \A m \in ms : slot[m] # 0
    /\ copy' = [m \in Matches |-> IF m \in ms THEN slot[m] ELSE 0]
    /\ UNCHANGED <<slot, have, dead>>

Hand(m) ==
    /\ copy[m] # 0
    /\ have' = [have EXCEPT ![m] = IF @ < copy[m] THEN copy[m] ELSE @]
    /\ UNCHANGED <<slot, copy, dead>>

Empty(m) ==
    /\ copy[m] # 0
    /\ have[m] >= copy[m]
    /\ slot' = [slot EXCEPT ![m] = 0]
    /\ copy' = [copy EXCEPT ![m] = 0]
    /\ UNCHANGED <<have, dead>>

\* Not delivered: the slot keeps what it holds by now, or that becomes a dead letter.
Return(m) ==
    /\ copy[m] # 0
    /\ copy' = [copy EXCEPT ![m] = 0]
    /\ UNCHANGED <<slot, have, dead>>

GiveUp(m) ==
    /\ copy[m] # 0
    /\ slot' = [slot EXCEPT ![m] = 0]
    /\ copy' = [copy EXCEPT ![m] = 0]
    /\ dead' = [dead EXCEPT ![m] = @ \cup {slot[m]}]
    /\ UNCHANGED have

\* The carrier is lost with all its copies.
Lost ==
    /\ copy' = [m \in Matches |-> 0]
    /\ UNCHANGED <<slot, have, dead>>

Next ==
    \/ \E m \in Matches :
         \/ \E v \in Versions : Put(m, v) \/ \E w \in dead[m] : Amend(m, v, w)
         \/ Hand(m)
         \/ Empty(m)
         \/ Return(m)
         \/ GiveUp(m)
    \/ \E ms \in SUBSET Matches : Leave(ms)
    \/ Lost

Spec == Init /\ [][Next]_vars
=============================================================================
