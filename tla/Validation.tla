----------------------------- MODULE Validation -----------------------------
(* How a prediction is held against the result (desk/verdict:                *)
(* outcomes_ingest.py, forward_validation.py, `desk fv-ingest-outcomes` of   *)
(* cli.py): a run of the desk logs predictions; every tick then asks         *)
(* api-football for the result of each match that has a prediction and no    *)
(* outcome, and writes the outcomes down when the walk is over. A second     *)
(* ingest may run beside it, calls fail, either may be killed, and the       *)
(* vendor corrects results.                                                  *)
EXTENDS Integers, FiniteSets

CONSTANTS
    Matches,
    Swapped,       \* the matches the vendor lists with the teams the other way round
    Ingests,       \* runs of fv-ingest-outcomes
    SettleBuffer,  \* units after the date of the match, which is 0
    Timeout,       \* of the tick, for the whole ingest
    MaxDate, MaxIngests, MaxCorrections, MaxFailedCalls   \* bounds

ASSUME ValidationAssumption ==
    /\ IsFiniteSet(Matches) /\ Swapped \subseteq Matches /\ IsFiniteSet(Ingests)
    /\ {SettleBuffer, Timeout} \subseteq Nat \ {0}
    /\ {MaxDate, MaxIngests, MaxCorrections, MaxFailedCalls} \subseteq Nat

VARIABLES
    date,
    vendor,      \* api-football's fixture: its status and its score so far
    logged,      \* predictions: the matches that have one
    outcome,     \* outcomes: "a", "draw" or "b" once resolved
    ingest,
    begun, corrections, failedCalls,
    \* Observed, for the properties only:
    finals,      \* the scores the vendor has shown as final
    owed         \* matches an ingest should have resolved when it ended

fvVars == <<date, vendor, logged, outcome, ingest, begun, corrections, failedCalls, finals,
            owed>>

-----------------------------------------------------------------------------
Outcomes == {"a", "draw", "b"}
Unresolved == "none"

\* The score is kept as who leads: the team the vendor calls home, nobody, or the other.
Scores == {"home", "level", "away"}

IdleIngest == [pc |-> "idle", at |-> 0, left |-> {}, found |-> [m \in Matches |-> Unresolved],
         due |-> {}, known |-> {}]

FvTypeOK ==
    /\ date \in 0 .. MaxDate
    /\ vendor \in [Matches -> [status : {"NS", "playing", "FT", "AET"}, score : Scores]]
    /\ logged \subseteq Matches
    /\ outcome \in [Matches -> Outcomes \cup {Unresolved}]
    /\ ingest \in [Ingests -> [pc : {"idle", "walk", "record"}, at : 0 .. MaxDate,
                               left : SUBSET Matches,
                               found : [Matches -> Outcomes \cup {Unresolved}],
                               due : SUBSET Matches, known : SUBSET Matches]]
    /\ finals \in [Matches -> SUBSET Scores]
    /\ owed \subseteq Matches

FvInit ==
    /\ date = 0
    /\ vendor = [m \in Matches |-> [status |-> "NS", score |-> "level"]]
    /\ logged = {} /\ outcome = [m \in Matches |-> Unresolved]
    /\ ingest = [i \in Ingests |-> IdleIngest]
    /\ begun = 0 /\ corrections = 0 /\ failedCalls = 0
    /\ finals = [m \in Matches |-> {}] /\ owed = {}

-----------------------------------------------------------------------------
\* Faulty: the vendor's home team is taken for team_a.
OutcomeOf_AsListed(m) ==
    CASE vendor[m].score = "level" -> "draw" [] vendor[m].score = "home" -> "a" [] OTHER -> "b"

\* _classify_outcome, on the goals as seen by team_a.
OutcomeOf(m) ==
    CASE vendor[m].score = "level" -> "draw"
      [] vendor[m].score = (IF m \in Swapped THEN "away" ELSE "home") -> "a"
      [] OTHER -> "b"

\* pending_match_ids
Pending == {m \in logged : outcome[m] = Unresolved}

\* Not before the buffer is over, and then only what the vendor calls FT.
Settled(m) == date >= SettleBuffer /\ vendor[m].status = "FT"

\* Faulty: the walk ends with the first match that is not settled.
Rest_Stops(i, m) == IF Settled(m) THEN ingest[i].left \ {m} ELSE {}

\* "failures don't block later items"
Rest(i, m) == ingest[i].left \ {m}

-----------------------------------------------------------------------------
\* _log_forward_validation, in a run of the desk; the venue may list the match until long
\* after it has ended.
Log(m) ==
    /\ m \notin logged
    /\ logged' = logged \cup {m}
    /\ UNCHANGED <<date, vendor, outcome, ingest, begun, corrections, failedCalls, finals,
                   owed>>

\* The pending matches are listed once, cut where --limit is passed by hand, and the walk
\* begins.
Begin(i) ==
    /\ ingest[i].pc = "idle" /\ begun < MaxIngests
    /\ begun' = begun + 1
    /\ \E taken \in SUBSET Pending :
         ingest' = [ingest EXCEPT ![i] = [IdleIngest EXCEPT
                      !.pc = "walk", !.at = date, !.left = taken,
                      !.due = {m \in taken : outcome[m] = Unresolved /\ date >= SettleBuffer
                                               /\ vendor[m].status = "FT"},
                      !.known = {m \in Matches : outcome[m] # Unresolved}]]
    /\ UNCHANGED <<date, vendor, logged, outcome, corrections, failedCalls, finals, owed>>

\* ingest_one
Ask(i, m) ==
    /\ ingest[i].pc = "walk" /\ m \in ingest[i].left
    /\ ingest' = [ingest EXCEPT
                    ![i].left = Rest(i, m),
                    ![i].found[m] = IF Settled(m) THEN OutcomeOf(m) ELSE Unresolved]
    /\ UNCHANGED <<date, vendor, logged, outcome, begun, corrections, failedCalls, finals,
                   owed>>

\* The team is not resolved, the call fails or the fixture is not in the answer.
AskFails(i, m) ==
    /\ ingest[i].pc = "walk" /\ m \in ingest[i].left /\ failedCalls < MaxFailedCalls
    /\ failedCalls' = failedCalls + 1
    /\ ingest' = [ingest EXCEPT ![i].left = Rest(i, m), ![i].due = @ \ {m}]
    /\ UNCHANGED <<date, vendor, logged, outcome, begun, corrections, finals, owed>>

WalkDone(i) ==
    /\ ingest[i].pc = "walk" /\ ingest[i].left = {}
    /\ ingest' = [ingest EXCEPT ![i].pc = "record",
                    ![i].left = {m \in Matches : ingest[i].found[m] # Unresolved}]
    /\ UNCHANGED <<date, vendor, logged, outcome, begun, corrections, failedCalls, finals,
                   owed>>

\* record_outcome: inserted or overwritten, one statement for each match.
Record(i, m) ==
    /\ ingest[i].pc = "record" /\ m \in ingest[i].left
    /\ outcome' = [outcome EXCEPT ![m] = ingest[i].found[m]]
    /\ ingest' = [ingest EXCEPT ![i].left = @ \ {m}]
    /\ UNCHANGED <<date, vendor, logged, begun, corrections, failedCalls, finals, owed>>

End(i) ==
    /\ ingest[i].pc = "record" /\ ingest[i].left = {}
    /\ ingest' = [ingest EXCEPT ![i] = IdleIngest]
    /\ owed' = owed \cup ingest[i].due
    /\ UNCHANGED <<date, vendor, logged, outcome, begun, corrections, failedCalls, finals>>

\* The tick's timeout: whatever was found and not yet recorded is lost.
TimedOut(i) ==
    /\ ingest[i].pc # "idle" /\ date >= ingest[i].at + Timeout
    /\ ingest' = [ingest EXCEPT ![i] = IdleIngest]
    /\ UNCHANGED <<date, vendor, logged, outcome, begun, corrections, failedCalls, finals,
                   owed>>

-----------------------------------------------------------------------------
(* The vendor.                                                               *)

KickOff(m) ==
    /\ vendor[m].status = "NS"
    /\ vendor' = [vendor EXCEPT ![m].status = "playing"]
    /\ UNCHANGED <<date, logged, outcome, ingest, begun, corrections, failedCalls, finals,
                   owed>>

Goal(m) ==
    /\ vendor[m].status = "playing"
    /\ \E s \in Scores \ {vendor[m].score} : vendor' = [vendor EXCEPT ![m].score = s]
    /\ UNCHANGED <<date, logged, outcome, ingest, begun, corrections, failedCalls, finals,
                   owed>>

\* After ninety minutes, or after extra time.
FullTime(m) ==
    /\ vendor[m].status = "playing"
    /\ vendor' = [vendor EXCEPT ![m].status = "FT"]
    /\ finals' = [finals EXCEPT ![m] = {vendor[m].score}]
    /\ UNCHANGED <<date, logged, outcome, ingest, begun, corrections, failedCalls, owed>>

ExtraTime(m) ==
    /\ vendor[m].status = "playing"
    /\ vendor' = [vendor EXCEPT ![m].status = "AET"]
    /\ UNCHANGED <<date, logged, outcome, ingest, begun, corrections, failedCalls, finals,
                   owed>>

Correct(m) ==
    /\ vendor[m].status = "FT" /\ corrections < MaxCorrections
    /\ corrections' = corrections + 1
    /\ \E s \in Scores \ {vendor[m].score} :
         /\ vendor' = [vendor EXCEPT ![m].score = s]
         /\ finals' = [finals EXCEPT ![m] = @ \cup {s}]
    /\ UNCHANGED <<date, logged, outcome, ingest, begun, failedCalls, owed>>

Elapse ==
    /\ date < MaxDate
    /\ \A i \in Ingests : ingest[i].pc # "idle" => date < ingest[i].at + Timeout
    /\ date' = date + 1
    /\ UNCHANGED <<vendor, logged, outcome, ingest, begun, corrections, failedCalls, finals,
                   owed>>

\* The bounds are reached.
FvHorizon ==
    /\ date = MaxDate /\ \A i \in Ingests : ingest[i].pc = "idle"
    /\ UNCHANGED fvVars

FvNext ==
    \/ \E m \in Matches :
         Log(m) \/ KickOff(m) \/ Goal(m) \/ FullTime(m) \/ ExtraTime(m) \/ Correct(m)
    \/ \E i \in Ingests :
         \/ Begin(i) \/ WalkDone(i) \/ End(i) \/ TimedOut(i)
         \/ \E m \in Matches : Ask(i, m) \/ AskFails(i, m) \/ Record(i, m)
    \/ Elapse \/ FvHorizon

FvSpec == FvInit /\ [][FvNext]_fvVars

-----------------------------------------------------------------------------
\* What a score says of team_a, the first team of the match id.
Means(m, s) == IF s = "level" THEN "draw" ELSE IF (s = "home") = (m \notin Swapped) THEN "a" ELSE "b"

\* A match is only ever resolved by a score the vendor has called final, seen from team_a's
\* side: never by one read while it was played, after extra time or the wrong way round,
\* whatever ingests overlap.
OutcomeIsAResult ==
    \A m \in Matches :
        outcome[m] # Unresolved => \E s \in finals[m] : outcome[m] = Means(m, s)

\* "already-resolved matches skip the network entirely": an ingest neither asks about nor
\* rewrites a match that was resolved when it began, so only ingests that overlap can
\* change an outcome.
ResolvedIsLeftAlone ==
    \A i \in Ingests : \A m \in ingest[i].known :
        m \notin ingest[i].left /\ ingest[i].found[m] = Unresolved

\* "failures don't block later items": an ingest that ends has resolved every match it
\* listed that had ended and settled when it began, but those whose own call failed.
SettledIsResolved == \A m \in owed : outcome[m] # Unresolved
=============================================================================
