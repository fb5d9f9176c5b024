------------------------------ MODULE Publish ------------------------------
(***************************************************************************)
(* One sport of `desk run` (desk/desk/runner.py, run_once): the fixtures   *)
(* priced today are built, written one file each with an etag beside it    *)
(* (publish/writer.py), put on the outbound wire, and listed in the index; *)
(* then what the index of the run before listed and this run did not       *)
(* publish is withdrawn (distribute/withdrawn.py).                         *)
(*                                                                         *)
(* Each run is a process of its own, launched by the refresh loop, by the  *)
(* lineups loop or by an operator, with no lock between them; the disk is  *)
(* all they share.  A body is identified by its state and by the `now` of  *)
(* the run that built it, and an etag by the body it hashes.  Sports have  *)
(* separate directories and follow one another, so one is modelled.        *)
(***************************************************************************)
EXTENDS Integers, FiniteSets

CONSTANTS
    Matches,    \* the match ids of the sport
    Index,      \* the name of index.json
    Runs,       \* processes that may run at the same time
    MaxClock,   \* bound: runs that find priced fixtures
    MaxFaults,  \* bound: I/O errors, failed enqueues, outboxes not opened
    MaxKills    \* bound: runs killed

ASSUME PublishAssumption ==
    /\ Index \notin Matches
    /\ MaxClock \in Nat
    /\ MaxFaults \in Nat
    /\ MaxKills \in Nat

VARIABLES
    disk,    \* per name: the published json and its etag
    tmp,     \* the .tmp file beside each of them, shared by all runs
    wire,    \* per match: the body enqueued last
    run,     \* per process: where it is in run_once and its local variables
    clock,
    faults, kills,
    (* History, read by no action. *)
    dirty,   \* names that a fault, a kill or an overlap may have left incoherent
    met      \* runs that overlap with another one, or did before they were over

vars == <<disk, tmp, wire, run, clock, faults, kills, dirty, met>>

-----------------------------------------------------------------------------
Names == Matches \cup {Index}
Parts == {"json", "etag"}

Body == [at : Nat, state : {"absent", "live", "withdrawn", "index"}, ids : SUBSET Matches]

Absent            == [at |-> 0, state |-> "absent", ids |-> {}]
LiveBody(t)       == [at |-> t, state |-> "live", ids |-> {}]
IndexBody(t, ids) == [at |-> t, state |-> "index", ids |-> ids]

Idle ==
    [pc |-> "idle", prior |-> {}, push |-> FALSE, now |-> 0,
     listed |-> {}, todo |-> {}, done |-> {}, gone |-> {}, out |-> {},
     name |-> Index, body |-> Absent, part |-> "json", opened |-> FALSE]

RunState ==
    [pc : {"idle", "ingest", "fixture", "write", "enqueue", "detect", "push"},
     prior  : SUBSET Matches,  \* the index as it was when the run began
     push   : BOOLEAN,         \* the outbox is open
     now    : Nat,
     listed : SUBSET Matches,  \* fixtures priced today
     todo   : SUBSET Matches,  \* those not yet built
     done   : SUBSET Matches,  \* those published by this run
     gone   : SUBSET Matches,  \* prior ids not published, not yet looked at
     out    : SUBSET Matches,  \* withdrawn on disk, not yet enqueued
     name   : Names,           \* the file being written,
     body   : Body,            \*   its new contents,
     part   : Parts,           \*   which of the two files,
     opened : BOOLEAN]         \*   whether the .tmp file is written

TypeOK ==
    /\ disk \in [Names -> [Parts -> Body]]
    /\ tmp \in [Names -> [Parts -> Body]]
    /\ wire \in [Matches -> Body]
    /\ run \in [Runs -> RunState]
    /\ clock \in 0 .. MaxClock
    /\ faults \in 0 .. MaxFaults
    /\ kills \in 0 .. MaxKills
    /\ dirty \in SUBSET Names
    /\ met \in SUBSET Runs

NoFiles == [p \in Parts |-> Absent]

Init ==
    /\ disk = [n \in Names |-> NoFiles]
    /\ tmp = [n \in Names |-> NoFiles]
    /\ wire = [m \in Matches |-> Absent]
    /\ run = [r \in Runs |-> Idle]
    /\ clock = 0
    /\ faults = 0
    /\ kills = 0
    /\ dirty = {}
    /\ met = {}

-----------------------------------------------------------------------------
(* Faulty variants of the operators below, one plausible slip each, that no  *)
(* action uses: they show that a property notices the slip.                  *)

\* The withdrawn body is stamped with the clock of the run before.
WithdrawnBody_StaleClock(t) == [at |-> t - 1, state |-> "withdrawn", ids |-> {}]

\* Only the index gets its etag refreshed after the first publication.
LastPart_FirstTime(name, part) == part = "etag" \/ (name # Index /\ disk[name].etag # Absent)

\* Whatever the venue still lists is not withdrawn.
Missing_NotListed(s) == s.prior \ s.listed

\* Withdrawn bodies are written and never enqueued.
ToPush_None(s) == {}

-----------------------------------------------------------------------------
(* What a run computes *)

WithdrawnBody(t) == [at |-> t, state |-> "withdrawn", ids |-> {}]

\* write_match and write_index write the json, then the etag.
LastPart(name, part) == part = "etag"

\* detect_and_emit: prior_ids - current.
Missing(s) == s.prior \ s.done

IndexIds(s) == s.done

ToPush(s) == s.out

\* The local variables of a run that is about to write a file.
Writing(s, n, b) ==
    [s EXCEPT !.pc = "write", !.name = n, !.body = b, !.part = "json", !.opened = FALSE]

\* What a run may leave half done when it ends early.
Touched(s) == s.prior \cup s.listed \cup {Index}

Fault == faults < MaxFaults /\ faults' = faults + 1

\* What a run leaves coherent, unless it met another.
Cleaned(r, n) == IF r \in met THEN dirty ELSE dirty \ {n}

Active == {r \in Runs : run[r] # Idle}

\* A run that starts while others are active meets them.
Meeting(r) ==
    CASE run[r] # Idle -> met
      [] run[r] = Idle /\ Active = {} -> met \ {r}
      [] OTHER -> met \cup Active \cup {r}

-----------------------------------------------------------------------------
(* Ingest *)

\* The run opens the outbox (or goes on without) and reads the index.
Start(r) ==
    /\ run[r] = Idle
    /\ \E opens \in BOOLEAN :
         /\ IF opens THEN UNCHANGED faults ELSE Fault
         /\ run' = [run EXCEPT ![r] = [Idle EXCEPT
                      !.pc = "ingest", !.push = opens, !.prior = disk[Index].json.ids]]
    /\ dirty' = IF Active = {} THEN dirty ELSE Names
    /\ UNCHANGED <<disk, tmp, wire, clock, kills>>

\* list_priced_fixtures raises or finds nothing: the sport is skipped.
IngestNothing(r) ==
    /\ run[r].pc = "ingest"
    /\ run' = [run EXCEPT ![r] = Idle]
    /\ UNCHANGED <<disk, tmp, wire, clock, faults, kills, dirty>>

\* It returns some fixtures, and the run takes its `now`.
Ingest(r, ms) ==
    /\ run[r].pc = "ingest"
    /\ ms # {}
    /\ clock < MaxClock
    /\ clock' = clock + 1
    /\ run' = [run EXCEPT ![r] = [@ EXCEPT
                 !.pc = "fixture", !.now = clock + 1, !.listed = ms, !.todo = ms]]
    /\ UNCHANGED <<disk, tmp, wire, faults, kills, dirty>>

-----------------------------------------------------------------------------
(* The fixture loop *)

\* _build_match raises: the fixture is passed over.
BuildFails(r, m) ==
    /\ run[r].pc = "fixture"
    /\ m \in run[r].todo
    /\ run' = [run EXCEPT ![r] = [@ EXCEPT !.todo = run[r].todo \ {m}]]
    /\ UNCHANGED <<disk, tmp, wire, clock, faults, kills, dirty>>

Build(r, m) ==
    /\ run[r].pc = "fixture"
    /\ m \in run[r].todo
    /\ run' = [run EXCEPT ![r] =
                 Writing([@ EXCEPT !.todo = run[r].todo \ {m}], m, LiveBody(@.now))]
    /\ UNCHANGED <<disk, tmp, wire, clock, faults, kills, dirty>>

\* _try_enqueue: it never raises; without an open outbox it does nothing.
TryEnqueue(r, m, b) ==
    \/ /\ run[r].push
       /\ wire' = [wire EXCEPT ![m] = b]
       /\ dirty' = Cleaned(r, m)
       /\ UNCHANGED faults
    \/ /\ run[r].push
       /\ Fault
       /\ dirty' = dirty \cup {m}
       /\ UNCHANGED wire
    \/ /\ ~run[r].push
       /\ dirty' = dirty \cup {m}
       /\ UNCHANGED <<wire, faults>>

EnqueueLive(r) ==
    /\ run[r].pc = "enqueue"
    /\ TryEnqueue(r, run[r].name, run[r].body)
    /\ run' = [run EXCEPT ![r] = [@ EXCEPT
                 !.pc = "fixture", !.done = run[r].done \cup {run[r].name}]]
    /\ UNCHANGED <<disk, tmp, clock, kills>>

\* The loop is over: write_index when anything was published, and detection.
EndFixtures(r) ==
    /\ run[r].pc = "fixture"
    /\ run[r].todo = {}
    /\ LET s == [run[r] EXCEPT !.pc = "detect", !.gone = Missing(run[r])]
       IN run' = [run EXCEPT ![r] =
                    IF s.done # {} THEN Writing(s, Index, IndexBody(s.now, IndexIds(s))) ELSE s]
    /\ UNCHANGED <<disk, tmp, wire, clock, faults, kills, dirty>>

-----------------------------------------------------------------------------
(* _atomic_write, twice per file: the json and the etag.                   *)

WriteTmp(r) ==
    /\ run[r].pc = "write"
    /\ ~run[r].opened
    /\ tmp' = [tmp EXCEPT ![run[r].name][run[r].part] = run[r].body]
    /\ run' = [run EXCEPT ![r] = [@ EXCEPT !.opened = TRUE]]
    /\ UNCHANGED <<disk, wire, clock, faults, kills, dirty>>

\* Where a run goes on when write_match or write_index returns.
Written(s) ==
    CASE s.body.state = "live"      -> [s EXCEPT !.pc = "enqueue"]
      [] s.body.state = "index"     -> [s EXCEPT !.pc = "detect"]
      [] OTHER                      -> [s EXCEPT !.pc = "detect", !.out = @ \cup {s.name}]

\* What lies in the .tmp file by now, even another run's body, gets the name.
Rename(r) ==
    LET s == run[r] IN
    /\ s.pc = "write" /\ s.opened
    /\ tmp[s.name][s.part] # Absent
    /\ disk' = [disk EXCEPT ![s.name][s.part] = tmp[s.name][s.part]]
    /\ tmp' = [tmp EXCEPT ![s.name][s.part] = Absent]
    /\ run' = [run EXCEPT ![r] =
                 IF LastPart(s.name, s.part)
                 THEN Written(s)
                 ELSE [s EXCEPT !.part = "etag", !.opened = FALSE]]
    /\ dirty' = IF s.name = Index /\ LastPart(s.name, s.part) THEN Cleaned(r, Index) ELSE dirty
    /\ UNCHANGED <<wire, clock, faults, kills>>

\* The write raises: a fixture or a withdrawal is passed over, but the index
\* is written outside any handler and ends the run.
WriteRaises(r) ==
    LET s == run[r] IN
    /\ run' = [run EXCEPT ![r] =
                 CASE s.body.state = "live"  -> [s EXCEPT !.pc = "fixture"]
                   [] s.body.state = "index" -> Idle
                   [] OTHER                  -> [s EXCEPT !.pc = "detect"]]
    /\ dirty' = dirty \cup (IF s.body.state = "index" THEN Touched(s) ELSE {s.name})
    /\ UNCHANGED <<disk, tmp, wire, clock, kills>>

WriteFault(r) ==
    /\ run[r].pc = "write"
    /\ Fault
    /\ WriteRaises(r)

\* Another run has renamed the .tmp file meanwhile.
RenameLost(r) ==
    /\ run[r].pc = "write" /\ run[r].opened
    /\ tmp[run[r].name][run[r].part] = Absent
    /\ UNCHANGED faults
    /\ WriteRaises(r)

-----------------------------------------------------------------------------
(* detect_and_emit, then the withdrawn bodies are enqueued.                *)

Withdraw(r, m) ==
    /\ run[r].pc = "detect"
    /\ m \in run[r].gone
    /\ disk[m].json.state = "live"
    /\ run' = [run EXCEPT ![r] =
                 Writing([@ EXCEPT !.gone = run[r].gone \ {m}], m, WithdrawnBody(@.now))]
    /\ UNCHANGED <<disk, tmp, wire, clock, faults, kills, dirty>>

\* The file is withdrawn already (or missing, which IndexedFilesExist excludes).
SkipWithdraw(r, m) ==
    /\ run[r].pc = "detect"
    /\ m \in run[r].gone
    /\ disk[m].json.state # "live"
    /\ run' = [run EXCEPT ![r] = [@ EXCEPT !.gone = run[r].gone \ {m}]]
    /\ UNCHANGED <<disk, tmp, wire, clock, faults, kills, dirty>>

\* read_match raises anything but FileNotFoundError: detection is given up,
\* and what it has withdrawn so far is not returned, hence not enqueued.
DetectFails(r) ==
    /\ run[r].pc = "detect"
    /\ run[r].gone # {}
    /\ Fault
    /\ dirty' = dirty \cup run[r].gone \cup run[r].out
    /\ run' = [run EXCEPT ![r] = Idle]
    /\ UNCHANGED <<disk, tmp, wire, clock, kills>>

EndDetect(r) ==
    /\ run[r].pc = "detect"
    /\ run[r].gone = {}
    /\ run' = [run EXCEPT ![r] = [@ EXCEPT !.pc = "push", !.out = ToPush(run[r])]]
    /\ UNCHANGED <<disk, tmp, wire, clock, faults, kills, dirty>>

EnqueueWithdrawn(r, m) ==
    /\ run[r].pc = "push"
    /\ m \in run[r].out
    /\ TryEnqueue(r, m, WithdrawnBody(run[r].now))
    /\ run' = [run EXCEPT ![r] = [@ EXCEPT !.out = run[r].out \ {m}]]
    /\ UNCHANGED <<disk, tmp, clock, kills>>

End(r) ==
    /\ run[r].pc = "push"
    /\ run[r].out = {}
    /\ run' = [run EXCEPT ![r] = Idle]
    /\ UNCHANGED <<disk, tmp, wire, clock, faults, kills, dirty>>

\* The timeout of the loop that launched it, or a redeploy.
Kill(r) ==
    /\ run[r] # Idle
    /\ kills < MaxKills
    /\ kills' = kills + 1
    /\ dirty' = dirty \cup Touched(run[r])
    /\ run' = [run EXCEPT ![r] = Idle]
    /\ UNCHANGED <<disk, tmp, wire, clock, faults>>

Write(r) == WriteTmp(r) \/ Rename(r) \/ WriteFault(r) \/ RenameLost(r)

Step(r) ==
    \/ Start(r)
    \/ IngestNothing(r)
    \/ \E ms \in SUBSET Matches : Ingest(r, ms)
    \/ \E m \in Matches :
         \/ BuildFails(r, m)
         \/ Build(r, m)
         \/ Withdraw(r, m)
         \/ SkipWithdraw(r, m)
         \/ EnqueueWithdrawn(r, m)
    \/ EnqueueLive(r)
    \/ EndFixtures(r)
    \/ Write(r)
    \/ DetectFails(r)
    \/ EndDetect(r)
    \/ End(r)
    \/ Kill(r)

Next == \E r \in Runs : Step(r) /\ met' = Meeting(r)

Spec == Init /\ [][Next]_vars

-----------------------------------------------------------------------------
(* Properties *)

Quiet == Active = {}

Live(m) == disk[m].json.state = "live"

\* Every etag is that of the file beside it, once the runs are over and no
\* fault or kill came between the two writes; the next publication heals one.
EtagsAgree ==
    Quiet => \A n \in Names \ dirty : disk[n].etag = disk[n].json

\* What was pushed last for a match is what lies on disk.
DiskIsPushed ==
    Quiet => \A m \in Matches \ dirty : wire[m] = disk[m].json

\* Nothing is left behind: a file that still says pick, pass or avoid is in the
\* index, so that a later run can withdraw it.
LiveIsIndexed ==
    Quiet => \A m \in Matches \ dirty : Live(m) => m \in disk[Index].json.ids

\* "strict-monotonic invariant per match_id" (ADR 0001): the updated_at of the
\* bodies enqueued for a match only grows, also when the write of a live body
\* failed half way and the same run withdrew it.
StreamIsMonotonic ==
    [][\A r \in Active \ met : \A m \in Matches :
         wire'[m] # wire[m] => wire'[m].at > wire[m].at]_vars

\* The index never lists a file that is not there, whatever runs overlap,
\* fail or are killed.
IndexedFilesExist ==
    \A m \in disk[Index].json.ids : disk[m].json # Absent
=============================================================================
