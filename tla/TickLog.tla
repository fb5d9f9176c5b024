------------------------------ MODULE TickLog ------------------------------
(* What a refresh tick leaves in the operations log: the reports of its run  *)
(* and the manifest of reports (ops/recorder.py), the cost of its model      *)
(* calls (ops/cost.py), and the row that joins the two                       *)
(* (desk_refresh_loop.py). The loop's tick and the ticks of run-now write    *)
(* the same files. Ids are the second in which a tick or a run began.        *)
EXTENDS Naturals, FiniteSets, Sequences

CONSTANTS
    Tickers,    \* the loop, and manual ticks: each does one tick at a time
    Retention,  \* DESK_OPS_RETENTION, at least 1
    MaxSec,     \* bound: seconds
    MaxTicks,   \* bound: ticks
    MaxCalls    \* bound: model calls of one tick id

TickLogAssumption ==
    /\ Retention \in Nat \ {0}
    /\ {MaxSec, MaxTicks, MaxCalls} \subseteq Nat

VARIABLES
    sec,        \* the current second
    begun,      \* ticks begun so far
    ended,      \* runs that finished so far: the order of finished_at
    reports,    \* runs/*.json: run id -> when it finished
    index,      \* index.json, in the same form
    tmp,        \* index.json.tmp, or NoFile
    costs,      \* costs.jsonl: tick id -> calls paid for
    totals,     \* tick-totals.jsonl
    tick,       \* the tick each ticker is in
    \* Observed, for the properties only:
    sound       \* the manifest was last rebuilt by a run that no other interfered with

vars == <<sec, begun, ended, reports, index, tmp, costs, totals, tick, sound>>

-----------------------------------------------------------------------------
Ids == 0 .. MaxSec
NoRun == MaxSec + 1
NoFile == [i \in {NoRun} |-> 0]

Empty == [i \in {} |-> 0]
IsFiles(f) == DOMAIN f \subseteq Ids /\ \A i \in DOMAIN f : f[i] \in 1 .. MaxTicks

Keep(f, S) == [i \in DOMAIN f \cap S |-> f[i]]

\* The stages of a tick: the run inside its subprocess, the four steps of persist,
\* then the other subprocesses.
Persisting == {"scan", "write", "rename", "prune"}
Stages == {"idle", "run", "rest"} \cup Persisting

Idle == [pc |-> "idle", id |-> 0, seen |-> Empty, pruned |-> FALSE,
         listed |-> FALSE, disturbed |-> FALSE]

TypeOK ==
    /\ sec \in Ids /\ begun \in 0 .. MaxTicks /\ ended \in 0 .. MaxTicks
    /\ IsFiles(reports) /\ IsFiles(index) /\ (tmp = NoFile \/ IsFiles(tmp))
    /\ costs \in [Ids -> 0 .. MaxCalls]
    /\ \A t \in Tickers : tick[t].pc \in Stages /\ tick[t].id \in Ids /\ IsFiles(tick[t].seen)

Init ==
    /\ sec = 0 /\ begun = 0 /\ ended = 0
    /\ reports = Empty /\ index = Empty /\ tmp = NoFile
    /\ costs = [i \in Ids |-> 0]
    /\ totals = << >>
    /\ tick = [t \in Tickers |-> Idle]
    /\ sound = TRUE

-----------------------------------------------------------------------------
(* Every other tick in flight notices what this one does to shared files.    *)
Disturb(t, others) ==
    [u \in Tickers |->
        IF u \in others \ {t} /\ tick[u].pc # "idle"
        THEN [tick[u] EXCEPT !.disturbed = TRUE] ELSE tick[u]]

Goto(t, pc) == tick' = [tick EXCEPT ![t].pc = pc]

\* _tick: a tick id and, in its first subprocess, a run id of the same second.
Begin(t) ==
    LET same == {u \in Tickers : tick[u].pc # "idle" /\ tick[u].id = sec} IN
    /\ tick[t].pc = "idle" /\ begun < MaxTicks
    /\ begun' = begun + 1
    /\ tick' = [Disturb(t, same) EXCEPT
                  ![t] = [Idle EXCEPT !.pc = "run", !.id = sec, !.disturbed = same # {}]]
    /\ UNCHANGED <<sec, ended, reports, index, tmp, costs, totals, sound>>

\* log_call, in the run and in the extraction of signals after it.
Call(t) ==
    /\ tick[t].pc \in {"run", "rest"} /\ costs[tick[t].id] < MaxCalls
    /\ costs' = [costs EXCEPT ![tick[t].id] = @ + 1]
    /\ UNCHANGED <<sec, begun, ended, reports, index, tmp, totals, tick, sound>>

\* The run ends and persist writes its report.
Report(t) ==
    /\ tick[t].pc = "run"
    /\ ended' = ended + 1
    /\ reports' = [i \in DOMAIN reports \cup {tick[t].id} |->
                     IF i = tick[t].id THEN ended + 1 ELSE reports[i]]
    /\ tick' = [Disturb(t, Tickers) EXCEPT
                  ![t].pc = "scan",
                  ![t].disturbed = @ \/ \E u \in Tickers \ {t} : tick[u].pc \in Persisting]
    /\ sound' = FALSE
    /\ UNCHANGED <<sec, begun, index, tmp, costs, totals>>

\* Faulty: the manifest gets the row of this run, and is not rebuilt.
Manifest_Patched(t) ==
    [i \in DOMAIN index \cup {tick[t].id} |-> IF i = tick[t].id THEN ended ELSE index[i]]

\* _refresh_manifest reads every report on disk,
Manifest(t) == reports

Scan(t) ==
    /\ tick[t].pc = "scan"
    /\ tick' = [tick EXCEPT ![t].pc = "write", ![t].seen = Manifest(t)]
    /\ UNCHANGED <<sec, begun, ended, reports, index, tmp, costs, totals, sound>>

\* writes the temporary file, which all runs share,
WriteTmp(t) ==
    /\ tick[t].pc = "write"
    /\ tmp' = tick[t].seen
    /\ tick' = [tick EXCEPT ![t].pc = "rename", ![t].seen = Empty]
    /\ UNCHANGED <<sec, begun, ended, reports, index, costs, totals, sound>>

\* and renames it: the rename raises, out of persist, if another run has taken the file.
Rename(t) ==
    /\ tick[t].pc = "rename"
    /\ IF tmp = NoFile
       THEN /\ Goto(t, "rest")
            /\ UNCHANGED <<index, tmp, sound>>
       ELSE /\ index' = tmp /\ tmp' = NoFile
            /\ tick' = [Disturb(t, Tickers) EXCEPT
                          ![t].pc = IF tick[t].pruned THEN "rest" ELSE "prune",
                          ![t].listed = TRUE]
            /\ sound' = (tick[t].pruned /\ ~tick[t].disturbed)
    /\ UNCHANGED <<sec, begun, ended, reports, costs, totals>>

\* The newest Retention reports, by name.
Newest(n) == {i \in DOMAIN reports : Cardinality({j \in DOMAIN reports : j > i}) < n}

\* _prune: the manifest is rebuilt only if something was removed.
Prune(t) ==
    /\ tick[t].pc = "prune"
    /\ reports' = Keep(reports, Newest(Retention))
    /\ IF reports' = reports
       THEN /\ Goto(t, "rest") /\ sound' = ~tick[t].disturbed
       ELSE /\ tick' = [tick EXCEPT ![t].pc = "scan", ![t].pruned = TRUE] /\ sound' = FALSE
    /\ UNCHANGED <<sec, begun, ended, index, tmp, costs, totals>>

\* The subprocess of the run raises, exits or is killed by its timeout, wherever it is.
Fail(t) ==
    /\ tick[t].pc \in {"run"} \cup Persisting
    /\ Goto(t, "rest")
    /\ UNCHANGED <<sec, begun, ended, reports, index, tmp, costs, totals, sound>>

-----------------------------------------------------------------------------
NewestOf(f) == CHOOSE i \in DOMAIN f : \A j \in DOMAIN f : f[j] <= f[i]
LastName(S) == CHOOSE i \in S : \A j \in S : j <= i

\* Faulty: the last row of the manifest.
LatestRun_Last ==
    IF DOMAIN index # {} THEN CHOOSE i \in DOMAIN index : \A j \in DOMAIN index : index[i] <= index[j]
    ELSE NoRun

\* _latest_run_id: the first row of the manifest, else the last file name.
LatestRun ==
    CASE DOMAIN index # {} -> NewestOf(index)
      [] DOMAIN index = {} /\ DOMAIN reports # {} -> LastName(DOMAIN reports)
      [] OTHER -> NoRun

\* The end of _tick: sum the rows of this tick id, name the latest run, append. A tick
\* launches three interpreters or more: it outlasts the second in which it began.
Total(t) ==
    /\ tick[t].pc = "rest" /\ tick[t].id < sec
    /\ totals' = Append(totals,
                   [id |-> tick[t].id, run |-> LatestRun, calls |-> costs[tick[t].id],
                    clean |-> tick[t].listed /\ ~tick[t].disturbed])
    /\ tick' = [tick EXCEPT ![t] = Idle]
    /\ UNCHANGED <<sec, begun, ended, reports, index, tmp, costs, sound>>

Second ==
    /\ sec < MaxSec
    /\ sec' = sec + 1
    /\ UNCHANGED <<begun, ended, reports, index, tmp, costs, totals, tick, sound>>

\* The bounds, not an end of the system.
Horizon ==
    /\ sec = MaxSec /\ \A t \in Tickers : tick[t].pc \in {"idle", "rest"}
    /\ UNCHANGED vars

Next ==
    \/ \E t \in Tickers :
         Begin(t) \/ Call(t) \/ Report(t) \/ Scan(t) \/ WriteTmp(t) \/ Rename(t)
           \/ Prune(t) \/ Fail(t) \/ Total(t)
    \/ Second
    \/ Horizon

Spec == Init /\ [][Next]_vars

-----------------------------------------------------------------------------
\* _load_tick_totals_by_run_id (desk_ops_api.py): the last row of a run is shown.
Shown(run) ==
    LET rows == {i \in DOMAIN totals : totals[i].run = run}
    IN  totals[CHOOSE i \in rows : \A j \in rows : j <= i]

\* The dashboard's cost column: the run of a tick shows what that tick paid for, if its
\* report reached the manifest and no other tick shared its id or persisted a report
\* before its row was written; later rows that are not of this kind may replace it.
CostIsOfItsRun ==
    \A i \in DOMAIN totals :
        totals[i].clean =>
            /\ totals[i].run = totals[i].id
            /\ LET last == Shown(totals[i].id)
               IN  last.clean => last.calls = costs[last.id]

\* "the manifest always matches what's actually persisted" (ops/recorder.py:79-80):
\* so it does after any run that persisted alone, whatever failures, kills and
\* overlapping runs left behind before it.
ManifestHeals ==
    sound => /\ index = reports
             /\ Cardinality(DOMAIN reports) <= Retention
=============================================================================
