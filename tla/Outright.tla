------------------------------ MODULE Outright ------------------------------
(* The outright of the tournament (desk/outrights/run.py): a run fetches the  *)
(* prices, simulates, writes one json, its etag and an index that lists it,   *)
(* reads the json back and puts it on the outbound wire.  `desk run --once`   *)
(* ends with such a run, the loop's tick then begins another, and an operator *)
(* may begin one at any time; the disk is all they share, and the temporary   *)
(* files have the same names in all of them.                                  *)
(*                                                                            *)
(* What a run writes is identified by the updated_at it stamps it with, in    *)
(* all three files: the etag is a hash of the payload, the index repeats its  *)
(* verdict.                                                                   *)
EXTENDS Naturals

CONSTANTS
    Runs,        \* processes that may run at the same time
    MaxPayloads, \* bound: payloads built
    MaxFaults,   \* bound: writes that raise, enqueues that fail
    MaxKills     \* bound: runs killed

OutrightAssumption == {MaxPayloads, MaxFaults, MaxKills} \subseteq Nat

VARIABLES
    disk,     \* per file: the payload it is of
    tmp,      \* per file: the same of its .tmp, Nothing if there is none
    wire,     \* the payload enqueued last
    proc,     \* the runs under way
    built,    \* payloads built so far
    faults, kills,
    \* Observed, for the property only:
    whole     \* the files were last written by a run that met no other, to its end

vars == <<disk, tmp, wire, proc, built, faults, kills, whole>>

-----------------------------------------------------------------------------
Files == {"json", "etag", "index"}
Nothing == 0
Payloads == 0 .. MaxPayloads

Idle == [pc |-> "idle", file |-> "json", body |-> Nothing, met |-> FALSE]

TypeOK ==
    /\ disk \in [Files -> Payloads] /\ tmp \in [Files -> Payloads]
    /\ wire \in Payloads
    /\ proc \in [Runs -> [pc : {"idle", "simulate", "write", "rename", "read", "enqueue"},
                          file : Files, body : Payloads, met : BOOLEAN]]
    /\ built \in Payloads /\ faults \in 0 .. MaxFaults /\ kills \in 0 .. MaxKills
    /\ whole \in BOOLEAN

Active == {r \in Runs : proc[r].pc # "idle"}

Init ==
    /\ disk = [f \in Files |-> Nothing] /\ tmp = [f \in Files |-> Nothing]
    /\ wire = Nothing
    /\ proc = [r \in Runs |-> Idle]
    /\ built = 0 /\ faults = 0 /\ kills = 0
    /\ whole = TRUE

\* write, then write_index; then the run goes on to the wire.
After(s) ==
    CASE s.file = "json"  -> [s EXCEPT !.pc = "write", !.file = "etag"]
      [] s.file = "etag"  -> [s EXCEPT !.pc = "write", !.file = "index"]
      [] s.file = "index" -> [s EXCEPT !.pc = "read"]

End(r) == proc' = [proc EXCEPT ![r] = Idle]

-----------------------------------------------------------------------------
\* run_once: the prices are fetched.  (If that raises, nothing has changed.)
Fetch(r) ==
    /\ proc[r].pc = "idle" /\ built < MaxPayloads
    /\ proc' = [q \in Runs |->
                  IF q = r THEN [Idle EXCEPT !.pc = "simulate", !.met = Active # {}]
                  ELSE [proc[q] EXCEPT !.met = @ \/ q \in Active]]
    /\ UNCHANGED <<disk, tmp, wire, built, faults, kills, whole>>

\* The model and the verdict, and build_payload, which stamps the payload.
Simulate(r) ==
    /\ proc[r].pc = "simulate" /\ built < MaxPayloads
    /\ built' = built + 1
    /\ proc' = [proc EXCEPT ![r].pc = "write", ![r].body = built + 1]
    /\ UNCHANGED <<disk, tmp, wire, faults, kills, whole>>

\* _atomic_write: the temporary file, whatever it held,
WriteTmp(r) ==
    /\ proc[r].pc = "write"
    /\ tmp' = [tmp EXCEPT ![proc[r].file] = proc[r].body]
    /\ proc' = [proc EXCEPT ![r].pc = "rename"]
    /\ UNCHANGED <<disk, wire, built, faults, kills, whole>>

\* and the rename, which raises if another run has taken the file: the run ends there.
Rename(r) ==
    LET f == proc[r].file IN
    /\ proc[r].pc = "rename"
    /\ IF tmp[f] = Nothing
       THEN End(r) /\ UNCHANGED <<disk, tmp, whole>>
       ELSE /\ disk' = [disk EXCEPT ![f] = tmp[f]]
            /\ tmp' = [tmp EXCEPT ![f] = Nothing]
            /\ proc' = [proc EXCEPT ![r] = After(@)]
            /\ whole' = FALSE
    /\ UNCHANGED <<wire, built, faults, kills>>

\* A write raises: no handler of the run catches it.
WriteFails(r) ==
    /\ proc[r].pc \in {"write", "rename"}
    /\ faults < MaxFaults
    /\ faults' = faults + 1
    /\ End(r)
    /\ UNCHANGED <<disk, tmp, wire, built, kills, whole>>

\* The payload is built again, and stamped again.
ReadBack_Rebuilds(r) ==
    /\ proc[r].pc = "read" /\ built < MaxPayloads
    /\ built' = built + 1
    /\ proc' = [proc EXCEPT ![r].pc = "enqueue", ![r].body = built + 1]
    /\ UNCHANGED <<disk, tmp, wire, faults, kills, whole>>

\* _try_distribute reads the json back, even another run's,
ReadBack(r) ==
    /\ proc[r].pc = "read"
    /\ proc' = [proc EXCEPT ![r].pc = "enqueue", ![r].body = disk["json"]]
    /\ UNCHANGED <<disk, tmp, wire, built, faults, kills, whole>>

\* and enqueues it: the row of the outright is inserted or replaced.
Enqueue(r) ==
    /\ proc[r].pc = "enqueue"
    /\ wire' = proc[r].body
    /\ End(r)
    /\ whole' = ~proc[r].met
    /\ UNCHANGED <<disk, tmp, built, faults, kills>>

\* Without an outbox, with a body that is too large, with a database that is locked: a
\* failure of the wire is logged, and the run is over.
NotEnqueued(r) ==
    /\ proc[r].pc \in {"read", "enqueue"}
    /\ faults < MaxFaults
    /\ faults' = faults + 1
    /\ End(r)
    /\ UNCHANGED <<disk, tmp, wire, built, kills, whole>>

\* The timeout of the tick, or a deploy.
Kill(r) ==
    /\ proc[r].pc # "idle" /\ kills < MaxKills
    /\ kills' = kills + 1
    /\ End(r)
    /\ UNCHANGED <<disk, tmp, wire, built, faults, whole>>

\* The bounds, not an end of the system.
Horizon == built = MaxPayloads /\ UNCHANGED vars

Next ==
    \/ \E r \in Runs :
         Fetch(r) \/ Simulate(r) \/ WriteTmp(r) \/ Rename(r) \/ WriteFails(r) \/ ReadBack(r)
           \/ Enqueue(r) \/ NotEnqueued(r) \/ Kill(r)
    \/ Horizon

Spec == Init /\ [][Next]_vars

-----------------------------------------------------------------------------
\* "the wire body is byte-faithful to what was published" (outrights/run.py:228-230), and
\* the etag and the index are of the same payload: so it is after every run that met no
\* other, up to the next one that touches a file, whatever killed, failed and crossing runs
\* had left on disk, in the temporary files and on the wire before it.
OutrightHeals == whole => \A f \in Files : disk[f] = wire
=============================================================================
