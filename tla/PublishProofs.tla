---------------------------- MODULE PublishProofs ---------------------------
(***************************************************************************)
(* Theorems about the files and the wire that `desk run --once` leaves,    *)
(* for any number of matches, overlapping runs, faults and kills: those of *)
(* a sport (Publish) and of the outright (Outright), which MCPublish puts  *)
(* side by side.                                                           *)
(***************************************************************************)
EXTENDS MCPublish, TLAPS

-----------------------------------------------------------------------------
(* Types                                                                   *)

LEMMA BodyTypes ==
    /\ Absent \in Body
    /\ \A t \in Nat : LiveBody(t) \in Body /\ WithdrawnBody(t) \in Body
    /\ \A t \in Nat : \A ids \in SUBSET Matches : IndexBody(t, ids) \in Body
  BY DEF Absent, LiveBody, WithdrawnBody, IndexBody, Body

LEMMA IdleType == Idle \in RunState
  BY BodyTypes DEF Idle, RunState, Names, Parts

LEMMA WritingType ==
    ASSUME NEW s \in RunState, NEW n \in Names, NEW b \in Body
    PROVE  Writing(s, n, b) \in RunState
  BY DEF Writing, RunState, Parts

-----------------------------------------------------------------------------
(* What holds of a run by itself: its variables have their types, and only   *)
(* the index is not the file of a match.                                     *)

Fits(s) ==
    /\ s \in RunState
    /\ s.pc = "write" => s.name \in Matches \/ s.body.state = "index"
    /\ s.pc = "enqueue" => s.name \in Matches

TypeInv == TypeOK /\ \A r \in Runs : Fits(run[r])

LEMMA RunFields ==
    ASSUME NEW s \in RunState
    PROVE  /\ s.prior \subseteq Matches /\ s.push \in BOOLEAN /\ s.now \in Nat
           /\ s.listed \subseteq Matches /\ s.todo \subseteq Matches
           /\ s.done \subseteq Matches /\ s.gone \subseteq Matches
           /\ s.out \subseteq Matches /\ s.name \in Names /\ s.body \in Body
           /\ s.part \in Parts /\ s.opened \in BOOLEAN
  BY DEF RunState

LEMMA IdleFits == Fits(Idle)
<1>1. Idle.pc = "idle"
  BY DEF Idle
<1>2. QED
  BY <1>1, IdleType DEF Fits

LEMMA WritingFits ==
    ASSUME NEW s \in RunState, NEW n \in Names, NEW b \in Body,
           n \in Matches \/ b.state = "index"
    PROVE  Fits(Writing(s, n, b))
<1>1. LET w == Writing(s, n, b) IN w.pc = "write" /\ w.name = n /\ w.body = b
  BY DEF Writing, RunState
<1>2. QED
  BY <1>1, WritingType DEF Fits

\* A step of run r that leaves files, wire and history with their types.
LEMMA TypeOfStep ==
    ASSUME TypeInv, NEW r \in Runs, NEW s, Fits(s),
           run' = [run EXCEPT ![r] = s],
           disk' \in [Names -> [Parts -> Body]], tmp' \in [Names -> [Parts -> Body]],
           wire' \in [Matches -> Body],
           clock' \in 0 .. MaxClock, faults' \in 0 .. MaxFaults, kills' \in 0 .. MaxKills,
           dirty' \in SUBSET Names, met' \in SUBSET Runs
    PROVE  TypeInv'
<1>1. run' \in [Runs -> RunState]
  BY DEF TypeInv, TypeOK, Fits
<1>2. \A q \in Runs : Fits(run'[q])
  BY DEF TypeInv, TypeOK
<1>3. QED
  BY <1>1, <1>2 DEF TypeInv, TypeOK

LEMMA TypeOfLocalStep ==
    ASSUME TypeInv, NEW r \in Runs, NEW s, Fits(s),
           run' = [run EXCEPT ![r] = s], met' \in SUBSET Runs,
           UNCHANGED <<disk, tmp, wire, clock, faults, kills, dirty>>
    PROVE  TypeInv'
  BY TypeOfStep DEF TypeInv, TypeOK

LEMMA TypeInit == Init => TypeInv
<1> SUFFICES ASSUME Init PROVE TypeInv
  OBVIOUS
<1>1. NoFiles \in [Parts -> Body]
  BY BodyTypes DEF NoFiles
<1>2. QED
  BY <1>1, BodyTypes, IdleFits, IdleType, PublishAssumption DEF Init, TypeInv, TypeOK

LEMMA FaultType == ASSUME TypeOK, Fault PROVE faults' \in 0 .. MaxFaults
  BY PublishAssumption DEF TypeOK, Fault

LEMMA TypeIngest ==
    ASSUME TypeInv, NEW r \in Runs, met' \in SUBSET Runs,
           Start(r) \/ IngestNothing(r) \/ \E ms \in SUBSET Matches : Ingest(r, ms)
    PROVE  TypeInv'
<1>0. run[r] \in RunState /\ disk[Index].json \in Body /\ clock \in 0 .. MaxClock
  BY DEF TypeInv, TypeOK, Names, Parts
<1>1. CASE Start(r)
  <2>1. PICK opens \in BOOLEAN :
          /\ IF opens THEN UNCHANGED faults ELSE Fault
          /\ run' = [run EXCEPT ![r] = [Idle EXCEPT
                      !.pc = "ingest", !.push = opens, !.prior = disk[Index].json.ids]]
    BY <1>1 DEF Start
  <2> DEFINE s == [Idle EXCEPT !.pc = "ingest", !.push = opens, !.prior = disk[Index].json.ids]
  <2>2. s \in RunState
    BY <1>0, IdleType DEF RunState, Body
  <2>3. s.pc = "ingest"
    BY DEF Idle
  <2>4. Fits(s)
    BY <2>2, <2>3 DEF Fits
  <2>5. faults' \in 0 .. MaxFaults
    BY <2>1, FaultType DEF TypeInv, TypeOK
  <2>6. dirty' \in SUBSET Names
    BY <1>1 DEF Start, TypeInv, TypeOK
  <2>7. QED
    BY <1>1, <2>1, <2>4, <2>5, <2>6, TypeOfStep DEF Start, TypeInv, TypeOK
<1>2. CASE IngestNothing(r)
  BY <1>2, IdleFits, TypeOfStep DEF IngestNothing, TypeInv, TypeOK
<1>3. ASSUME NEW ms \in SUBSET Matches, Ingest(r, ms) PROVE TypeInv'
  <2> DEFINE s == [run[r] EXCEPT !.pc = "fixture", !.now = clock + 1,
                                 !.listed = ms, !.todo = ms]
  <2>a. clock < MaxClock
    BY <1>3 DEF Ingest
  <2>1. clock + 1 \in 0 .. MaxClock /\ clock + 1 \in Nat
    BY <1>0, <2>a, PublishAssumption
  <2>2. s \in RunState /\ s.pc = "fixture"
    BY <1>0, <2>1 DEF RunState
  <2>3. Fits(s)
    BY <2>2 DEF Fits
  <2>4. QED
    BY <1>3, <2>1, <2>3, TypeOfStep DEF Ingest, TypeInv, TypeOK
<1>4. QED
  BY <1>1, <1>2, <1>3

LEMMA TryEnqueueType ==
    ASSUME TypeOK, NEW r, NEW m \in Matches, NEW b \in Body, TryEnqueue(r, m, b)
    PROVE  /\ wire' \in [Matches -> Body] /\ dirty' \in SUBSET Names
           /\ faults' \in 0 .. MaxFaults
<1>1. wire' \in [Matches -> Body] /\ dirty' \in SUBSET Names
  BY DEF TypeOK, TryEnqueue, Cleaned, Names
<1>2. Fault \/ UNCHANGED faults
  BY DEF TryEnqueue
<1>3. QED
  BY <1>1, <1>2, FaultType DEF TypeOK

LEMMA TypeFixture ==
    ASSUME TypeInv, NEW r \in Runs, met' \in SUBSET Runs,
           \/ \E m \in Matches : BuildFails(r, m) \/ Build(r, m)
           \/ EnqueueLive(r)
           \/ EndFixtures(r)
    PROVE  TypeInv'
<1>0. TypeOK /\ run[r] \in RunState /\ Fits(run[r])
  BY DEF TypeInv, TypeOK
<1>1. ASSUME NEW m \in Matches, BuildFails(r, m) PROVE TypeInv'
  <2> DEFINE s == [run[r] EXCEPT !.todo = @ \ {m}]
  <2>1. s \in RunState /\ s.pc = "fixture"
    BY <1>0, <1>1 DEF RunState, BuildFails
  <2>2. Fits(s)
    BY <2>1 DEF Fits
  <2>3. run' = [run EXCEPT ![r] = s]
    BY <1>1 DEF BuildFails
  <2>4. QED
    BY <1>1, <2>2, <2>3, TypeOfLocalStep DEF BuildFails
<1>2. ASSUME NEW m \in Matches, Build(r, m) PROVE TypeInv'
  <2> DEFINE t == [run[r] EXCEPT !.todo = @ \ {m}]
  <2>1. t \in RunState /\ LiveBody(run[r].now) \in Body /\ m \in Names
    BY <1>0, RunFields, BodyTypes DEF RunState, Names
  <2>2. Fits(Writing(t, m, LiveBody(run[r].now)))
    BY <2>1, WritingFits
  <2>3. run' = [run EXCEPT ![r] = Writing(t, m, LiveBody(run[r].now))]
    BY <1>2 DEF Build
  <2>4. QED
    BY <1>2, <2>2, <2>3, TypeOfLocalStep DEF Build
<1>3. CASE EnqueueLive(r)
  <2> DEFINE s == [run[r] EXCEPT !.pc = "fixture", !.done = @ \cup {run[r].name}]
  <2>1. run[r].name \in Matches /\ run[r].body \in Body
    BY <1>0, <1>3, RunFields DEF Fits, EnqueueLive
  <2>2. s \in RunState /\ s.pc = "fixture"
    BY <1>0, <2>1 DEF RunState
  <2>3. Fits(s)
    BY <2>2 DEF Fits
  <2>4. /\ wire' \in [Matches -> Body] /\ dirty' \in SUBSET Names
        /\ faults' \in 0 .. MaxFaults
    BY <1>0, <1>3, <2>1, TryEnqueueType DEF EnqueueLive
  <2>5. run' = [run EXCEPT ![r] = s] /\ UNCHANGED <<disk, tmp, clock, kills>>
    BY <1>3 DEF EnqueueLive
  <2> HIDE DEF s
  <2>6. QED
    BY <1>0, <2>3, <2>4, <2>5, TypeOfStep DEF TypeOK
<1>4. CASE EndFixtures(r)
  <2> DEFINE t == [run[r] EXCEPT !.pc = "detect", !.gone = Missing(run[r])]
             b == IndexBody(t.now, IndexIds(t))
  <2>1. t \in RunState /\ t.pc = "detect"
    BY <1>0, RunFields DEF RunState, Missing
  <2>2. b \in Body /\ b.state = "index" /\ Index \in Names
    BY <2>1, RunFields, BodyTypes DEF IndexIds, IndexBody, Names
  <2>3. Fits(t) /\ Fits(Writing(t, Index, b))
    BY <2>1, <2>2, WritingFits DEF Fits
  <2>4. Fits(IF t.done # {} THEN Writing(t, Index, b) ELSE t)
    BY <2>3
  <2>5. run' = [run EXCEPT ![r] = IF t.done # {} THEN Writing(t, Index, b) ELSE t]
    BY <1>4 DEF EndFixtures
  <2>6. QED
    BY <1>4, <2>4, <2>5, TypeOfStep DEF EndFixtures, TypeInv, TypeOK
<1>5. QED
  BY <1>1, <1>2, <1>3, <1>4

LEMMA WrittenFits ==
    ASSUME NEW s \in RunState, s.name \in Matches \/ s.body.state = "index"
    PROVE  Fits(Written(s))
<1>1. CASE s.body.state = "live"
  <2>1. Written(s) = [s EXCEPT !.pc = "enqueue"]
    BY <1>1 DEF Written
  <2>2. [s EXCEPT !.pc = "enqueue"] \in RunState
    BY DEF RunState
  <2>3. [s EXCEPT !.pc = "enqueue"].name = s.name /\ [s EXCEPT !.pc = "enqueue"].pc = "enqueue"
    BY DEF RunState
  <2>4. QED
    BY <1>1, <2>1, <2>2, <2>3 DEF Fits
<1>2. CASE s.body.state = "index"
  <2>1. Written(s) = [s EXCEPT !.pc = "detect"]
    BY <1>2 DEF Written
  <2>2. [s EXCEPT !.pc = "detect"] \in RunState /\ [s EXCEPT !.pc = "detect"].pc = "detect"
    BY DEF RunState
  <2>3. QED
    BY <2>1, <2>2 DEF Fits
<1>3. CASE s.body.state \notin {"live", "index"}
  <2> DEFINE w == [s EXCEPT !.pc = "detect", !.out = @ \cup {s.name}]
  <2>1. Written(s) = w
    BY <1>3 DEF Written
  <2>2. w \in RunState /\ w.pc = "detect"
    BY <1>3 DEF RunState
  <2>3. QED
    BY <2>1, <2>2 DEF Fits
<1>4. QED
  BY <1>1, <1>2, <1>3

LEMMA TypeRaises ==
    ASSUME TypeInv, NEW r \in Runs, met' \in SUBSET Runs, WriteRaises(r), faults' \in 0 .. MaxFaults
    PROVE  TypeInv'
<1>0. run[r] \in RunState
  BY DEF TypeInv, TypeOK
<1> DEFINE f == [run[r] EXCEPT !.pc = "fixture"]
           d == [run[r] EXCEPT !.pc = "detect"]
<1>1. f \in RunState /\ f.pc = "fixture" /\ d \in RunState /\ d.pc = "detect"
  BY <1>0 DEF RunState
<1>2. Fits(f) /\ Fits(d)
  BY <1>1 DEF Fits
<1>3. PICK s : Fits(s) /\ run' = [run EXCEPT ![r] = s]
  <2>1. CASE run[r].body.state = "live"
    BY <1>2, <2>1 DEF WriteRaises
  <2>2. CASE run[r].body.state = "index"
    BY <2>2, IdleFits DEF WriteRaises
  <2>3. CASE run[r].body.state \notin {"live", "index"}
    BY <1>2, <2>3 DEF WriteRaises
  <2>4. QED
    BY <2>1, <2>2, <2>3
<1>4. dirty' \in SUBSET Names
  BY <1>0, RunFields DEF TypeInv, TypeOK, WriteRaises, Touched, Names
<1>5. QED
  BY <1>3, <1>4, TypeOfStep DEF WriteRaises, TypeInv, TypeOK

LEMMA TypeWrite ==
    ASSUME TypeInv, NEW r \in Runs, met' \in SUBSET Runs, Write(r)
    PROVE  TypeInv'
<1>0. TypeOK /\ run[r] \in RunState /\ Fits(run[r])
  BY DEF TypeInv, TypeOK
<1>f. /\ run[r].name \in Names /\ run[r].part \in Parts /\ run[r].body \in Body
  BY <1>0, RunFields
<1>1. CASE WriteTmp(r)
  <2> DEFINE s == [run[r] EXCEPT !.opened = TRUE]
  <2>1. s \in RunState /\ s.pc = run[r].pc /\ s.name = run[r].name /\ s.body = run[r].body
    BY <1>0 DEF RunState
  <2>2. Fits(s)
    BY <1>0, <2>1 DEF Fits
  <2>3. tmp' \in [Names -> [Parts -> Body]]
    BY <1>0, <1>f, <1>1 DEF TypeOK, WriteTmp
  <2>4. QED
    BY <1>1, <2>2, <2>3, TypeOfStep DEF WriteTmp, TypeInv, TypeOK
<1>2. CASE Rename(r)
  <2>1. tmp[run[r].name][run[r].part] \in Body
    BY <1>0, <1>f DEF TypeOK
  <2>2. disk' \in [Names -> [Parts -> Body]] /\ tmp' \in [Names -> [Parts -> Body]]
    BY <1>0, <1>f, <1>2, <2>1, BodyTypes DEF TypeOK, Rename
  <2>3. run[r].name \in Matches \/ run[r].body.state = "index"
    BY <1>0, <1>2 DEF Fits, Rename
  <2> DEFINE t == [run[r] EXCEPT !.part = "etag", !.opened = FALSE]
  <2>4. t \in RunState /\ t.pc = run[r].pc /\ t.name = run[r].name /\ t.body = run[r].body
    BY <1>0 DEF RunState, Parts
  <2>5. Fits(t) /\ Fits(Written(run[r]))
    BY <1>0, <2>3, <2>4, WrittenFits DEF Fits
  <2>6. PICK s : Fits(s) /\ run' = [run EXCEPT ![r] = s]
    BY <1>2, <2>5 DEF Rename
  <2>8. dirty' \in SUBSET Names
    BY <1>0, <1>2 DEF TypeOK, Rename, Cleaned
  <2>9. QED
    BY <1>2, <2>2, <2>6, <2>8, TypeOfStep DEF Rename, TypeInv, TypeOK
<1>3. CASE WriteFault(r)
  BY <1>0, <1>3, FaultType, TypeRaises DEF WriteFault
<1>4. CASE RenameLost(r)
  BY <1>0, <1>4, TypeRaises DEF RenameLost, TypeOK
<1>5. QED
  BY <1>1, <1>2, <1>3, <1>4 DEF Write

LEMMA TouchedType ==
    ASSUME NEW s \in RunState
    PROVE  Touched(s) \subseteq Names /\ s.gone \cup s.out \subseteq Names
  BY RunFields DEF Touched, Names

LEMMA TypeDetect ==
    ASSUME TypeInv, NEW r \in Runs, met' \in SUBSET Runs,
           \/ \E m \in Matches : Withdraw(r, m) \/ SkipWithdraw(r, m) \/ EnqueueWithdrawn(r, m)
           \/ DetectFails(r) \/ EndDetect(r) \/ End(r)
    PROVE  TypeInv'
<1>0. TypeOK /\ run[r] \in RunState /\ WithdrawnBody(run[r].now) \in Body
  BY RunFields, BodyTypes DEF TypeInv, TypeOK
<1>1. ASSUME NEW m \in Matches, Withdraw(r, m) PROVE TypeInv'
  <2> DEFINE t == [run[r] EXCEPT !.gone = run[r].gone \ {m}]
  <2>1. t \in RunState /\ m \in Names
    BY <1>0 DEF RunState, Names
  <2>2. Fits(Writing(t, m, WithdrawnBody(run[r].now)))
    BY <1>0, <2>1, WritingFits
  <2>3. run' = [run EXCEPT ![r] = Writing(t, m, WithdrawnBody(run[r].now))]
    BY <1>1 DEF Withdraw
  <2>4. QED
    BY <1>1, <2>2, <2>3, TypeOfLocalStep DEF Withdraw
<1>2. ASSUME NEW m \in Matches, SkipWithdraw(r, m) PROVE TypeInv'
  <2> DEFINE s == [run[r] EXCEPT !.gone = run[r].gone \ {m}]
  <2>1. s \in RunState /\ s.pc = "detect"
    BY <1>0, <1>2 DEF RunState, SkipWithdraw
  <2>2. Fits(s)
    BY <2>1 DEF Fits
  <2>3. run' = [run EXCEPT ![r] = s]
    BY <1>2 DEF SkipWithdraw
  <2>4. QED
    BY <1>2, <2>2, <2>3, TypeOfLocalStep DEF SkipWithdraw
<1>3. ASSUME NEW m \in Matches, EnqueueWithdrawn(r, m) PROVE TypeInv'
  <2> DEFINE s == [run[r] EXCEPT !.out = run[r].out \ {m}]
  <2>1. s \in RunState /\ s.pc = "push"
    BY <1>0, <1>3 DEF RunState, EnqueueWithdrawn
  <2>2. Fits(s)
    BY <2>1 DEF Fits
  <2>3. /\ wire' \in [Matches -> Body] /\ dirty' \in SUBSET Names
        /\ faults' \in 0 .. MaxFaults
    BY <1>0, <1>3, TryEnqueueType DEF EnqueueWithdrawn
  <2>4. run' = [run EXCEPT ![r] = s] /\ UNCHANGED <<disk, tmp, clock, kills>>
    BY <1>3 DEF EnqueueWithdrawn
  <2> HIDE DEF s
  <2>5. QED
    BY <1>0, <2>2, <2>3, <2>4, TypeOfStep DEF TypeOK
<1>4. CASE DetectFails(r)
  <2>1. dirty' \in SUBSET Names /\ faults' \in 0 .. MaxFaults
    BY <1>0, <1>4, TouchedType, FaultType DEF DetectFails, TypeOK
  <2>2. QED
    BY <1>0, <1>4, <2>1, IdleFits, TypeOfStep DEF DetectFails, TypeOK
<1>5. CASE EndDetect(r)
  <2> DEFINE s == [run[r] EXCEPT !.pc = "push", !.out = ToPush(run[r])]
  <2>1. s \in RunState /\ s.pc = "push"
    BY <1>0, RunFields DEF RunState, ToPush
  <2>2. Fits(s)
    BY <2>1 DEF Fits
  <2>3. run' = [run EXCEPT ![r] = s]
    BY <1>5 DEF EndDetect
  <2>4. QED
    BY <1>5, <2>2, <2>3, TypeOfLocalStep DEF EndDetect
<1>6. CASE End(r)
  BY <1>6, IdleFits, TypeOfLocalStep DEF End
<1>7. QED
  BY <1>1, <1>2, <1>3, <1>4, <1>5, <1>6

LEMMA TypeKill ==
    ASSUME TypeInv, NEW r \in Runs, met' \in SUBSET Runs, Kill(r)
    PROVE  TypeInv'
<1>1. TypeOK /\ run[r] \in RunState
  BY DEF TypeInv, TypeOK
<1>2. kills' \in 0 .. MaxKills
  <2>1. kills < MaxKills /\ kills' = kills + 1
    BY DEF Kill
  <2>2. QED
    BY <1>1, <2>1, PublishAssumption DEF TypeOK
<1>3. dirty' \in SUBSET Names
  BY <1>1, TouchedType DEF Kill, TypeOK
<1>4. QED
  BY <1>1, <1>2, <1>3, IdleFits, TypeOfStep DEF Kill, TypeOK

LEMMA TypeStep == TypeInv /\ [Next]_vars => TypeInv'
<1> SUFFICES ASSUME TypeInv, [Next]_vars PROVE TypeInv'
  OBVIOUS
<1>1. CASE UNCHANGED vars
  BY <1>1 DEF vars, TypeInv, TypeOK
<1>2. ASSUME NEW r \in Runs, Step(r), met' = Meeting(r) PROVE TypeInv'
  <2>1. met' \in SUBSET Runs
    BY <1>2 DEF Meeting, Active, TypeInv, TypeOK
  <2>2. QED
    BY <1>2, <2>1, TypeIngest, TypeFixture, TypeWrite, TypeDetect, TypeKill DEF Step
<1>3. QED
  BY <1>1, <1>2 DEF Next

\* Every variable of the publisher keeps its type, for any number of runs
\* inside run_once at once.
THEOREM TypeCorrect == Spec => []TypeOK
<1>1. TypeInv => TypeOK
  BY DEF TypeInv
<1>2. QED
  BY <1>1, TypeInit, TypeStep, PTL DEF Spec

-----------------------------------------------------------------------------
(* The index lists files that exist: whatever any run will ever put into the *)
(* index, or has put into a .tmp file, is a match whose json exists, and no  *)
(* step removes a json.                                                      *)

Existing == {m \in Matches : disk[m].json # Absent}

\* What a run has published exists in E, and so does the file whose etag it is
\* about to write or whose body it is about to enqueue.
Grounded(s, E) ==
    /\ s.done \subseteq E
    /\ s.body.ids \subseteq E
    /\ (s.name \in Matches /\ (s.pc = "enqueue" \/ (s.pc = "write" /\ s.part = "etag")))
         => s.name \in E

FileInv ==
    /\ \A n \in Names, p \in Parts :
         disk[n][p].ids \subseteq Existing /\ tmp[n][p].ids \subseteq Existing
    /\ \A r \in Runs : Grounded(run[r], Existing)

LEMMA GroundedGrows ==
    ASSUME NEW s, NEW E, NEW F, Grounded(s, E), E \subseteq F
    PROVE  Grounded(s, F)
  BY DEF Grounded

LEMMA IdleGrounded == ASSUME NEW E PROVE Grounded(Idle, E)
<1>1. Idle.done = {} /\ Idle.body.ids = {} /\ Idle.pc = "idle"
  BY DEF Idle, Absent
<1>2. QED
  BY <1>1 DEF Grounded

\* A step that leaves the files alone.
LEMMA FileOfLocalStep ==
    ASSUME TypeInv, FileInv, NEW r \in Runs, NEW s, Grounded(s, Existing),
           run' = [run EXCEPT ![r] = s], UNCHANGED <<disk, tmp>>
    PROVE  FileInv'
<1>1. Existing' = Existing
  BY DEF Existing
<1>2. \A q \in Runs : run'[q] = run[q] \/ run'[q] = s
  BY DEF TypeInv, TypeOK
<1>3. QED
  BY <1>1, <1>2 DEF FileInv

LEMMA FileInit == Init => FileInv
<1> SUFFICES ASSUME Init PROVE FileInv
  OBVIOUS
<1>1. \A n \in Names, p \in Parts : disk[n][p].ids = {} /\ tmp[n][p].ids = {}
  BY DEF Init, NoFiles, Absent
<1>2. \A r \in Runs : Grounded(run[r], Existing)
  BY IdleGrounded DEF Init
<1>3. QED
  BY <1>1, <1>2 DEF FileInv

LEMMA FileIngest ==
    ASSUME TypeInv, FileInv, NEW r \in Runs,
           Start(r) \/ IngestNothing(r) \/ \E ms \in SUBSET Matches : Ingest(r, ms)
    PROVE  FileInv'
<1>0. run[r] \in RunState /\ Grounded(run[r], Existing)
  BY DEF TypeInv, TypeOK, FileInv
<1>1. CASE Start(r)
  <2>1. PICK opens \in BOOLEAN :
          run' = [run EXCEPT ![r] = [Idle EXCEPT
                      !.pc = "ingest", !.push = opens, !.prior = disk[Index].json.ids]]
    BY <1>1 DEF Start
  <2> DEFINE s == [Idle EXCEPT !.pc = "ingest", !.push = opens, !.prior = disk[Index].json.ids]
  <2>2. s.done = {} /\ s.body.ids = {} /\ s.pc = "ingest"
    BY DEF Idle, Absent
  <2>3. Grounded(s, Existing)
    BY <2>2 DEF Grounded
  <2>4. QED
    BY <1>1, <2>1, <2>3, FileOfLocalStep DEF Start
<1>2. CASE IngestNothing(r)
  BY <1>2, IdleGrounded, FileOfLocalStep DEF IngestNothing
<1>3. ASSUME NEW ms \in SUBSET Matches, Ingest(r, ms) PROVE FileInv'
  <2> DEFINE s == [run[r] EXCEPT !.pc = "fixture", !.now = clock + 1,
                                 !.listed = ms, !.todo = ms]
  <2>1. s.done = run[r].done /\ s.body = run[r].body /\ s.pc = "fixture"
    BY <1>0 DEF RunState
  <2>2. Grounded(s, Existing)
    BY <1>0, <2>1 DEF Grounded
  <2>3. QED
    BY <1>3, <2>2, FileOfLocalStep DEF Ingest
<1>4. QED
  BY <1>1, <1>2, <1>3

\* A run that starts to write a file.
LEMMA WritingGrounded ==
    ASSUME NEW s \in RunState, NEW n, NEW b, NEW E, Grounded(s, E), b.ids \subseteq E
    PROVE  Grounded(Writing(s, n, b), E)
<1>1. LET w == Writing(s, n, b) IN
        w.done = s.done /\ w.body = b /\ w.pc = "write" /\ w.part = "json"
  BY DEF Writing, RunState
<1>2. QED
  BY <1>1 DEF Grounded

LEMMA FileFixture ==
    ASSUME TypeInv, FileInv, NEW r \in Runs,
           \/ \E m \in Matches : BuildFails(r, m) \/ Build(r, m)
           \/ EnqueueLive(r)
           \/ EndFixtures(r)
    PROVE  FileInv'
<1>0. run[r] \in RunState /\ Grounded(run[r], Existing) /\ Fits(run[r])
  BY DEF TypeInv, TypeOK, FileInv
<1>1. ASSUME NEW m \in Matches, BuildFails(r, m) PROVE FileInv'
  <2> DEFINE s == [run[r] EXCEPT !.todo = run[r].todo \ {m}]
  <2>1. s.done = run[r].done /\ s.body = run[r].body /\ s.pc = "fixture"
    BY <1>0, <1>1 DEF RunState, BuildFails
  <2>2. Grounded(s, Existing)
    BY <1>0, <2>1 DEF Grounded
  <2>3. QED
    BY <1>1, <2>2, FileOfLocalStep DEF BuildFails
<1>2. ASSUME NEW m \in Matches, Build(r, m) PROVE FileInv'
  <2> DEFINE t == [run[r] EXCEPT !.todo = run[r].todo \ {m}]
  <2>1. t \in RunState /\ t.done = run[r].done /\ t.body = run[r].body /\ t.pc = "fixture"
    BY <1>0, <1>2 DEF RunState, Build
  <2>2. Grounded(t, Existing) /\ LiveBody(run[r].now).ids = {}
    BY <1>0, <2>1 DEF Grounded, LiveBody
  <2>3. Grounded(Writing(t, m, LiveBody(run[r].now)), Existing)
    BY <2>1, <2>2, WritingGrounded
  <2>4. run' = [run EXCEPT ![r] = Writing(t, m, LiveBody(run[r].now))]
    BY <1>2 DEF Build
  <2>5. QED
    BY <1>2, <2>3, <2>4, FileOfLocalStep DEF Build
<1>3. CASE EnqueueLive(r)
  <2> DEFINE s == [run[r] EXCEPT !.pc = "fixture", !.done = run[r].done \cup {run[r].name}]
  <2>1. run[r].name \in Existing
    BY <1>0, <1>3 DEF EnqueueLive, Fits, Grounded
  <2>2. /\ s.done = run[r].done \cup {run[r].name}
        /\ s.body = run[r].body /\ s.pc = "fixture"
    BY <1>0 DEF RunState
  <2>3. Grounded(s, Existing)
    BY <1>0, <2>1, <2>2 DEF Grounded
  <2>4. run' = [run EXCEPT ![r] = s]
    BY <1>3 DEF EnqueueLive
  <2>5. QED
    BY <1>3, <2>3, <2>4, FileOfLocalStep DEF EnqueueLive
<1>4. CASE EndFixtures(r)
  <2> DEFINE t == [run[r] EXCEPT !.pc = "detect", !.gone = Missing(run[r])]
             b == IndexBody(t.now, IndexIds(t))
  <2>1. /\ t \in RunState /\ t.done = run[r].done /\ t.body = run[r].body
        /\ t.pc = "detect"
    BY <1>0, RunFields DEF RunState, Missing
  <2>2. Grounded(t, Existing) /\ b.ids = t.done
    BY <1>0, <2>1 DEF Grounded, IndexBody, IndexIds
  <2>3. Grounded(Writing(t, Index, b), Existing)
    BY <2>1, <2>2, WritingGrounded DEF Grounded
  <2>4. run' = [run EXCEPT ![r] = IF t.done # {} THEN Writing(t, Index, b) ELSE t]
    BY <1>4 DEF EndFixtures
  <2>5. QED
    BY <1>4, <2>2, <2>3, <2>4, FileOfLocalStep DEF EndFixtures
<1>5. QED
  BY <1>1, <1>2, <1>3, <1>4

LEMMA FileRaises ==
    ASSUME TypeInv, FileInv, NEW r \in Runs, WriteRaises(r)
    PROVE  FileInv'
<1>0. run[r] \in RunState /\ Grounded(run[r], Existing)
  BY DEF TypeInv, TypeOK, FileInv
<1> DEFINE f == [run[r] EXCEPT !.pc = "fixture"]
           d == [run[r] EXCEPT !.pc = "detect"]
<1>1. /\ f.done = run[r].done /\ f.body = run[r].body /\ f.pc = "fixture"
      /\ d.done = run[r].done /\ d.body = run[r].body /\ d.pc = "detect"
  BY <1>0 DEF RunState
<1>2. Grounded(f, Existing) /\ Grounded(d, Existing)
  BY <1>0, <1>1 DEF Grounded
<1>3. PICK s : Grounded(s, Existing) /\ run' = [run EXCEPT ![r] = s]
  <2>1. CASE run[r].body.state = "live"
    BY <1>2, <2>1 DEF WriteRaises
  <2>2. CASE run[r].body.state = "index"
    BY <2>2, IdleGrounded DEF WriteRaises
  <2>3. CASE run[r].body.state \notin {"live", "index"}
    BY <1>2, <2>3 DEF WriteRaises
  <2>4. QED
    BY <2>1, <2>2, <2>3
<1>4. QED
  BY <1>3, FileOfLocalStep DEF WriteRaises

\* Where a run goes on after its etag is written: its file exists by then.
LEMMA WrittenGrounded ==
    ASSUME NEW s \in RunState, NEW E, Grounded(s, E), s.pc = "write", s.part = "etag"
    PROVE  Grounded(Written(s), E)
<1> DEFINE e == [s EXCEPT !.pc = "enqueue"]
           d == [s EXCEPT !.pc = "detect"]
           w == [s EXCEPT !.pc = "detect", !.out = @ \cup {s.name}]
<1>1. /\ e.done = s.done /\ e.body = s.body /\ e.name = s.name
      /\ d.done = s.done /\ d.body = s.body /\ d.pc = "detect"
      /\ w.done = s.done /\ w.body = s.body /\ w.pc = "detect"
  BY DEF RunState
<1>2. Grounded(e, E) /\ Grounded(d, E) /\ Grounded(w, E)
  BY <1>1 DEF Grounded
<1>3. Written(s) = e \/ Written(s) = d \/ Written(s) = w
  <2>1. CASE s.body.state = "live"
    BY <2>1 DEF Written
  <2>2. CASE s.body.state = "index"
    BY <2>2 DEF Written
  <2>3. CASE s.body.state \notin {"live", "index"}
    BY <2>3 DEF Written
  <2>4. QED
    BY <2>1, <2>2, <2>3
<1>4. QED
  BY <1>2, <1>3

LEMMA FileRename ==
    ASSUME TypeInv, FileInv, NEW r \in Runs, Rename(r)
    PROVE  FileInv'
<1> DEFINE n == run[r].name
           p == run[r].part
           b == tmp[n][p]
<1>0. /\ run[r] \in RunState /\ Grounded(run[r], Existing) /\ n \in Names /\ p \in Parts
      /\ disk \in [Names -> [Parts -> Body]] /\ tmp \in [Names -> [Parts -> Body]]
      /\ run \in [Runs -> RunState]
  BY RunFields DEF TypeInv, TypeOK, FileInv
<1>1. /\ b # Absent /\ run[r].pc = "write"
      /\ disk' = [disk EXCEPT ![n][p] = b]
      /\ tmp' = [tmp EXCEPT ![n][p] = Absent]
  BY DEF Rename
<1>2. \A k \in Names, q \in Parts :
        /\ disk'[k][q] = IF k = n /\ q = p THEN b ELSE disk[k][q]
        /\ tmp'[k][q] = IF k = n /\ q = p THEN Absent ELSE tmp[k][q]
  BY <1>0, <1>1
<1>3. Existing \subseteq Existing'
  BY <1>1, <1>2 DEF Existing, Names, Parts
<1>4. p = "json" /\ n \in Matches => n \in Existing'
  BY <1>1, <1>2 DEF Existing, Names, Parts
<1>5. \A k \in Names, q \in Parts :
        disk'[k][q].ids \subseteq Existing' /\ tmp'[k][q].ids \subseteq Existing'
  <2>1. \A k \in Names, q \in Parts :
          disk[k][q].ids \subseteq Existing' /\ tmp[k][q].ids \subseteq Existing'
    BY <1>3 DEF FileInv
  <2>2. Absent.ids = {}
    BY DEF Absent
  <2>3. QED
    BY <1>0, <1>2, <2>1, <2>2
<1>6. Grounded(run[r], Existing')
  BY <1>0, <1>3, GroundedGrows
<1>7. PICK s : Grounded(s, Existing') /\ run' = [run EXCEPT ![r] = s]
  <2>1. CASE p = "etag"
    <3>1. run' = [run EXCEPT ![r] = Written(run[r])]
      BY <2>1 DEF Rename, LastPart
    <3>2. Grounded(Written(run[r]), Existing')
      BY <1>0, <1>1, <1>6, <2>1, WrittenGrounded
    <3>3. QED
      BY <3>1, <3>2
  <2>2. CASE p = "json"
    <3> DEFINE t == [run[r] EXCEPT !.part = "etag", !.opened = FALSE]
    <3>1. run' = [run EXCEPT ![r] = t]
      BY <2>2 DEF Rename, LastPart
    <3>2. t.done = run[r].done /\ t.body = run[r].body /\ t.name = n
      BY <1>0 DEF RunState
    <3>3. Grounded(t, Existing')
      BY <1>4, <1>6, <2>2, <3>2 DEF Grounded
    <3>4. QED
      BY <3>1, <3>3
  <2>3. QED
    BY <1>0, <2>1, <2>2 DEF Parts
<1>8. \A q \in Runs : Grounded(run'[q], Existing')
  <2>1. \A q \in Runs : run'[q] = IF q = r THEN s ELSE run[q]
    BY <1>0, <1>7
  <2>2. \A q \in Runs : Grounded(run[q], Existing')
    BY <1>3, GroundedGrows DEF FileInv
  <2>3. QED
    BY <1>7, <2>1, <2>2
<1>9. QED
  BY <1>5, <1>8 DEF FileInv

LEMMA FileWrite == ASSUME TypeInv, FileInv, NEW r \in Runs, Write(r) PROVE FileInv'
<1>0. /\ run[r] \in RunState /\ Grounded(run[r], Existing)
      /\ run[r].name \in Names /\ run[r].part \in Parts
      /\ tmp \in [Names -> [Parts -> Body]] /\ run \in [Runs -> RunState]
  BY RunFields DEF TypeInv, TypeOK, FileInv
<1>1. CASE WriteTmp(r)
  <2> DEFINE s == [run[r] EXCEPT !.opened = TRUE]
  <2>1. /\ disk' = disk /\ run' = [run EXCEPT ![r] = s]
        /\ tmp' = [tmp EXCEPT ![run[r].name][run[r].part] = run[r].body]
    BY <1>1 DEF WriteTmp
  <2>2. /\ s.done = run[r].done /\ s.body = run[r].body /\ s.name = run[r].name
        /\ s.pc = run[r].pc /\ s.part = run[r].part
    BY <1>0 DEF RunState
  <2>3. Grounded(s, Existing) /\ run[r].body.ids \subseteq Existing
    BY <1>0, <2>2 DEF Grounded
  <2>4. \A k \in Names, q \in Parts : tmp'[k][q] = tmp[k][q] \/ tmp'[k][q] = run[r].body
    BY <1>0, <2>1
  <2>5. \A q \in Runs : run'[q] = run[q] \/ run'[q] = s
    BY <1>0, <2>1
  <2>6. Existing' = Existing
    BY <2>1 DEF Existing
  <2> HIDE DEF s
  <2>7. QED
    BY <2>1, <2>3, <2>4, <2>5, <2>6 DEF FileInv
<1>2. CASE Rename(r)
  BY <1>2, FileRename
<1>3. CASE WriteFault(r) \/ RenameLost(r)
  BY <1>3, FileRaises DEF WriteFault, RenameLost
<1>4. QED
  BY <1>1, <1>2, <1>3 DEF Write

LEMMA FileDetect ==
    ASSUME TypeInv, FileInv, NEW r \in Runs,
           \/ \E m \in Matches : Withdraw(r, m) \/ SkipWithdraw(r, m) \/ EnqueueWithdrawn(r, m)
           \/ DetectFails(r) \/ EndDetect(r) \/ End(r) \/ Kill(r)
    PROVE  FileInv'
<1>0. run[r] \in RunState /\ Grounded(run[r], Existing)
  BY DEF TypeInv, TypeOK, FileInv
<1>1. ASSUME NEW m \in Matches, Withdraw(r, m) PROVE FileInv'
  <2> DEFINE t == [run[r] EXCEPT !.gone = run[r].gone \ {m}]
             b == WithdrawnBody(run[r].now)
  <2>1. t \in RunState /\ t.done = run[r].done /\ t.body = run[r].body /\ t.pc = "detect"
    BY <1>0, <1>1 DEF RunState, Withdraw
  <2>2. Grounded(t, Existing) /\ b.ids = {}
    BY <1>0, <2>1 DEF Grounded, WithdrawnBody
  <2>3. Grounded(Writing(t, m, b), Existing)
    BY <2>1, <2>2, WritingGrounded
  <2>4. run' = [run EXCEPT ![r] = Writing(t, m, b)]
    BY <1>1 DEF Withdraw
  <2>5. QED
    BY <1>1, <2>3, <2>4, FileOfLocalStep DEF Withdraw
<1>2. ASSUME NEW m \in Matches, SkipWithdraw(r, m) PROVE FileInv'
  <2> DEFINE s == [run[r] EXCEPT !.gone = run[r].gone \ {m}]
  <2>1. s.done = run[r].done /\ s.body = run[r].body /\ s.pc = "detect"
    BY <1>0, <1>2 DEF RunState, SkipWithdraw
  <2>2. Grounded(s, Existing)
    BY <1>0, <2>1 DEF Grounded
  <2>3. QED
    BY <1>2, <2>2, FileOfLocalStep DEF SkipWithdraw
<1>3. ASSUME NEW m \in Matches, EnqueueWithdrawn(r, m) PROVE FileInv'
  <2> DEFINE s == [run[r] EXCEPT !.out = run[r].out \ {m}]
  <2>1. s.done = run[r].done /\ s.body = run[r].body /\ s.pc = "push"
    BY <1>0, <1>3 DEF RunState, EnqueueWithdrawn
  <2>2. Grounded(s, Existing)
    BY <1>0, <2>1 DEF Grounded
  <2>3. QED
    BY <1>3, <2>2, FileOfLocalStep DEF EnqueueWithdrawn
<1>4. CASE EndDetect(r)
  <2> DEFINE s == [run[r] EXCEPT !.pc = "push", !.out = ToPush(run[r])]
  <2>1. s.done = run[r].done /\ s.body = run[r].body /\ s.pc = "push"
    BY <1>0 DEF RunState
  <2>2. Grounded(s, Existing)
    BY <1>0, <2>1 DEF Grounded
  <2>3. QED
    BY <1>4, <2>2, FileOfLocalStep DEF EndDetect
<1>5. CASE DetectFails(r) \/ End(r) \/ Kill(r)
  BY <1>5, IdleGrounded, FileOfLocalStep DEF DetectFails, End, Kill
<1>6. QED
  BY <1>1, <1>2, <1>3, <1>4, <1>5

LEMMA FileStep == TypeInv /\ FileInv /\ [Next]_vars => FileInv'
<1> SUFFICES ASSUME TypeInv, FileInv, [Next]_vars PROVE FileInv'
  OBVIOUS
<1>1. CASE UNCHANGED vars
  BY <1>1 DEF vars, FileInv, Existing
<1>2. ASSUME NEW r \in Runs, Step(r) PROVE FileInv'
  BY <1>2, FileIngest, FileFixture, FileWrite, FileDetect DEF Step
<1>3. QED
  BY <1>1, <1>2 DEF Next

\* The index never lists a file that does not exist, for any number of runs
\* that share their .tmp files, any fault and any kill.
THEOREM IndexNeverDangles == Spec => []IndexedFilesExist
<1>1. FileInv => IndexedFilesExist
  BY DEF FileInv, IndexedFilesExist, Existing, Names, Parts
<1>2. QED
  BY <1>1, TypeInit, TypeStep, FileInit, FileStep, PTL DEF Spec
-----------------------------------------------------------------------------
(* A run that meets no other, from its start to its end.                     *)

\* The file being written or enqueued, and those withdrawn but not yet enqueued.
Pending(s) == s.out \cup (IF s.pc \in {"write", "enqueue"} THEN {s.name} ELSE {})

\* The fixtures are still being published; the index and the withdrawals follow.
Publishing(s) == s.pc \in {"fixture", "enqueue"} \/ (s.pc = "write" /\ s.body.state = "live")
Withdrawing(s) == s.pc \in {"detect", "push"} \/ (s.pc = "write" /\ s.body.state # "live")

\* What its variables say of each other, whatever is on disk.
Shape(s) ==
    /\ s \in RunState /\ s.pc # "idle"
    /\ s.todo \subseteq s.listed /\ s.done \subseteq s.listed /\ s.todo \cap s.done = {}
    /\ s.gone \subseteq s.prior \ s.done /\ s.out \subseteq s.prior \ s.done
    /\ s.gone \cap s.out = {}
    /\ s.pc = "ingest" => s.listed = {}
    /\ s.pc = "ingest" \/ Publishing(s) => s.out = {} /\ s.gone = {}
    /\ s.pc = "write" => s.body.state \in {"live", "index", "withdrawn"}
    /\ s.pc = "enqueue" \/ (s.pc = "write" /\ s.body.state = "live") =>
         s.name \in s.listed \ (s.todo \cup s.done) /\ s.body = LiveBody(s.now)
    /\ s.pc = "write" /\ s.body.state = "index" =>
         s.name = Index /\ s.body = IndexBody(s.now, s.done) /\ s.out = {} /\ s.done # {}
    /\ s.pc = "write" /\ s.body.state = "withdrawn" =>
         /\ s.name \in s.prior \ (s.gone \cup s.out \cup s.done)
         /\ s.body = WithdrawnBody(s.now)
    /\ s.pc = "push" => s.gone = {}

\* The two files of a name are of the body.
OnDisk(n, b) == disk[n]["json"] = b /\ disk[n]["etag"] = b

\* What it has written so far is there, under the temporary name or the real one.
FilesInv(s) ==
    /\ s.pc = "write" /\ s.opened => tmp[s.name][s.part] = s.body
    /\ s.pc = "write" /\ s.part = "etag" => disk[s.name]["json"] = s.body
    /\ s.pc = "enqueue" => OnDisk(s.name, s.body)
    /\ \A n \in s.out : OnDisk(n, WithdrawnBody(s.now))

Coherent(n) == disk[n]["etag"] = disk[n]["json"] /\ (n \in Matches => wire[n] = disk[n]["json"])

\* Only the file it is at, or what it still has to enqueue, is out of step.
CoherenceInv(s) == \A n \in Names \ (dirty \cup Pending(s)) : Coherent(n)

IndexWritten(s) ==
    Withdrawing(s) /\ ~(s.pc = "write" /\ s.body.state = "index" /\ s.part = "json")

\* A match that says pick is listed, or this run knows of it; and the detection has
\* all of those it did not publish before it.
IndexInv(s) ==
    /\ \A m \in Matches \ dirty : Live(m) => m \in s.prior \cup s.done \cup Pending(s)
    /\ disk[Index]["json"].ids = IF IndexWritten(s) /\ s.done # {} THEN s.done ELSE s.prior
    /\ Withdrawing(s) =>
         \A m \in (s.prior \ s.done) \ dirty : Live(m) => m \in s.gone \cup Pending(s)

\* The matches it may still enqueue: their last body is of an earlier run.
Unsent(s) == IF Publishing(s) THEN Matches \ s.done ELSE (s.gone \cup Pending(s)) \ {Index}
StreamInv(s) == \A m \in Unsent(s) : wire[m].at < s.now

Tidy(s) == Shape(s) /\ FilesInv(s) /\ CoherenceInv(s) /\ IndexInv(s) /\ StreamInv(s)

\* What a run of that kind leaves, and finds.
Settled ==
    /\ \A n \in Names \ dirty : Coherent(n)
    /\ \A m \in Matches \ dirty : Live(m) => m \in disk[Index]["json"].ids

TidyOrSettled(s) == IF s = Idle THEN Settled ELSE Tidy(s)

-----------------------------------------------------------------------------
(* The steps that change only the run's own variables                        *)

LEMMA NotIdle == ASSUME NEW s, s.pc # "idle" PROVE s # Idle
  BY DEF Idle

LEMMA BodyFields ==
    /\ \A t : LiveBody(t).at = t /\ LiveBody(t).state = "live"
    /\ \A t : WithdrawnBody(t).at = t /\ WithdrawnBody(t).state = "withdrawn"
    /\ \A t, ids : /\ IndexBody(t, ids).at = t /\ IndexBody(t, ids).ids = ids
                   /\ IndexBody(t, ids).state = "index"
    /\ Absent.at = 0 /\ Absent.state = "absent"
  BY DEF LiveBody, WithdrawnBody, IndexBody, Absent

LEMMA TidyOfLocalStep ==
    ASSUME NEW r \in Runs, NEW s, Tidy(s), run \in [Runs -> RunState],
           run' = [run EXCEPT ![r] = s], UNCHANGED <<disk, tmp, wire, dirty>>
    PROVE  TidyOrSettled(run[r])'
<1>1. run'[r] = s
  OBVIOUS
<1>2. s.pc # "idle"
  BY DEF Tidy, Shape
<1>3. s # Idle
  BY <1>2, NotIdle
<1>4. Shape(run'[r])
  BY <1>1 DEF Tidy
<1>5. FilesInv(run[r])'
  BY <1>1 DEF Tidy, FilesInv, OnDisk
<1>6. CoherenceInv(run[r])'
  BY <1>1 DEF Tidy, CoherenceInv, Coherent, Pending
<1>7. IndexInv(run[r])'
  BY <1>1 DEF Tidy, IndexInv, IndexWritten, Withdrawing, Pending, Live
<1>8. StreamInv(run[r])'
  BY <1>1 DEF Tidy, StreamInv, Unsent, Publishing, Pending
<1>9. QED
  BY <1>1, <1>3, <1>4, <1>5, <1>6, <1>7, <1>8 DEF TidyOrSettled, Tidy

\* A run that is over leaves what it is to leave.
LEMMA SettledOfEnd ==
    ASSUME NEW r \in Runs, run \in [Runs -> RunState], run' = [run EXCEPT ![r] = Idle],
           Settled'
    PROVE  TidyOrSettled(run[r])'
  BY DEF TidyOrSettled

LEMMA TidyStart ==
    ASSUME TypeInv, NEW r \in Runs, Active = {}, Settled, Start(r)
    PROVE  TidyOrSettled(run[r])'
<1>1. PICK opens \in BOOLEAN :
        run' = [run EXCEPT ![r] = [Idle EXCEPT
                    !.pc = "ingest", !.push = opens, !.prior = disk[Index]["json"].ids]]
  BY DEF Start
<1> DEFINE s == [Idle EXCEPT !.pc = "ingest", !.push = opens,
                             !.prior = disk[Index]["json"].ids]
<1>2. /\ s.pc = "ingest" /\ s.prior = disk[Index]["json"].ids /\ s.listed = {}
      /\ s.todo = {} /\ s.done = {} /\ s.gone = {} /\ s.out = {}
  BY DEF Idle
<1>3. disk[Index]["json"] \in Body
  BY DEF TypeInv, TypeOK, Names, Parts
<1>4. s \in RunState
  BY <1>3, IdleType DEF RunState, Body
<1> HIDE DEF s
<1>5. Shape(s) /\ FilesInv(s)
  BY <1>2, <1>4 DEF Shape, Publishing, FilesInv
<1>6. CoherenceInv(s)
  BY <1>2 DEF CoherenceInv, Settled
<1>7. IndexInv(s)
  BY <1>2 DEF IndexInv, Settled, IndexWritten, Withdrawing
<1>8. StreamInv(s)
  BY <1>2 DEF StreamInv, Unsent, Publishing, Pending
<1>9. run \in [Runs -> RunState] /\ run' = [run EXCEPT ![r] = s]
      /\ UNCHANGED <<disk, tmp, wire, dirty>>
  BY <1>1 DEF s, Start, TypeInv, TypeOK
<1>10. QED
  BY <1>5, <1>6, <1>7, <1>8, <1>9, TidyOfLocalStep DEF Tidy

LEMMA TidyIngest ==
    ASSUME TypeInv, NEW r \in Runs, Tidy(run[r]), \A m \in Matches : wire[m].at <= clock,
           IngestNothing(r) \/ \E ms \in SUBSET Matches : Ingest(r, ms)
    PROVE  TidyOrSettled(run[r])'
<1>a. clock \in Nat
  BY PublishAssumption DEF TypeInv, TypeOK
<1>0. /\ run \in [Runs -> RunState] /\ run[r] \in RunState /\ run[r].pc = "ingest"
      /\ clock \in Nat /\ wire \in [Matches -> Body]
  BY <1>a DEF TypeInv, TypeOK, IngestNothing, Ingest
<1>1. /\ run[r].listed = {} /\ run[r].done = {} /\ run[r].out = {} /\ run[r].gone = {}
      /\ run[r].todo = {} /\ Pending(run[r]) = {} /\ ~Withdrawing(run[r])
  BY <1>0 DEF Tidy, Shape, Pending, Withdrawing
<1>2. CASE IngestNothing(r)
  <2>1. Settled
    BY <1>1 DEF Tidy, CoherenceInv, IndexInv, IndexWritten, Settled
  <2>2. Settled'
    BY <1>2, <2>1 DEF IngestNothing, Settled, Coherent, Live
  <2>3. QED
    BY <1>0, <1>2, <2>2, SettledOfEnd DEF IngestNothing
<1>3. ASSUME NEW ms \in SUBSET Matches, Ingest(r, ms) PROVE TidyOrSettled(run[r])'
  <2> DEFINE s == [run[r] EXCEPT !.pc = "fixture", !.now = clock + 1,
                                 !.listed = ms, !.todo = ms]
  <2>0. clock + 1 \in Nat
    BY <1>0
  <2>1. /\ s.pc = "fixture" /\ s.now = clock + 1 /\ s.listed = ms /\ s.todo = ms
        /\ s.done = {} /\ s.gone = {} /\ s.out = {} /\ s.prior = run[r].prior
        /\ s \in RunState
    BY <1>0, <1>1, <2>0 DEF RunState
  <2>2. run' = [run EXCEPT ![r] = s] /\ UNCHANGED <<disk, tmp, wire, dirty>>
    BY <1>3 DEF Ingest
  <2> HIDE DEF s
  <2>3. Shape(s) /\ FilesInv(s)
    BY <2>1 DEF Shape, Publishing, FilesInv
  <2>4. CoherenceInv(s)
    BY <1>1, <2>1 DEF Tidy, CoherenceInv, Pending
  <2>5. IndexInv(s)
    BY <1>1, <2>1 DEF Tidy, IndexInv, IndexWritten, Withdrawing, Pending
  <2>6. \A m \in Matches : wire[m].at < s.now
    BY <1>0, <2>1 DEF Body
  <2>7. StreamInv(s)
    BY <2>1, <2>6 DEF StreamInv, Unsent, Publishing
  <2>8. QED
    BY <1>0, <2>2, <2>3, <2>4, <2>5, <2>7, TidyOfLocalStep DEF Tidy
<1>4. QED
  BY <1>2, <1>3

LEMMA TidyBuild ==
    ASSUME TypeInv, NEW r \in Runs, Tidy(run[r]), NEW m \in Matches,
           BuildFails(r, m) \/ Build(r, m)
    PROVE  TidyOrSettled(run[r])'
<1>0. /\ run \in [Runs -> RunState] /\ run[r] \in RunState /\ run[r].pc = "fixture"
      /\ m \in run[r].todo /\ m \in Names
      /\ Shape(run[r]) /\ UNCHANGED <<disk, tmp, wire, dirty>>
  BY DEF TypeInv, TypeOK, BuildFails, Build, Tidy, Names
<1>1. /\ run[r].out = {} /\ run[r].gone = {} /\ Pending(run[r]) = {}
      /\ Publishing(run[r]) /\ ~Withdrawing(run[r])
  BY <1>0 DEF Shape, Pending, Withdrawing, Publishing
<1>2. CASE BuildFails(r, m)
  <2> DEFINE s == [run[r] EXCEPT !.todo = run[r].todo \ {m}]
  <2>1. /\ s.pc = "fixture" /\ s.now = run[r].now /\ s.listed = run[r].listed
        /\ s.todo = run[r].todo \ {m} /\ s.done = run[r].done /\ s.gone = {} /\ s.out = {}
        /\ s.prior = run[r].prior /\ s \in RunState
    BY <1>0, <1>1 DEF RunState
  <2>2. run' = [run EXCEPT ![r] = s]
    BY <1>2 DEF BuildFails
  <2> HIDE DEF s
  <2>3. Shape(s) /\ FilesInv(s)
    BY <1>0, <2>1 DEF Shape, Publishing, FilesInv
  <2>4. CoherenceInv(s)
    BY <1>1, <2>1 DEF Tidy, CoherenceInv, Pending
  <2>5. IndexInv(s)
    BY <1>1, <2>1 DEF Tidy, IndexInv, IndexWritten, Withdrawing, Pending
  <2>6. StreamInv(s)
    BY <1>1, <2>1 DEF Tidy, StreamInv, Unsent, Publishing
  <2>7. QED
    BY <1>0, <2>2, <2>3, <2>4, <2>5, <2>6, TidyOfLocalStep DEF Tidy
<1>3. CASE Build(r, m)
  <2> DEFINE t == [run[r] EXCEPT !.todo = run[r].todo \ {m}]
             s == Writing(t, m, LiveBody(run[r].now))
  <2>0. t \in RunState /\ LiveBody(run[r].now) \in Body
    BY <1>0, RunFields, BodyTypes DEF RunState
  <2>1. /\ s.pc = "write" /\ s.now = run[r].now /\ s.listed = run[r].listed
        /\ s.todo = run[r].todo \ {m} /\ s.done = run[r].done /\ s.gone = {} /\ s.out = {}
        /\ s.prior = run[r].prior /\ s.name = m /\ s.body = LiveBody(s.now)
        /\ s.part = "json" /\ ~s.opened /\ s.body.state = "live"
    BY <1>0, <1>1, BodyFields DEF RunState, Writing
  <2>2. s \in RunState
    BY <1>0, <2>0, WritingType
  <2>3. run' = [run EXCEPT ![r] = s]
    BY <1>3 DEF Build
  <2> HIDE DEF s
  <2>4. Shape(s)
    BY <1>0, <2>1, <2>2 DEF Shape, Publishing
  <2>5. FilesInv(s)
    BY <2>1 DEF FilesInv
  <2>6. CoherenceInv(s)
    BY <1>1, <2>1 DEF Tidy, CoherenceInv
  <2>7. IndexInv(s)
    BY <1>1, <2>1 DEF Tidy, IndexInv, IndexWritten, Withdrawing
  <2>8. StreamInv(s)
    BY <1>1, <2>1 DEF Tidy, StreamInv, Unsent, Publishing
  <2>9. QED
    BY <1>0, <2>3, <2>4, <2>5, <2>6, <2>7, <2>8, TidyOfLocalStep DEF Tidy
<1>4. QED
  BY <1>2, <1>3

LEMMA TidyEndFixtures ==
    ASSUME TypeInv, NEW r \in Runs, Tidy(run[r]), EndFixtures(r)
    PROVE  TidyOrSettled(run[r])'
<1>0. /\ run \in [Runs -> RunState] /\ run[r] \in RunState /\ run[r].pc = "fixture"
      /\ run[r].todo = {} /\ Shape(run[r]) /\ UNCHANGED <<disk, tmp, wire, dirty>>
  BY DEF TypeInv, TypeOK, EndFixtures, Tidy
<1>1. /\ run[r].out = {} /\ run[r].gone = {} /\ Pending(run[r]) = {}
      /\ Publishing(run[r]) /\ ~Withdrawing(run[r])
  BY <1>0 DEF Shape, Pending, Withdrawing, Publishing
<1> DEFINE t == [run[r] EXCEPT !.pc = "detect", !.gone = Missing(run[r])]
           b == IndexBody(t.now, IndexIds(t))
           s == IF t.done # {} THEN Writing(t, Index, b) ELSE t
<1>2. /\ t.pc = "detect" /\ t.now = run[r].now /\ t.listed = run[r].listed
      /\ t.todo = {} /\ t.done = run[r].done /\ t.gone = run[r].prior \ run[r].done
      /\ t.out = {} /\ t.prior = run[r].prior /\ t \in RunState
  BY <1>0, <1>1, RunFields DEF RunState, Missing
<1>3. b = IndexBody(run[r].now, run[r].done) /\ b \in Body /\ b.state = "index" /\ Index \in Names
  <2>1. b = IndexBody(run[r].now, run[r].done)
    BY <1>2 DEF IndexIds
  <2>2. run[r].now \in Nat /\ run[r].done \in SUBSET Matches
    BY <1>0, RunFields
  <2> HIDE DEF b
  <2>3. QED
    BY <2>1, <2>2, BodyTypes, BodyFields DEF Names
<1>4. run' = [run EXCEPT ![r] = s]
  BY DEF EndFixtures
<1>5. /\ s.now = run[r].now /\ s.listed = run[r].listed
      /\ s.todo = {} /\ s.done = run[r].done /\ s.gone = run[r].prior \ run[r].done
      /\ s.out = {} /\ s.prior = run[r].prior /\ s \in RunState
      /\ IF run[r].done # {}
         THEN s.pc = "write" /\ s.name = Index /\ s.body = b /\ s.part = "json" /\ ~s.opened
         ELSE s.pc = "detect"
  <2>1. CASE run[r].done # {}
    <3>1. s = Writing(t, Index, b)
      BY <1>2, <2>1
    <3>2. s \in RunState
      BY <1>2, <1>3, <3>1, WritingType
    <3>3. QED
      BY <1>2, <2>1, <3>1, <3>2 DEF Writing, RunState
  <2>2. CASE run[r].done = {}
    BY <1>2, <2>2
  <2>3. QED
    BY <2>1, <2>2
<1> HIDE DEF s, t, b
<1>6. Shape(s)
  BY <1>0, <1>3, <1>5 DEF Shape, Publishing
<1>7. FilesInv(s)
  BY <1>5 DEF FilesInv
<1>8. CoherenceInv(s)
  BY <1>1, <1>5 DEF Tidy, CoherenceInv
<1>9. IndexInv(s)
  <2>1. ~(IndexWritten(s) /\ s.done # {})
    BY <1>3, <1>5 DEF IndexWritten
  <2>2. QED
    BY <1>1, <1>5, <2>1 DEF Tidy, IndexInv, IndexWritten
<1>10. StreamInv(s)
  <2>1. ~Publishing(s) /\ Pending(s) \subseteq {Index}
    BY <1>3, <1>5 DEF Publishing, Pending
  <2>2. QED
    BY <1>0, <1>1, <1>5, <2>1, RunFields DEF Tidy, StreamInv, Unsent
<1>11. QED
  BY <1>0, <1>4, <1>6, <1>7, <1>8, <1>9, <1>10, TidyOfLocalStep DEF Tidy

LEMMA TidyEndDetect ==
    ASSUME TypeInv, NEW r \in Runs, Tidy(run[r]), EndDetect(r)
    PROVE  TidyOrSettled(run[r])'
<1>0. /\ run \in [Runs -> RunState] /\ run[r] \in RunState /\ run[r].pc = "detect"
      /\ run[r].gone = {} /\ Shape(run[r]) /\ UNCHANGED <<disk, tmp, wire, dirty>>
  BY DEF TypeInv, TypeOK, EndDetect, Tidy
<1> DEFINE s == [run[r] EXCEPT !.pc = "push", !.out = ToPush(run[r])]
<1>1. /\ s.pc = "push" /\ s.now = run[r].now /\ s.listed = run[r].listed
      /\ s.todo = run[r].todo /\ s.done = run[r].done /\ s.gone = {}
      /\ s.out = run[r].out /\ s.prior = run[r].prior /\ s \in RunState
  BY <1>0, RunFields DEF RunState, ToPush
<1>2. run' = [run EXCEPT ![r] = s]
  BY DEF EndDetect
<1> HIDE DEF s
<1>3. Shape(s) /\ Pending(s) = Pending(run[r])
  BY <1>0, <1>1 DEF Shape, Publishing, Pending
<1>4. FilesInv(s)
  BY <1>1 DEF Tidy, FilesInv
<1>5. CoherenceInv(s) /\ IndexInv(s)
  BY <1>0, <1>1, <1>3 DEF Tidy, CoherenceInv, IndexInv, IndexWritten, Withdrawing
<1>6. StreamInv(s)
  BY <1>0, <1>1, <1>3 DEF Tidy, StreamInv, Unsent, Publishing
<1>7. QED
  BY <1>0, <1>2, <1>3, <1>4, <1>5, <1>6, TidyOfLocalStep DEF Tidy

LEMMA TidyWithdraw ==
    ASSUME TypeInv, NEW r \in Runs, Tidy(run[r]), NEW m \in Matches,
           Withdraw(r, m) \/ SkipWithdraw(r, m)
    PROVE  TidyOrSettled(run[r])'
<1>0. /\ run \in [Runs -> RunState] /\ run[r] \in RunState /\ run[r].pc = "detect"
      /\ m \in run[r].gone /\ m \in Names /\ m # Index
      /\ Shape(run[r]) /\ UNCHANGED <<disk, tmp, wire, dirty>>
  BY PublishAssumption DEF TypeInv, TypeOK, Withdraw, SkipWithdraw, Tidy, Names
<1>1. Pending(run[r]) = run[r].out /\ Withdrawing(run[r]) /\ ~Publishing(run[r])
  BY <1>0 DEF Pending, Withdrawing, Publishing
<1>2. CASE SkipWithdraw(r, m)
  <2> DEFINE s == [run[r] EXCEPT !.gone = run[r].gone \ {m}]
  <2>1. /\ s.pc = "detect" /\ s.now = run[r].now /\ s.listed = run[r].listed
        /\ s.todo = run[r].todo /\ s.done = run[r].done /\ s.gone = run[r].gone \ {m}
        /\ s.out = run[r].out /\ s.prior = run[r].prior /\ s \in RunState
    BY <1>0, RunFields DEF RunState
  <2>2. run' = [run EXCEPT ![r] = s] /\ ~Live(m)
    BY <1>2 DEF SkipWithdraw, Live
  <2> HIDE DEF s
  <2>3. Shape(s) /\ Pending(s) = run[r].out
    BY <1>0, <2>1 DEF Shape, Publishing, Pending
  <2>4. FilesInv(s)
    BY <2>1 DEF Tidy, FilesInv
  <2>5. CoherenceInv(s)
    BY <1>1, <2>3 DEF Tidy, CoherenceInv
  <2>6. IndexInv(s)
    BY <1>0, <1>1, <2>1, <2>2, <2>3 DEF Tidy, IndexInv, IndexWritten, Withdrawing
  <2>7. StreamInv(s)
    BY <1>1, <2>1, <2>3 DEF Tidy, StreamInv, Unsent, Publishing
  <2>8. QED
    BY <1>0, <2>2, <2>3, <2>4, <2>5, <2>6, <2>7, TidyOfLocalStep DEF Tidy
<1>3. CASE Withdraw(r, m)
  <2> DEFINE t == [run[r] EXCEPT !.gone = run[r].gone \ {m}]
             s == Writing(t, m, WithdrawnBody(run[r].now))
  <2>0. t \in RunState /\ WithdrawnBody(run[r].now) \in Body
    BY <1>0, RunFields, BodyTypes DEF RunState
  <2>1. /\ s.pc = "write" /\ s.now = run[r].now /\ s.listed = run[r].listed
        /\ s.todo = run[r].todo /\ s.done = run[r].done /\ s.gone = run[r].gone \ {m}
        /\ s.out = run[r].out /\ s.prior = run[r].prior
        /\ s.name = m /\ s.body = WithdrawnBody(s.now)
        /\ s.part = "json" /\ ~s.opened /\ s.body.state = "withdrawn"
    BY <1>0, BodyFields DEF RunState, Writing
  <2>2. s \in RunState
    BY <1>0, <2>0, WritingType
  <2>3. run' = [run EXCEPT ![r] = s]
    BY <1>3 DEF Withdraw
  <2> HIDE DEF s
  <2>4. Shape(s) /\ Pending(s) = run[r].out \cup {m}
    BY <1>0, <2>1, <2>2 DEF Shape, Publishing, Pending
  <2>5. FilesInv(s)
    BY <2>1 DEF Tidy, FilesInv
  <2>6. CoherenceInv(s)
    BY <1>1, <2>4 DEF Tidy, CoherenceInv
  <2>7. IndexInv(s)
    BY <1>0, <1>1, <2>1, <2>4 DEF Tidy, IndexInv, IndexWritten, Withdrawing
  <2>8. StreamInv(s)
    BY <1>0, <1>1, <2>1, <2>4 DEF Tidy, StreamInv, Unsent, Publishing
  <2>9. QED
    BY <1>0, <2>3, <2>4, <2>5, <2>6, <2>7, <2>8, TidyOfLocalStep DEF Tidy
<1>4. QED
  BY <1>2, <1>3

-----------------------------------------------------------------------------
(* The steps that write a file or the wire                                   *)

\* What an enqueue of a body that is on disk leaves, done or not.
LEMMA EnqueueOfDisk ==
    ASSUME TypeOK, NEW r \in Runs \ met, NEW m \in Matches, NEW b, OnDisk(m, b),
           TryEnqueue(r, m, b), disk' = disk
    PROVE  /\ \A n \in Names \ dirty' : n = m \/ Coherent(n) => Coherent(n)'
           /\ \A n \in Names : n # m => (n \in dirty <=> n \in dirty')
           /\ \A n \in Matches : n # m => wire'[n] = wire[n]
<1>1. wire \in [Matches -> Body]
  BY DEF TypeOK
<1>2. CASE UNCHANGED wire /\ dirty' = dirty \cup {m}
  BY <1>2 DEF Coherent
<1>3. CASE wire' = [wire EXCEPT ![m] = b] /\ dirty' = dirty \ {m}
  <2>1. wire'[m] = b /\ \A n \in Matches : n # m => wire'[n] = wire[n]
    BY <1>1, <1>3
  <2>2. QED
    BY <1>3, <2>1 DEF Coherent, OnDisk, Names
<1>4. QED
  BY <1>2, <1>3 DEF TryEnqueue, Cleaned

LEMMA TidyEnqueueLive ==
    ASSUME TypeInv, NEW r \in Runs \ met, Tidy(run[r]), EnqueueLive(r)
    PROVE  TidyOrSettled(run[r])'
<1> DEFINE m == run[r].name
           s == [run[r] EXCEPT !.pc = "fixture", !.done = run[r].done \cup {m}]
<1>0. /\ run \in [Runs -> RunState] /\ run[r] \in RunState /\ run[r].pc = "enqueue"
      /\ Shape(run[r]) /\ Fits(run[r]) /\ disk' = disk /\ tmp' = tmp
      /\ run' = [run EXCEPT ![r] = s] /\ TryEnqueue(r, m, run[r].body)
  BY DEF TypeInv, TypeOK, EnqueueLive, Tidy
<1>1. /\ m \in Matches /\ m \in run[r].listed \ (run[r].todo \cup run[r].done)
      /\ run[r].out = {} /\ run[r].gone = {} /\ m # Index
  BY <1>0, PublishAssumption DEF Shape, Publishing, Fits
<1>2. Pending(run[r]) = {m} /\ Publishing(run[r]) /\ ~Withdrawing(run[r])
  BY <1>0, <1>1 DEF Pending, Publishing, Withdrawing
<1>3. OnDisk(m, run[r].body)
  BY <1>0 DEF Tidy, FilesInv
<1>4. /\ \A n \in Names \ dirty' : n = m \/ Coherent(n) => Coherent(n)'
      /\ \A n \in Names : n # m => (n \in dirty <=> n \in dirty')
      /\ \A n \in Matches : n # m => wire'[n] = wire[n]
  BY <1>0, <1>1, <1>3, EnqueueOfDisk DEF TypeInv
<1>5. /\ s.pc = "fixture" /\ s.now = run[r].now /\ s.listed = run[r].listed
      /\ s.todo = run[r].todo /\ s.done = run[r].done \cup {m} /\ s.gone = {} /\ s.out = {}
      /\ s.prior = run[r].prior /\ s \in RunState
  BY <1>0, <1>1, RunFields DEF RunState
<1>6. run'[r] = s
  BY <1>0
<1> HIDE DEF s, m
<1>7. Shape(run'[r])
  BY <1>0, <1>1, <1>5, <1>6 DEF Shape, Publishing
<1>8. FilesInv(run[r])'
  BY <1>5, <1>6 DEF FilesInv
<1>9. CoherenceInv(run[r])'
  <2>1. ASSUME NEW n \in Names, n \notin dirty' PROVE Coherent(n)'
    <3>1. CASE n = m
      BY <1>4, <2>1, <3>1
    <3>2. CASE n # m
      <4>1. n \notin dirty \cup Pending(run[r])
        BY <1>2, <1>4, <2>1, <3>2
      <4>2. Coherent(n)
        BY <4>1 DEF Tidy, CoherenceInv
      <4>3. QED
        BY <1>4, <2>1, <4>2
    <3>3. QED
      BY <3>1, <3>2
  <2>2. QED
    BY <2>1 DEF CoherenceInv
<1>10. IndexInv(run[r])'
  <2>1. \A k \in Matches : k # m /\ k \notin dirty' => k \notin dirty
    BY <1>4 DEF Names
  <2>2. \A k \in Matches : Live(k)' = Live(k)
    BY <1>0 DEF Live
  <2>3. ~Withdrawing(run'[r])
    BY <1>5, <1>6 DEF Withdrawing
  <2>4. disk'[Index]["json"].ids = run'[r].prior
    BY <1>0, <1>2, <1>5, <1>6 DEF Tidy, IndexInv, IndexWritten
  <2>5. \A k \in Matches \ dirty' : Live(k)' => k \in run'[r].prior \cup run'[r].done
    BY <1>2, <1>5, <1>6, <2>1, <2>2 DEF Tidy, IndexInv
  <2>6. QED
    BY <2>3, <2>4, <2>5 DEF IndexInv, IndexWritten
<1>11. StreamInv(run[r])'
  BY <1>2, <1>4, <1>5, <1>6 DEF Tidy, StreamInv, Unsent, Publishing
<1>12. QED
  <2>1. run'[r] # Idle
    BY <1>5, <1>6, NotIdle
  <2>2. QED
    BY <1>7, <1>8, <1>9, <1>10, <1>11, <2>1 DEF TidyOrSettled, Tidy

LEMMA TidyEnqueueWithdrawn ==
    ASSUME TypeInv, NEW r \in Runs \ met, Tidy(run[r]), NEW m \in Matches,
           EnqueueWithdrawn(r, m)
    PROVE  TidyOrSettled(run[r])'
<1> DEFINE b == WithdrawnBody(run[r].now)
           s == [run[r] EXCEPT !.out = run[r].out \ {m}]
<1>0. /\ run \in [Runs -> RunState] /\ run[r] \in RunState /\ run[r].pc = "push"
      /\ Shape(run[r]) /\ disk' = disk /\ tmp' = tmp /\ m \in run[r].out /\ m # Index
      /\ run' = [run EXCEPT ![r] = s] /\ TryEnqueue(r, m, b)
  BY PublishAssumption DEF TypeInv, TypeOK, EnqueueWithdrawn, Tidy
<1>1. /\ Pending(run[r]) = run[r].out /\ ~Publishing(run[r]) /\ IndexWritten(run[r])
      /\ Withdrawing(run[r])
  BY <1>0 DEF Pending, Publishing, Withdrawing, IndexWritten
<1>2. OnDisk(m, b)
  BY <1>0 DEF Tidy, FilesInv
<1>3. /\ \A n \in Names \ dirty' : n = m \/ Coherent(n) => Coherent(n)'
      /\ \A n \in Names : n # m => (n \in dirty <=> n \in dirty')
      /\ \A n \in Matches : n # m => wire'[n] = wire[n]
  BY <1>0, <1>2, EnqueueOfDisk DEF TypeInv
<1>4. /\ s.pc = "push" /\ s.now = run[r].now /\ s.listed = run[r].listed
      /\ s.todo = run[r].todo /\ s.done = run[r].done /\ s.gone = run[r].gone
      /\ s.out = run[r].out \ {m} /\ s.prior = run[r].prior /\ s \in RunState
  BY <1>0, RunFields DEF RunState
<1>5. run'[r] = s
  BY <1>0
<1>6. ~Live(m)
  BY <1>2, BodyFields DEF OnDisk, Live
<1> HIDE DEF s, b
<1>7. Shape(run'[r])
  BY <1>0, <1>4, <1>5 DEF Shape, Publishing
<1>8. FilesInv(run[r])'
  BY <1>0, <1>4, <1>5 DEF Tidy, FilesInv, OnDisk
<1>p. Pending(run'[r]) = run[r].out \ {m}
  BY <1>4, <1>5 DEF Pending
<1>9. CoherenceInv(run[r])'
  <2>1. ASSUME NEW n \in Names, n \notin dirty', n \notin Pending(run'[r]) PROVE Coherent(n)'
    <3>1. CASE n = m
      BY <1>3, <2>1, <3>1
    <3>2. CASE n # m
      <4>1. n \notin dirty \cup Pending(run[r])
        BY <1>1, <1>3, <1>p, <2>1, <3>2
      <4>2. Coherent(n)
        BY <4>1 DEF Tidy, CoherenceInv
      <4>3. QED
        BY <1>3, <2>1, <4>2
    <3>3. QED
      BY <3>1, <3>2
  <2>2. QED
    BY <2>1 DEF CoherenceInv
<1>10. IndexInv(run[r])'
  <2>1. \A k \in Matches : k # m /\ k \notin dirty' => k \notin dirty
    BY <1>3 DEF Names
  <2>2. \A k \in Matches : Live(k)' = Live(k)
    BY <1>0 DEF Live
  <2>3. Withdrawing(run'[r]) /\ IndexWritten(run'[r])
    BY <1>4, <1>5 DEF Withdrawing, IndexWritten
  <2>4. disk'[Index]["json"].ids =
          IF run'[r].done # {} THEN run'[r].done ELSE run'[r].prior
    BY <1>0, <1>1, <1>4, <1>5 DEF Tidy, IndexInv
  <2>5. \A k \in Matches \ dirty' :
          Live(k)' => k \in run'[r].prior \cup run'[r].done \cup Pending(run'[r])
    BY <1>1, <1>4, <1>5, <1>6, <1>p, <2>1, <2>2 DEF Tidy, IndexInv
  <2>6. \A k \in (run'[r].prior \ run'[r].done) \ dirty' :
          Live(k)' => k \in run'[r].gone \cup Pending(run'[r])
    <3>1. run[r].prior \subseteq Matches
      BY <1>0, RunFields
    <3>2. QED
      BY <1>1, <1>4, <1>5, <1>6, <1>p, <2>1, <2>2, <3>1 DEF Tidy, IndexInv
  <2>7. QED
    BY <2>3, <2>4, <2>5, <2>6 DEF IndexInv
<1>11. StreamInv(run[r])'
  <2>1. Unsent(run'[r]) = (run[r].gone \cup (run[r].out \ {m})) \ {Index}
    BY <1>4, <1>5, <1>p DEF Unsent, Publishing
  <2>2. Unsent(run[r]) = (run[r].gone \cup run[r].out) \ {Index}
    BY <1>1 DEF Unsent
  <2>3. run[r].gone \cap run[r].out = {} /\ run[r].gone \subseteq Matches /\ run[r].out \subseteq Matches
    BY <1>0, RunFields DEF Shape
  <2>4. QED
    BY <1>0, <1>3, <1>4, <1>5, <2>1, <2>2, <2>3 DEF Tidy, StreamInv
<1>12. QED
  <2>1. run'[r] # Idle
    BY <1>4, <1>5, NotIdle
  <2>2. QED
    BY <1>7, <1>8, <1>9, <1>10, <1>11, <2>1 DEF TidyOrSettled, Tidy

LEMMA TidyWriteTmp ==
    ASSUME TypeInv, NEW r \in Runs, Tidy(run[r]), WriteTmp(r)
    PROVE  TidyOrSettled(run[r])'
<1> DEFINE s == [run[r] EXCEPT !.opened = TRUE]
<1>0. /\ run \in [Runs -> RunState] /\ run[r] \in RunState /\ run[r].pc = "write"
      /\ Shape(run[r]) /\ UNCHANGED <<disk, wire, dirty>>
      /\ tmp \in [Names -> [Parts -> Body]]
      /\ tmp' = [tmp EXCEPT ![run[r].name][run[r].part] = run[r].body]
      /\ run' = [run EXCEPT ![r] = s]
  BY DEF TypeInv, TypeOK, WriteTmp, Tidy
<1>1. /\ s.pc = "write" /\ s.now = run[r].now /\ s.listed = run[r].listed
      /\ s.todo = run[r].todo /\ s.done = run[r].done /\ s.gone = run[r].gone
      /\ s.out = run[r].out /\ s.prior = run[r].prior /\ s \in RunState
      /\ s.name = run[r].name /\ s.body = run[r].body /\ s.part = run[r].part
  BY <1>0, RunFields DEF RunState
<1>2. run'[r] = s
  BY <1>0
<1>3. tmp'[run[r].name][run[r].part] = run[r].body
  BY <1>0, RunFields
<1> HIDE DEF s
<1>4. Shape(run'[r])
  BY <1>0, <1>1, <1>2 DEF Shape, Publishing
<1>5. FilesInv(run[r])'
  BY <1>0, <1>1, <1>2, <1>3 DEF Tidy, FilesInv, OnDisk
<1>6. CoherenceInv(run[r])'
  BY <1>0, <1>1, <1>2 DEF Tidy, CoherenceInv, Coherent, Pending
<1>7. IndexInv(run[r])'
  BY <1>0, <1>1, <1>2 DEF Tidy, IndexInv, IndexWritten, Withdrawing, Pending, Live
<1>8. StreamInv(run[r])'
  BY <1>0, <1>1, <1>2 DEF Tidy, StreamInv, Unsent, Publishing, Pending
<1>9. QED
  <2>1. run'[r] # Idle
    BY <1>1, <1>2, NotIdle
  <2>2. QED
    BY <1>4, <1>5, <1>6, <1>7, <1>8, <2>1 DEF TidyOrSettled, Tidy

LEMMA TidyRename ==
    ASSUME TypeInv, NEW r \in Runs \ met, Tidy(run[r]), Rename(r)
    PROVE  TidyOrSettled(run[r])'
<1> DEFINE n == run[r].name
           p == run[r].part
           b == run[r].body
           t == [run[r] EXCEPT !.part = "etag", !.opened = FALSE]
           s == IF p = "etag" THEN Written(run[r]) ELSE t
<1>0. /\ run \in [Runs -> RunState] /\ run[r] \in RunState /\ run[r].pc = "write"
      /\ run[r].opened /\ Shape(run[r]) /\ wire' = wire
      /\ disk \in [Names -> [Parts -> Body]] /\ n \in Names /\ p \in Parts /\ b \in Body
      /\ p \in {"json", "etag"}
      /\ run' = [run EXCEPT ![r] = s] /\ disk' = [disk EXCEPT ![n][p] = tmp[n][p]]
      /\ dirty' = IF n = Index /\ p = "etag" THEN dirty \ {Index} ELSE dirty
  BY RunFields DEF TypeInv, TypeOK, Rename, Tidy, LastPart, Cleaned, Parts
<1>1. tmp[n][p] = b
  BY <1>0 DEF Tidy, FilesInv
<1>2. \A k \in Names, q \in Parts :
        disk'[k][q] = IF k = n /\ q = p THEN b ELSE disk[k][q]
  BY <1>0, <1>1
<1>3. "json" \in Parts /\ "etag" \in Parts /\ Index \in Names /\ Matches \subseteq Names
      /\ Index \notin Matches
  BY PublishAssumption DEF Parts, Names
<1>4. b.state \in {"live", "index", "withdrawn"}
  BY <1>0 DEF Shape
<1>5. /\ b.state = "live" => n \in Matches /\ n \notin run[r].done /\ b = LiveBody(run[r].now)
                             /\ run[r].out = {} /\ run[r].gone = {}
      /\ b.state = "index" => n = Index /\ b.ids = run[r].done /\ run[r].out = {}
                              /\ run[r].done # {}
      /\ b.state = "withdrawn" => n \in Matches /\ b = WithdrawnBody(run[r].now)
                                  /\ n \in run[r].prior \ run[r].done
      /\ n \notin run[r].out /\ run[r].out \subseteq Names
  BY <1>0, <1>3, <1>4, RunFields, BodyFields DEF Shape, Publishing
<1>6. p = "etag" => disk[n]["json"] = b
  BY <1>0 DEF Tidy, FilesInv
<1>7. /\ s.now = run[r].now /\ s.listed = run[r].listed
      /\ s.todo = run[r].todo /\ s.done = run[r].done /\ s.gone = run[r].gone
      /\ s.prior = run[r].prior /\ s \in RunState /\ s.name = n /\ s.body = b
      /\ s.pc = IF p = "json" THEN "write" ELSE IF b.state = "live" THEN "enqueue" ELSE "detect"
      /\ s.out = IF p = "etag" /\ b.state = "withdrawn" THEN run[r].out \cup {n}
                                                        ELSE run[r].out
      /\ p = "json" => s.part = "etag" /\ ~s.opened
  <2>1. CASE p = "json"
    <3>1. s = t
      BY <2>1
    <3>2. QED
      BY <1>0, <2>1, <3>1, RunFields DEF RunState, Parts
  <2>2. CASE p = "etag" /\ b.state = "live"
    <3>1. s = [run[r] EXCEPT !.pc = "enqueue"]
      BY <2>2 DEF Written
    <3>2. QED
      BY <1>0, <2>2, <3>1, RunFields DEF RunState
  <2>3. CASE p = "etag" /\ b.state = "index"
    <3>1. s = [run[r] EXCEPT !.pc = "detect"]
      BY <2>3 DEF Written
    <3>2. QED
      BY <1>0, <2>3, <3>1, RunFields DEF RunState
  <2>4. CASE p = "etag" /\ b.state = "withdrawn"
    <3>1. s = [run[r] EXCEPT !.pc = "detect", !.out = run[r].out \cup {n}]
      BY <2>4 DEF Written
    <3>2. n \in Matches /\ run[r].out \cup {n} \in SUBSET Matches
      BY <1>0, <1>5, <2>4, RunFields
    <3> HIDE DEF s, n, b
    <3>3. /\ s.now = run[r].now /\ s.listed = run[r].listed
          /\ s.todo = run[r].todo /\ s.done = run[r].done /\ s.gone = run[r].gone
          /\ s.prior = run[r].prior /\ s.name = run[r].name /\ s.body = run[r].body
          /\ s.pc = "detect" /\ s.out = run[r].out \cup {n}
      BY <1>0, <3>1 DEF RunState
    <3>4. s \in RunState
      BY <1>0, <3>1, <3>2 DEF RunState
    <3>5. QED
      BY <2>4, <3>3, <3>4 DEF n, b
  <2>5. QED
    BY <1>0, <1>4, <2>1, <2>2, <2>3, <2>4
<1>8. run'[r] = s
  BY <1>0
<1> HIDE DEF s, t
<1>9. Pending(run[r]) = run[r].out \cup {n}
  BY <1>0 DEF Pending
<1>10. Pending(s) = IF p = "etag" /\ b.state = "index" THEN {} ELSE run[r].out \cup {n}
  BY <1>0, <1>4, <1>5, <1>7 DEF Pending
<1>11. Publishing(s) <=> b.state = "live"
  BY <1>0, <1>4, <1>7 DEF Publishing
<1>12. Publishing(run[r]) <=> b.state = "live"
  BY <1>0 DEF Publishing
<1>13. Withdrawing(s) <=> b.state # "live"
  BY <1>0, <1>4, <1>7 DEF Withdrawing
<1>14. Withdrawing(run[r]) <=> b.state # "live"
  BY <1>0 DEF Withdrawing
<1>15. Shape(run'[r])
  <2>1. s.pc = "write" => run[r].pc = "write" /\ s.out = run[r].out
    BY <1>0, <1>7
  <2>2. CASE p = "json"
    BY <1>0, <1>7, <1>8, <2>2 DEF Shape, Publishing
  <2>3. CASE p = "etag" /\ b.state = "live"
    BY <1>0, <1>5, <1>7, <1>8, <2>3 DEF Shape, Publishing
  <2>4. CASE p = "etag" /\ b.state = "index"
    BY <1>0, <1>5, <1>7, <1>8, <2>4 DEF Shape, Publishing
  <2>5. CASE p = "etag" /\ b.state = "withdrawn"
    BY <1>0, <1>5, <1>7, <1>8, <2>5 DEF Shape, Publishing
  <2>6. QED
    BY <1>0, <1>4, <2>2, <2>3, <2>4, <2>5
<1>16. p = "etag" => OnDisk(n, b)'
  <2>1. p = "etag" => disk'[n]["json"] = b /\ disk'[n]["etag"] = b
    BY <1>0, <1>2, <1>3, <1>6
  <2>2. n' = n /\ b' = b
    BY <1>7, <1>8
  <2>3. QED
    BY <2>1, <2>2 DEF OnDisk
<1>17. FilesInv(run[r])'
  <2>1. run'[r].pc = "write" => ~run'[r].opened
    BY <1>0, <1>7, <1>8
  <2>2. run'[r].pc = "write" /\ run'[r].part = "etag" => disk'[run'[r].name]["json"] = run'[r].body
    BY <1>0, <1>2, <1>3, <1>7, <1>8
  <2>3. run'[r].pc = "enqueue" => OnDisk(run[r].name, run[r].body)'
    BY <1>0, <1>2, <1>3, <1>6, <1>7, <1>8 DEF OnDisk
  <2>4. \A k \in run[r].out : OnDisk(k, WithdrawnBody(run[r].now))'
    BY <1>2, <1>3, <1>5, <1>7, <1>8 DEF Tidy, FilesInv, OnDisk
  <2>5. p = "etag" /\ b.state = "withdrawn" => OnDisk(n, WithdrawnBody(run[r].now))'
    BY <1>5, <1>7, <1>8, <1>16 DEF OnDisk
  <2>6. \A k \in run'[r].out : OnDisk(k, WithdrawnBody(run[r].now))'
    <3>1. ASSUME NEW k \in run'[r].out PROVE OnDisk(k, WithdrawnBody(run[r].now))'
      <4>1. CASE k \in run[r].out
        BY <2>4, <4>1
      <4>2. CASE k = n /\ p = "etag" /\ b.state = "withdrawn"
        <5>1. WithdrawnBody(run'[r].now) = b
          BY <1>5, <1>7, <1>8, <4>2
        <5>2. disk'[k]["json"] = b /\ disk'[k]["etag"] = b
          BY <1>0, <1>2, <1>3, <1>6, <4>2
        <5>3. QED
          BY <5>1, <5>2 DEF OnDisk
      <4>3. QED
        BY <1>7, <1>8, <4>1, <4>2
    <3>2. QED
      BY <3>1
  <2>7. QED
    BY <2>1, <2>2, <2>3, <2>6 DEF FilesInv
<1>18. CoherenceInv(run[r])'
  <2>1. ASSUME NEW k \in Names, k \notin dirty', k \notin Pending(run'[r]) PROVE Coherent(k)'
    <3>1. CASE k = n
      <4>1. p = "etag" /\ b.state = "index" /\ n = Index
        BY <1>5, <1>8, <1>10, <2>1, <3>1
      <4>2. disk'[k]["json"] = b /\ disk'[k]["etag"] = b
        BY <1>0, <1>2, <1>3, <1>6, <3>1, <4>1
      <4>3. QED
        BY <1>3, <3>1, <4>1, <4>2 DEF Coherent
    <3>2. CASE k # n
      <4>1. k \notin dirty \cup Pending(run[r])
        BY <1>0, <1>5, <1>8, <1>9, <1>10, <2>1, <3>2
      <4>2. Coherent(k)
        BY <4>1 DEF Tidy, CoherenceInv
      <4>3. QED
        BY <1>0, <1>2, <1>3, <3>2, <4>2 DEF Coherent
    <3>3. QED
      BY <3>1, <3>2
  <2>2. QED
    BY <2>1 DEF CoherenceInv
<1>19. IndexInv(run[r])'
  <2>1. \A k \in Matches : k # n => (Live(k)' <=> Live(k))
    BY <1>2, <1>3 DEF Live
  <2>2. \A k \in Matches : k \in dirty <=> k \in dirty'
    BY <1>0, <1>3
  <2>3. \A k \in Matches : k \in Pending(s) <=> k \in Pending(run[r])
    BY <1>3, <1>5, <1>9, <1>10
  <2>4. n \in Matches => n \in Pending(s)
    BY <1>3, <1>5, <1>10
  <2>5. \A k \in Matches \ dirty' :
          Live(k)' => k \in run'[r].prior \cup run'[r].done \cup Pending(run'[r])
    BY <1>7, <1>8, <2>1, <2>2, <2>3, <2>4 DEF Tidy, IndexInv
  <2>6. Withdrawing(run'[r]) => \A k \in (run'[r].prior \ run'[r].done) \ dirty' :
          Live(k)' => k \in run'[r].gone \cup Pending(run'[r])
    <3>1. run[r].prior \subseteq Matches
      BY <1>0, RunFields
    <3>2. QED
      BY <1>7, <1>8, <1>13, <1>14, <2>1, <2>2, <2>3, <2>4, <3>1 DEF Tidy, IndexInv
  <2>7. disk'[Index]["json"].ids =
          IF IndexWritten(s) /\ s.done # {} THEN s.done ELSE s.prior
    <3>1. CASE b.state = "index"
      <4>1. disk'[Index]["json"] = b
        BY <1>0, <1>2, <1>3, <1>5, <1>6, <3>1
      <4>2. IndexWritten(s) /\ s.done # {}
        BY <1>0, <1>5, <1>7, <1>13, <3>1 DEF IndexWritten
      <4>3. QED
        BY <1>5, <1>7, <3>1, <4>1, <4>2
    <3>2. CASE b.state # "index"
      <4>1. disk'[Index]["json"] = disk[Index]["json"]
        BY <1>2, <1>3, <1>4, <1>5, <3>2
      <4>2. IndexWritten(s) <=> IndexWritten(run[r])
        BY <1>7, <1>13, <1>14, <3>2 DEF IndexWritten
      <4>3. QED
        BY <1>7, <4>1, <4>2 DEF Tidy, IndexInv
    <3>3. QED
      BY <3>1, <3>2
  <2>8. QED
    BY <1>8, <2>5, <2>6, <2>7 DEF IndexInv
<1>20. StreamInv(run[r])'
  <2>1. Unsent(s) \subseteq Unsent(run[r])
    BY <1>5, <1>7, <1>9, <1>10, <1>11, <1>12 DEF Unsent
  <2>2. QED
    BY <1>0, <1>7, <1>8, <2>1 DEF Tidy, StreamInv
<1>21. QED
  <2>1. s.pc # "idle"
    BY <1>7
  <2>2. run'[r] # Idle
    BY <1>8, <2>1, NotIdle
  <2>3. QED
    BY <1>15, <1>17, <1>18, <1>19, <1>20, <2>2 DEF TidyOrSettled, Tidy

-----------------------------------------------------------------------------
(* The ways a run ends, and the write that raises                            *)

LEMMA SettledOfTidy ==
    ASSUME NEW s, Tidy(s), disk' = disk, wire' = wire,
           dirty \subseteq dirty', Pending(s) \subseteq dirty',
           \A m \in Matches \ dirty' : Live(m) => m \in disk[Index]["json"].ids
    PROVE  Settled'
<1>1. \A n \in Names \ dirty' : Coherent(n)
  BY DEF Tidy, CoherenceInv
<1>2. QED
  BY <1>1 DEF Settled, Coherent, Live

LEMMA TidyEnd ==
    ASSUME TypeInv, NEW r \in Runs, Tidy(run[r]), DetectFails(r) \/ End(r) \/ Kill(r)
    PROVE  TidyOrSettled(run[r])'
<1>0. /\ run \in [Runs -> RunState] /\ run[r] \in RunState /\ Shape(run[r])
      /\ disk' = disk /\ wire' = wire /\ run' = [run EXCEPT ![r] = Idle]
      /\ dirty \subseteq dirty'
  BY DEF TypeInv, TypeOK, DetectFails, End, Kill, Tidy
<1>1. CASE Kill(r)
  <2>1. dirty' = dirty \cup Touched(run[r])
    BY <1>1 DEF Kill
  <2>2. Pending(run[r]) \subseteq Touched(run[r]) /\ run[r].done \subseteq Touched(run[r])
        /\ run[r].prior \subseteq Touched(run[r])
    BY <1>0 DEF Shape, Pending, Touched
  <2>3. \A m \in Matches \ dirty' : ~Live(m)
    BY <2>1, <2>2 DEF Tidy, IndexInv
  <2>4. QED
    BY <1>0, <2>1, <2>2, <2>3, SettledOfTidy, SettledOfEnd
<1>2. CASE DetectFails(r) \/ End(r)
  <2>1. /\ run[r].pc \in {"detect", "push"} /\ Pending(run[r]) = run[r].out
        /\ run[r].gone \cup run[r].out \subseteq dirty'
    BY <1>0, <1>2 DEF DetectFails, End, Pending, Shape
  <2>2. Withdrawing(run[r]) /\ IndexWritten(run[r])
    BY <2>1 DEF Withdrawing, IndexWritten
  <2>3. \A m \in Matches \ dirty' : Live(m) => m \in run[r].done
    BY <1>0, <2>1, <2>2 DEF Tidy, IndexInv
  <2>4. disk[Index]["json"].ids = IF run[r].done # {} THEN run[r].done ELSE run[r].prior
    BY <2>2 DEF Tidy, IndexInv
  <2>5. \A m \in Matches \ dirty' : Live(m) => m \in disk[Index]["json"].ids
    BY <2>3, <2>4
  <2>6. QED
    BY <1>0, <2>1, <2>5, SettledOfTidy, SettledOfEnd
<1>3. QED
  BY <1>1, <1>2

LEMMA TidyRaises ==
    ASSUME TypeInv, NEW r \in Runs, Tidy(run[r]), run[r].pc = "write", WriteRaises(r)
    PROVE  TidyOrSettled(run[r])'
<1>0. /\ run \in [Runs -> RunState] /\ run[r] \in RunState /\ Shape(run[r])
      /\ disk' = disk /\ tmp' = tmp /\ wire' = wire /\ run[r].pc = "write"
      /\ run[r].body.state \in {"live", "index", "withdrawn"}
  BY DEF TypeInv, TypeOK, WriteRaises, Tidy, Shape
<1>1. CASE run[r].body.state = "index"
  <2>1. run' = [run EXCEPT ![r] = Idle] /\ dirty' = dirty \cup Touched(run[r])
    BY <1>1 DEF WriteRaises
  <2>2. Pending(run[r]) \subseteq Touched(run[r]) /\ run[r].done \subseteq Touched(run[r])
        /\ run[r].prior \subseteq Touched(run[r])
    BY <1>0, <1>1 DEF Shape, Pending, Touched
  <2>3. \A m \in Matches \ dirty' : ~Live(m)
    BY <2>1, <2>2 DEF Tidy, IndexInv
  <2>4. QED
    BY <1>0, <2>1, <2>2, <2>3, SettledOfTidy, SettledOfEnd
<1>2. CASE run[r].body.state # "index"
  <2> DEFINE n == run[r].name
             s == [run[r] EXCEPT !.pc = IF run[r].body.state = "live" THEN "fixture" ELSE "detect"]
  <2>1. run' = [run EXCEPT ![r] = s] /\ dirty' = dirty \cup {n}
    BY <1>2 DEF WriteRaises
  <2>2. /\ s.pc = IF run[r].body.state = "live" THEN "fixture" ELSE "detect"
        /\ s.now = run[r].now /\ s.listed = run[r].listed
        /\ s.todo = run[r].todo /\ s.done = run[r].done /\ s.gone = run[r].gone
        /\ s.out = run[r].out /\ s.prior = run[r].prior /\ s \in RunState
    BY <1>0, RunFields DEF RunState
  <2>3. run'[r] = s
    BY <1>0, <2>1
  <2>4. Pending(run[r]) = run[r].out \cup {n}
    BY <1>0 DEF Pending
  <2> HIDE DEF s, n
  <2>5. Pending(s) = run[r].out
    BY <2>2 DEF Pending
  <2>6. /\ Publishing(s) <=> run[r].body.state = "live"
        /\ Publishing(run[r]) <=> run[r].body.state = "live"
        /\ Withdrawing(s) <=> run[r].body.state # "live"
        /\ Withdrawing(run[r]) <=> run[r].body.state # "live"
    BY <1>0, <2>2 DEF Publishing, Withdrawing
  <2>7. Shape(run'[r])
    BY <1>0, <1>2, <2>2, <2>3, <2>6 DEF Shape
  <2>8. FilesInv(run[r])'
    BY <1>0, <2>2, <2>3 DEF Tidy, FilesInv, OnDisk
  <2>9. CoherenceInv(run[r])'
    BY <1>0, <2>1, <2>3, <2>4, <2>5 DEF Tidy, CoherenceInv, Coherent
  <2>10. IndexInv(run[r])'
    <3>1. IndexWritten(s) <=> IndexWritten(run[r])
      BY <1>0, <1>2, <2>2, <2>6 DEF IndexWritten
    <3>2. QED
      BY <1>0, <2>1, <2>2, <2>3, <2>4, <2>5, <2>6, <3>1 DEF Tidy, IndexInv, Live
  <2>11. StreamInv(run[r])'
    BY <1>0, <2>2, <2>3, <2>4, <2>5, <2>6 DEF Tidy, StreamInv, Unsent
  <2>12. QED
    <3>1. run'[r] # Idle
      BY <2>2, <2>3, NotIdle
    <3>2. QED
      BY <2>7, <2>8, <2>9, <2>10, <2>11, <3>1 DEF TidyOrSettled, Tidy
<1>3. QED
  BY <1>1, <1>2

-----------------------------------------------------------------------------
(* Time: no body is of a later `now` than the last one taken.                *)

Held(s) == s.now <= clock /\ s.body.at <= clock

ClockInv ==
    /\ \A m \in Matches : wire[m].at <= clock
    /\ \A r \in Runs : Held(run[r])

LEMMA ClockType == TypeInv => clock \in Nat
  BY PublishAssumption DEF TypeInv, TypeOK

LEMMA IdleHeld == TypeInv => Held(Idle)
<1> SUFFICES ASSUME TypeInv PROVE Held(Idle)
  OBVIOUS
<1>1. Idle.now = 0 /\ Idle.body.at = 0
  BY DEF Idle, Absent
<1>2. QED
  BY <1>1, ClockType DEF Held

LEMMA ClockInit == Init => ClockInv
<1> SUFFICES ASSUME Init PROVE ClockInv
  OBVIOUS
<1>1. clock = 0 /\ \A m \in Matches : wire[m].at = 0
  BY BodyFields DEF Init
<1>2. \A r \in Runs : Held(run[r])
  BY IdleHeld, TypeInit DEF Init
<1>3. QED
  BY <1>1, <1>2 DEF ClockInv

LEMMA ClockOfStep ==
    ASSUME TypeInv, ClockInv, NEW r \in Runs, NEW s, Held(s), UNCHANGED clock,
           run' = [run EXCEPT ![r] = s], \A m \in Matches : wire'[m].at <= clock
    PROVE  ClockInv'
<1>1. \A q \in Runs : run'[q] = run[q] \/ run'[q] = s
  BY DEF TypeInv, TypeOK
<1>2. QED
  BY <1>1 DEF ClockInv, Held

LEMMA ClockStep ==
    ASSUME TypeInv, ClockInv, NEW r \in Runs, Step(r)
    PROVE  ClockInv'
<1>0. /\ run \in [Runs -> RunState] /\ run[r] \in RunState /\ Held(run[r]) /\ clock \in Nat
      /\ wire \in [Matches -> Body] /\ Held(Idle) /\ Fits(run[r])
      /\ \A m \in Matches : wire[m].at <= clock
  BY ClockType, IdleHeld DEF TypeInv, TypeOK, ClockInv
<1>1. CASE Start(r)
  <2>1. PICK opens \in BOOLEAN :
          run' = [run EXCEPT ![r] = [Idle EXCEPT
                      !.pc = "ingest", !.push = opens, !.prior = disk[Index].json.ids]]
    BY <1>1 DEF Start
  <2> DEFINE s == [Idle EXCEPT !.pc = "ingest", !.push = opens, !.prior = disk[Index].json.ids]
  <2>2. s.now = Idle.now /\ s.body = Idle.body
    BY DEF Idle
  <2>3. Held(s)
    BY <1>0, <2>2 DEF Held
  <2> HIDE DEF s
  <2>4. QED
    BY <1>0, <1>1, <2>1, <2>3, ClockOfStep DEF Start, s
<1>2. CASE IngestNothing(r) \/ DetectFails(r) \/ End(r) \/ Kill(r)
  BY <1>0, <1>2, ClockOfStep DEF IngestNothing, DetectFails, End, Kill
<1>3. ASSUME NEW ms \in SUBSET Matches, Ingest(r, ms) PROVE ClockInv'
  <2> DEFINE s == [run[r] EXCEPT !.pc = "fixture", !.now = clock + 1,
                                 !.listed = ms, !.todo = ms]
  <2>1. s.now = clock + 1 /\ s.body = run[r].body
    BY <1>0 DEF RunState
  <2>2. run' = [run EXCEPT ![r] = s] /\ clock' = clock + 1 /\ wire' = wire
    BY <1>3 DEF Ingest
  <2> HIDE DEF s
  <2>3. \A q \in Runs : run'[q] = IF q = r THEN s ELSE run[q]
    BY <1>0, <2>2
  <2>4. \A m \in Matches : wire'[m].at <= clock'
    BY <1>0, <2>2 DEF Body
  <2>5. \A q \in Runs : run[q].now \in Nat /\ run[q].body.at \in Nat
    BY <1>0, RunFields DEF Body
  <2>6. \A q \in Runs : run'[q].now <= clock' /\ run'[q].body.at <= clock'
    BY <1>0, <2>1, <2>2, <2>3, <2>5 DEF ClockInv, Held
  <2>7. QED
    BY <2>4, <2>6 DEF ClockInv, Held
<1>4. ASSUME NEW m \in Matches, BuildFails(r, m) \/ SkipWithdraw(r, m) PROVE ClockInv'
  <2>1. PICK s \in RunState : run' = [run EXCEPT ![r] = s] /\ s.now = run[r].now
                              /\ s.body = run[r].body
    <3> DEFINE f == [run[r] EXCEPT !.todo = run[r].todo \ {m}]
               d == [run[r] EXCEPT !.gone = run[r].gone \ {m}]
    <3>1. /\ f \in RunState /\ f.now = run[r].now /\ f.body = run[r].body
          /\ d \in RunState /\ d.now = run[r].now /\ d.body = run[r].body
      BY <1>0, RunFields DEF RunState
    <3>2. run' = [run EXCEPT ![r] = f] \/ run' = [run EXCEPT ![r] = d]
      BY <1>4 DEF BuildFails, SkipWithdraw
    <3> HIDE DEF f, d
    <3>3. QED
      BY <3>1, <3>2
  <2>2. Held(s) /\ UNCHANGED <<clock, wire>>
    BY <1>0, <1>4, <2>1 DEF Held, BuildFails, SkipWithdraw
  <2>3. QED
    BY <1>0, <2>1, <2>2, ClockOfStep
<1>5. ASSUME NEW m \in Matches, Build(r, m) \/ Withdraw(r, m) PROVE ClockInv'
  <2>1. PICK s : /\ run' = [run EXCEPT ![r] = s] /\ s.now = run[r].now
                 /\ s.body \in {LiveBody(run[r].now), WithdrawnBody(run[r].now)}
    <3> DEFINE f == [run[r] EXCEPT !.todo = run[r].todo \ {m}]
               d == [run[r] EXCEPT !.gone = run[r].gone \ {m}]
               w == Writing(f, m, LiveBody(run[r].now))
               g == Writing(d, m, WithdrawnBody(run[r].now))
    <3>1. /\ w.now = run[r].now /\ w.body = LiveBody(run[r].now)
          /\ g.now = run[r].now /\ g.body = WithdrawnBody(run[r].now)
      BY <1>0 DEF RunState, Writing
    <3>2. run' = [run EXCEPT ![r] = w] \/ run' = [run EXCEPT ![r] = g]
      BY <1>5 DEF Build, Withdraw
    <3> HIDE DEF w, g
    <3>3. QED
      BY <3>1, <3>2
  <2>2. Held(s) /\ UNCHANGED <<clock, wire>>
    BY <1>0, <1>5, <2>1, BodyFields DEF Held, Build, Withdraw
  <2>3. QED
    BY <1>0, <2>1, <2>2, ClockOfStep
<1>6. CASE EndFixtures(r)
  <2> DEFINE t == [run[r] EXCEPT !.pc = "detect", !.gone = Missing(run[r])]
             w == Writing(t, Index, IndexBody(t.now, IndexIds(t)))
  <2>1. /\ t.now = run[r].now /\ t.body = run[r].body /\ w.now = run[r].now
        /\ w.body.at = run[r].now
    BY <1>0, BodyFields DEF RunState, Writing
  <2>2. run' = [run EXCEPT ![r] = IF t.done # {} THEN w ELSE t] /\ UNCHANGED <<clock, wire>>
    BY <1>6 DEF EndFixtures
  <2> HIDE DEF w, t
  <2>3. Held(w) /\ Held(t)
    BY <1>0, <2>1 DEF Held
  <2>4. QED
    BY <1>0, <2>2, <2>3, ClockOfStep
<1>7. CASE EnqueueLive(r)
  <2> DEFINE s == [run[r] EXCEPT !.pc = "fixture", !.done = run[r].done \cup {run[r].name}]
  <2>1. s.now = run[r].now /\ s.body = run[r].body
    BY <1>0 DEF RunState
  <2>2. run' = [run EXCEPT ![r] = s] /\ UNCHANGED clock /\ TryEnqueue(r, run[r].name, run[r].body)
    BY <1>7 DEF EnqueueLive
  <2> HIDE DEF s
  <2>3. Held(s) /\ run[r].body.at <= clock
    BY <1>0, <2>1 DEF Held
  <2>4. \A m \in Matches : wire'[m] = wire[m] \/ wire'[m] = run[r].body
    BY <1>0, <2>2 DEF TryEnqueue
  <2>5. \A m \in Matches : wire'[m].at <= clock
    BY <1>0, <2>3, <2>4
  <2>6. QED
    BY <2>2, <2>3, <2>5, ClockOfStep
<1>8. ASSUME NEW k \in Matches, EnqueueWithdrawn(r, k) PROVE ClockInv'
  <2> DEFINE s == [run[r] EXCEPT !.out = run[r].out \ {k}]
             b == WithdrawnBody(run[r].now)
  <2>1. s.now = run[r].now /\ s.body = run[r].body
    BY <1>0 DEF RunState
  <2>2. run' = [run EXCEPT ![r] = s] /\ UNCHANGED clock /\ TryEnqueue(r, k, b)
    BY <1>8 DEF EnqueueWithdrawn
  <2>3. b.at <= clock
    BY <1>0, BodyFields DEF Held
  <2> HIDE DEF s, b
  <2>4. Held(s)
    BY <1>0, <2>1 DEF Held
  <2>5. \A m \in Matches : wire'[m] = wire[m] \/ wire'[m] = b
    BY <1>0, <2>2 DEF TryEnqueue
  <2>6. \A m \in Matches : wire'[m].at <= clock
    BY <1>0, <2>3, <2>5
  <2>7. QED
    BY <2>2, <2>4, <2>6, ClockOfStep
<1>9. CASE Write(r) \/ EndDetect(r)
  <2>1. PICK s : run' = [run EXCEPT ![r] = s] /\ Held(s)
    <3> DEFINE a == [run[r] EXCEPT !.opened = TRUE]
               t == [run[r] EXCEPT !.part = "etag", !.opened = FALSE]
               e == [run[r] EXCEPT !.pc = "enqueue"]
               d == [run[r] EXCEPT !.pc = "detect"]
               o == [run[r] EXCEPT !.pc = "detect", !.out = @ \cup {run[r].name}]
               f == [run[r] EXCEPT !.pc = "fixture"]
               p == [run[r] EXCEPT !.pc = "push", !.out = ToPush(run[r])]
    <3>1. \A s \in {a, t, e, d, o, f, p} : s.now = run[r].now /\ s.body = run[r].body
      BY <1>0 DEF RunState
    <3>2. \E s \in {a, t, e, d, o, f, p, Idle} : run' = [run EXCEPT ![r] = s]
      <4>1. CASE WriteTmp(r) \/ EndDetect(r)
        BY <4>1 DEF WriteTmp, EndDetect
      <4>2. CASE Rename(r)
        <5>1. run' = [run EXCEPT ![r] = t] \/ run' = [run EXCEPT ![r] = Written(run[r])]
          BY <4>2 DEF Rename
        <5>2. Written(run[r]) \in {e, d, o}
          BY DEF Written
        <5>3. QED
          BY <5>1, <5>2
      <4>3. CASE WriteFault(r) \/ RenameLost(r)
        <5>1. WriteRaises(r)
          BY <4>3 DEF WriteFault, RenameLost
        <5>2. QED
          BY <5>1 DEF WriteRaises
      <4>4. QED
        BY <1>9, <4>1, <4>2, <4>3 DEF Write
    <3> HIDE DEF a, t, e, d, o, f, p
    <3>3. \A s \in {a, t, e, d, o, f, p, Idle} : Held(s)
      BY <1>0, <3>1 DEF Held
    <3>4. QED
      BY <3>2, <3>3
  <2>2. UNCHANGED <<clock, wire>>
    BY <1>9 DEF Write, WriteTmp, Rename, WriteFault, RenameLost, WriteRaises, EndDetect
  <2>3. QED
    BY <1>0, <2>1, <2>2, ClockOfStep
<1>10. QED
  BY <1>1, <1>2, <1>3, <1>4, <1>5, <1>6, <1>7, <1>8, <1>9 DEF Step

-----------------------------------------------------------------------------
(* Runs that meet, and runs that do not.                                     *)

SoloInv ==
    /\ \A r \in Active \ met : Active = {r} /\ Tidy(run[r])
    /\ Active \cap met # {} => dirty = Names
    /\ Active = {} => Settled

PublishInv == TypeInv /\ ClockInv /\ SoloInv

LEMMA OthersRest ==
    ASSUME TypeInv, NEW r \in Runs, Step(r)
    PROVE  \A q \in Runs : q # r => run'[q] = run[q]
<1>1. \E s : run' = [run EXCEPT ![r] = s]
  BY DEF Step, Start, IngestNothing, Ingest, BuildFails, Build, EnqueueLive, EndFixtures,
         Write, WriteTmp, Rename, WriteFault, RenameLost, WriteRaises, Withdraw,
         SkipWithdraw, DetectFails, EndDetect, EnqueueWithdrawn, End, Kill
<1>2. QED
  BY <1>1 DEF TypeInv, TypeOK

LEMMA OnlyStartsIdle ==
    ASSUME NEW r \in Runs, run[r] = Idle, Step(r)
    PROVE  Start(r)
<1>1. run[r].pc = "idle"
  BY DEF Idle
<1>2. QED
  BY <1>1 DEF Step, IngestNothing, Ingest, BuildFails, Build, EnqueueLive, EndFixtures,
         Write, WriteTmp, Rename, WriteFault, RenameLost, Withdraw,
         SkipWithdraw, DetectFails, EndDetect, EnqueueWithdrawn, End, Kill

\* A run that met another declares nothing clean.
LEMMA DirtyGrows ==
    ASSUME TypeInv, NEW r \in met, r \in Runs, run[r] # Idle, Step(r)
    PROVE  dirty \subseteq dirty'
  BY DEF Step, Start, IngestNothing, Ingest, BuildFails, Build, EnqueueLive, EndFixtures,
         Write, WriteTmp, Rename, WriteFault, RenameLost, WriteRaises, Withdraw,
         SkipWithdraw, DetectFails, EndDetect, EnqueueWithdrawn, End, Kill, TryEnqueue, Cleaned

LEMMA TidyStep ==
    ASSUME TypeInv, ClockInv, NEW r \in Runs \ met, run[r] # Idle, Tidy(run[r]), Step(r)
    PROVE  TidyOrSettled(run[r])'
<1>1. ~Start(r)
  BY DEF Start
<1>2. \A m \in Matches : wire[m].at <= clock
  BY DEF ClockInv
<1>3. CASE IngestNothing(r) \/ \E ms \in SUBSET Matches : Ingest(r, ms)
  BY <1>2, <1>3, TidyIngest
<1>4. CASE \E m \in Matches : \/ BuildFails(r, m) \/ Build(r, m)
                              \/ Withdraw(r, m) \/ SkipWithdraw(r, m)
                              \/ EnqueueWithdrawn(r, m)
  BY <1>4, TidyBuild, TidyWithdraw, TidyEnqueueWithdrawn
<1>5. CASE EnqueueLive(r) \/ EndFixtures(r) \/ EndDetect(r)
  BY <1>5, TidyEnqueueLive, TidyEndFixtures, TidyEndDetect
<1>6. CASE Write(r)
  <2>1. CASE WriteTmp(r) \/ Rename(r)
    BY <2>1, TidyWriteTmp, TidyRename
  <2>2. CASE WriteFault(r) \/ RenameLost(r)
    <3>1. run[r].pc = "write" /\ WriteRaises(r)
      BY <2>2 DEF WriteFault, RenameLost
    <3>2. QED
      BY <3>1, TidyRaises
  <2>3. QED
    BY <1>6, <2>1, <2>2 DEF Write
<1>7. CASE DetectFails(r) \/ End(r) \/ Kill(r)
  BY <1>7, TidyEnd
<1>8. QED
  BY <1>1, <1>3, <1>4, <1>5, <1>6, <1>7 DEF Step

LEMMA SoloInit == Init => SoloInv
<1> SUFFICES ASSUME Init PROVE SoloInv
  OBVIOUS
<1>1. Active = {}
  BY DEF Init, Active
<1>2. \A n \in Names : disk[n]["json"] = Absent /\ disk[n]["etag"] = Absent
  BY DEF Init, NoFiles, Parts
<1>3. \A m \in Matches : m \in Names /\ wire[m] = Absent
  BY DEF Init, Names
<1>4. Settled
  BY <1>2, <1>3, BodyFields DEF Settled, Coherent, Live
<1>5. QED
  BY <1>1, <1>4 DEF SoloInv

LEMMA SoloStep ==
    ASSUME PublishInv, NEW r \in Runs, Step(r), met' = Meeting(r)
    PROVE  SoloInv'
<1>0. TypeInv /\ ClockInv /\ SoloInv
  BY DEF PublishInv
<1>1. \A q \in Runs : q # r => run'[q] = run[q]
  BY <1>0, OthersRest
<1>2. Active \subseteq Runs /\ Active' \subseteq Runs /\ Active' \subseteq Active \cup {r}
  BY <1>1 DEF Active
<1>3. r \in Active <=> run[r] # Idle
  BY DEF Active
<1>4. r \in Active' <=> run'[r] # Idle
  BY DEF Active
<1>5. CASE Active = {}
  <2>1. Start(r) /\ met' = met \ {r}
    BY <1>3, <1>5, OnlyStartsIdle DEF Meeting
  <2>2. TidyOrSettled(run[r])'
    BY <1>0, <1>5, <2>1, TidyStart DEF SoloInv
  <2>3. Active' \subseteq {r} /\ r \notin met'
    BY <1>2, <1>5, <2>1
  <2>4. QED
    BY <1>4, <2>2, <2>3 DEF SoloInv, TidyOrSettled
<1>6. CASE Active = {r} /\ r \notin met
  <2>1. met' = met
    BY <1>3, <1>6 DEF Meeting
  <2>2. TidyOrSettled(run[r])'
    BY <1>0, <1>3, <1>6, TidyStep DEF SoloInv
  <2>3. Active' \subseteq {r} /\ r \notin met'
    BY <1>2, <1>6, <2>1
  <2>4. QED
    BY <1>4, <2>2, <2>3 DEF SoloInv, TidyOrSettled
<1>7. CASE Active # {} /\ r \notin Active
  <2>1. Start(r) /\ met' = met \cup Active \cup {r}
    BY <1>3, <1>7, OnlyStartsIdle DEF Meeting
  <2>2. dirty' = Names
    BY <1>7, <2>1 DEF Start
  <2>3. Active' \ met' = {}
    BY <1>2, <2>1
  <2>4. Settled'
    BY <2>2 DEF Settled, Names
  <2>5. Names' = Names
    BY DEF Names
  <2>6. QED
    BY <2>2, <2>3, <2>4, <2>5 DEF SoloInv
<1>8. CASE r \in Active /\ Active \subseteq met
  <2>1. dirty = Names /\ met' = met
    BY <1>0, <1>3, <1>8 DEF SoloInv, Meeting
  <2>2. dirty \subseteq dirty' /\ dirty' \subseteq Names
    <3>1. dirty \subseteq dirty'
      BY <1>0, <1>3, <1>8, DirtyGrows
    <3>2. TypeInv'
      BY <1>0, <2>1, TypeStep DEF Next
    <3>3. QED
      BY <3>1, <3>2 DEF TypeInv, TypeOK, Names
  <2>3. Active' \ met' = {}
    BY <1>2, <1>8, <2>1
  <2>4. dirty' = Names /\ Names' = Names
    BY <2>1, <2>2 DEF Names
  <2>5. Settled'
    BY <2>4 DEF Settled, Names
  <2>6. QED
    BY <2>3, <2>4, <2>5 DEF SoloInv
<1>9. r \in Active /\ ~(Active \subseteq met) => Active = {r} /\ r \notin met
  <2>1. ASSUME NEW q \in Active, q \notin met, r \in Active PROVE Active = {r} /\ r \notin met
    BY <1>0, <2>1 DEF SoloInv
  <2>2. QED
    BY <2>1
<1>10. QED
  BY <1>5, <1>6, <1>7, <1>8, <1>9

LEMMA PublishStep == PublishInv /\ [Next]_vars => PublishInv'
<1> SUFFICES ASSUME PublishInv, [Next]_vars PROVE PublishInv'
  OBVIOUS
<1>1. TypeInv'
  BY TypeStep DEF PublishInv
<1>2. CASE UNCHANGED vars
  <2>1. ClockInv'
    BY <1>2 DEF vars, PublishInv, ClockInv, Held
  <2>2. Active' = Active /\ (Settled <=> Settled')
    BY <1>2 DEF vars, Active, Settled, Coherent, Live
  <2>3. \A r \in Runs : Tidy(run[r]) => Tidy(run[r])'
    BY <1>2 DEF vars, Tidy, FilesInv, CoherenceInv, IndexInv, StreamInv, OnDisk, Coherent, Live
  <2>4. SoloInv'
    BY <1>2, <2>2, <2>3 DEF vars, PublishInv, SoloInv, Active
  <2>5. QED
    BY <1>1, <2>1, <2>4 DEF PublishInv
<1>3. ASSUME NEW r \in Runs, Step(r), met' = Meeting(r) PROVE PublishInv'
  BY <1>1, <1>3, ClockStep, SoloStep DEF PublishInv
<1>4. QED
  BY <1>2, <1>3 DEF Next

\* What a step puts on the wire while one run is under way, which met no other.
LEMMA StreamStep ==
    ASSUME PublishInv, NEW q \in Runs, Step(q), NEW r \in Active \ met, NEW m \in Matches,
           wire'[m] # wire[m]
    PROVE  wire'[m].at > wire[m].at
<1>0. /\ TypeOK /\ Fits(run[q]) /\ wire \in [Matches -> Body] /\ run[q] \in RunState
      /\ Active = {r} /\ Tidy(run[r])
  BY DEF PublishInv, TypeInv, TypeOK, SoloInv
<1>1. EnqueueLive(q) \/ \E k \in Matches : EnqueueWithdrawn(q, k)
  BY DEF Step, Start, IngestNothing, Ingest, BuildFails, Build, EndFixtures,
         Write, WriteTmp, Rename, WriteFault, RenameLost, WriteRaises, Withdraw,
         SkipWithdraw, DetectFails, EndDetect, End, Kill
<1>2. run[q].pc # "idle"
  BY <1>1 DEF EnqueueLive, EnqueueWithdrawn
<1>3. q = r
  BY <1>0, <1>2, NotIdle DEF Active
<1>4. Shape(run[q]) /\ StreamInv(run[q])
  BY <1>0, <1>3 DEF Tidy
<1>5. CASE EnqueueLive(q)
  <2>1. m = run[q].name /\ wire'[m] = run[q].body /\ run[q].pc = "enqueue"
    BY <1>0, <1>5 DEF EnqueueLive, TryEnqueue
  <2>2. run[q].body.at = run[q].now /\ m \in Unsent(run[q])
    BY <1>4, <2>1, BodyFields DEF Shape, Unsent, Publishing
  <2>3. QED
    BY <1>4, <2>1, <2>2 DEF StreamInv
<1>6. ASSUME NEW k \in Matches, EnqueueWithdrawn(q, k) PROVE wire'[m].at > wire[m].at
  <2>1. /\ m = k /\ wire'[m] = WithdrawnBody(run[q].now) /\ run[q].pc = "push"
        /\ m \in run[q].out
    BY <1>0, <1>6 DEF EnqueueWithdrawn, TryEnqueue
  <2>2. wire'[m].at = run[q].now /\ m \in Unsent(run[q])
    BY <2>1, BodyFields, PublishAssumption DEF Unsent, Publishing, Pending
  <2>3. QED
    BY <1>4, <2>2 DEF StreamInv
<1>7. QED
  BY <1>1, <1>5, <1>6

-----------------------------------------------------------------------------
\* PublishInv is inductive.
THEOREM SoloRunsAreTidy == Spec => []PublishInv
<1>1. Init => PublishInv
  BY TypeInit, ClockInit, SoloInit DEF PublishInv
<1>2. QED
  BY <1>1, PublishStep, PTL DEF Spec

\* Once the runs are over, every etag is of the file beside it, unless a fault, a kill or an
\* overlap came between the two renames and no run has published the name since.
THEOREM EtagsAgreeAlways == Spec => []EtagsAgree
<1>1. PublishInv => EtagsAgree
  BY DEF PublishInv, SoloInv, EtagsAgree, Quiet, Settled, Coherent
<1>2. QED
  BY <1>1, SoloRunsAreTidy, PTL

\* What was pushed last for a match is what lies on disk, with the same exceptions and those
\* of an outbox that failed.
THEOREM DiskIsPushedAlways == Spec => []DiskIsPushed
<1>1. PublishInv => DiskIsPushed
  BY DEF PublishInv, SoloInv, DiskIsPushed, Quiet, Settled, Coherent, Names
<1>2. QED
  BY <1>1, SoloRunsAreTidy, PTL

\* A file that still says pick, pass or avoid is in the index, so that a later run can
\* withdraw it.
THEOREM LiveIsIndexedAlways == Spec => []LiveIsIndexed
<1>1. PublishInv => LiveIsIndexed
  BY DEF PublishInv, SoloInv, LiveIsIndexed, Quiet, Settled
<1>2. QED
  BY <1>1, SoloRunsAreTidy, PTL

\* The bodies that a run alone enqueues for a match are later than the one before them,
\* also when it withdraws what it failed to publish.
THEOREM StreamIsMonotonicAlways == Spec => StreamIsMonotonic
<1>1. PublishInv /\ [Next]_vars =>
        [\A r \in Active \ met : \A m \in Matches :
           wire'[m] # wire[m] => wire'[m].at > wire[m].at]_vars
  <2> SUFFICES ASSUME PublishInv, [Next]_vars, NEW r \in Active \ met, NEW m \in Matches,
                      wire'[m] # wire[m]
               PROVE  wire'[m].at > wire[m].at
    OBVIOUS
  <2>1. PICK q \in Runs : Step(q)
    BY DEF Next, vars
  <2>2. QED
    BY <2>1, StreamStep
<1>2. QED
  BY <1>1, SoloRunsAreTidy, PTL DEF Spec, StreamIsMonotonic

-----------------------------------------------------------------------------
(* The outright: a run that met no other knows what is on disk.              *)

Stage == {"idle", "simulate", "write", "rename", "read", "enqueue"}
WinnerRun == [pc : Stage, file : Winner!Files, body : Winner!Payloads, met : BOOLEAN]

\* The files a run has been through, and the temporary file it has just written, are of
\* its payload: fs are the files, ts the temporary ones.
Wrote(s, fs, ts) ==
    /\ s.pc = "simulate" => s.file = "json"
    /\ s.pc = "rename" => ts[s.file] = s.body
    /\ s.pc \in {"write", "rename"} /\ s.file # "json" => fs["json"] = s.body
    /\ s.pc \in {"write", "rename"} /\ s.file = "index" => fs["etag"] = s.body
    /\ s.pc \in {"read", "enqueue"} => \A f \in Winner!Files : fs[f] = s.body

WinnerInv ==
    /\ Winner!TypeOK
    /\ \A r \in Runs : writer[r].pc # "idle" /\ ~writer[r].met =>
         /\ \A q \in Runs : writer[q].pc # "idle" => q = r
         /\ Wrote(writer[r], files, temps)
    /\ Winner!OutrightHeals

LEMMA WinnerInit == Winner!Init => WinnerInv
<1> SUFFICES ASSUME Winner!Init PROVE WinnerInv
  OBVIOUS
<1>1. MaxPayloads \in Nat /\ MaxFaults \in Nat /\ MaxKills \in Nat
  BY WinnerAssumption DEF Winner!OutrightAssumption
<1>2. \A r \in Runs : writer[r] = Winner!Idle /\ writer[r].pc = "idle"
  BY DEF Winner!Init, Winner!Idle
<1>3. Winner!TypeOK
  BY <1>1 DEF Winner!Init, Winner!TypeOK, Winner!Idle, Winner!Nothing, Winner!Payloads,
              Winner!Files
<1>4. Winner!OutrightHeals
  BY DEF Winner!Init, Winner!OutrightHeals
<1>5. QED
  BY <1>2, <1>3, <1>4 DEF WinnerInv

LEMMA WinnerStep == WinnerInv /\ Winner!Next => WinnerInv'
<1> SUFFICES ASSUME WinnerInv, Winner!Next PROVE WinnerInv'
  OBVIOUS
<1>0. /\ files \in [Winner!Files -> Winner!Payloads] /\ temps \in [Winner!Files -> Winner!Payloads]
      /\ pushed \in Winner!Payloads /\ writer \in [Runs -> WinnerRun]
      /\ built \in Winner!Payloads /\ failed \in 0 .. MaxFaults /\ killed \in 0 .. MaxKills
      /\ whole \in BOOLEAN
  BY DEF WinnerInv, Winner!TypeOK, WinnerRun, Stage
<1>a. MaxPayloads \in Nat /\ MaxFaults \in Nat /\ MaxKills \in Nat
  BY WinnerAssumption DEF Winner!OutrightAssumption
<1>b. /\ Winner!Idle \in WinnerRun /\ Winner!Idle.pc = "idle" /\ 0 \in Winner!Payloads
      /\ "json" \in Winner!Files /\ "etag" \in Winner!Files /\ "index" \in Winner!Files
  BY <1>a DEF Winner!Idle, WinnerRun, Stage, Winner!Files, Winner!Payloads, Winner!Nothing
<1>c. Winner!Active = {q \in Runs : writer[q].pc # "idle"}
  BY DEF Winner!Active
\* A step of one run that leaves the others alone.
<1>1. ASSUME NEW r \in Runs, NEW s, s \in WinnerRun, writer' = [writer EXCEPT ![r] = s],
             writer[r].pc # "idle", s.pc # "idle" => s.met = writer[r].met,
             files' \in [Winner!Files -> Winner!Payloads],
             temps' \in [Winner!Files -> Winner!Payloads],
             pushed' \in Winner!Payloads, built' \in Winner!Payloads,
             failed' \in 0 .. MaxFaults, killed' \in 0 .. MaxKills, whole' \in BOOLEAN,
             s.pc # "idle" /\ ~s.met => Wrote(s, files', temps'),
             whole' => \A f \in Winner!Files : files'[f] = pushed'
      PROVE  WinnerInv'
  <2>1. \A q \in Runs : writer'[q] = IF q = r THEN s ELSE writer[q]
    BY <1>0, <1>1
  <2>2. Winner!TypeOK'
    BY <1>0, <1>1 DEF Winner!TypeOK, WinnerRun, Stage
  <2>3. \A q \in Runs : writer'[q].pc # "idle" => writer[q].pc # "idle"
    BY <1>1, <2>1
  <2>4. ASSUME NEW q \in Runs, writer'[q].pc # "idle", ~writer'[q].met
        PROVE  /\ \A k \in Runs : writer'[k].pc # "idle" => k = q
               /\ Wrote(writer'[q], files', temps')
    <3>1. writer[q].pc # "idle" /\ ~writer[q].met
      BY <1>1, <2>1, <2>4
    <3>2. \A k \in Runs : writer[k].pc # "idle" => k = q
      BY <3>1 DEF WinnerInv
    <3>3. q = r
      BY <1>1, <3>2
    <3>4. writer'[q] = s
      BY <2>1, <3>3
    <3>5. Wrote(writer'[q], files', temps')
      BY <1>1, <2>4, <3>4
    <3>6. QED
      BY <2>3, <3>2, <3>5
  <2>5. Winner!OutrightHeals'
    BY <1>1 DEF Winner!OutrightHeals, Winner!Files
  <2>6. QED
    BY <2>2, <2>4, <2>5 DEF WinnerInv
<1>d. \A r \in Runs : writer[r] \in WinnerRun
  BY <1>0
<1>e. \A r \in Runs : writer[r].pc # "idle" /\ ~writer[r].met => Wrote(writer[r], files, temps)
  BY DEF WinnerInv
<1>f. whole => \A f \in Winner!Files : files[f] = pushed
  BY DEF WinnerInv, Winner!OutrightHeals
<1>2. ASSUME NEW r \in Runs, Winner!Fetch(r) PROVE WinnerInv'
  <2>1. \A q \in Runs : writer'[q] =
          IF q = r THEN [Winner!Idle EXCEPT !.pc = "simulate", !.met = Winner!Active # {}]
                   ELSE [writer[q] EXCEPT !.met = @ \/ q \in Winner!Active]
    BY <1>2 DEF Winner!Fetch
  <2> DEFINE crowd == Winner!Active # {}
             i == [Winner!Idle EXCEPT !.pc = "simulate", !.met = crowd]
  <2>c. i.pc = "simulate" /\ i.file = "json" /\ i.met = crowd /\ crowd \in BOOLEAN
    BY DEF Winner!Idle
  <2>d. i \in WinnerRun
    <3>1. crowd \in BOOLEAN
      BY <2>c
    <3> HIDE DEF crowd
    <3>2. QED
      BY <1>b, <3>1 DEF WinnerRun, Stage
  <2>e. writer'[r] = i
    BY <2>1
  <2>f. writer'[r].met = crowd
    BY <2>c, <2>e
  <2>g. ~writer'[r].met => Winner!Active = {}
    BY <2>f, Zenon
  <2> HIDE DEF i, crowd
  <2>2. writer'[r].pc = "simulate" /\ writer'[r].file = "json" /\ writer'[r] \in WinnerRun
    BY <2>c, <2>d, <2>e
  <2>3. \A q \in Runs : q # r =>
          /\ writer'[q].pc = writer[q].pc /\ writer'[q].file = writer[q].file
          /\ writer'[q].body = writer[q].body
          /\ writer[q].pc # "idle" => writer'[q].met
    BY <1>c, <1>d, <2>1 DEF WinnerRun
  <2>4. \A q \in Runs : q # r => writer'[q] \in WinnerRun
    BY <1>d, <2>1 DEF WinnerRun
  <2>5. UNCHANGED <<files, temps, pushed, built, failed, killed, whole>>
    BY <1>2 DEF Winner!Fetch
  <2>6. writer' \in [Runs -> WinnerRun]
    <3>1. DOMAIN writer' = Runs /\ writer' = [q \in Runs |-> writer'[q]]
      BY <1>2 DEF Winner!Fetch
    <3>2. QED
      BY <2>2, <2>4, <3>1
  <2>7. Winner!TypeOK'
    BY <1>0, <2>5, <2>6 DEF Winner!TypeOK, WinnerRun, Stage
  <2>8. ASSUME NEW q \in Runs, writer'[q].pc # "idle", ~writer'[q].met
        PROVE  /\ \A k \in Runs : writer'[k].pc # "idle" => k = q
               /\ Wrote(writer'[q], files', temps')
    <3>1. q = r
      BY <2>3, <2>8
    <3>2. Winner!Active = {}
      BY <2>g, <2>8, <3>1
    <3>3. \A k \in Runs : writer'[k].pc # "idle" => k = q
      BY <1>c, <2>3, <3>1, <3>2
    <3>4. Wrote(writer'[q], files', temps')
      BY <2>2, <3>1 DEF Wrote
    <3>5. QED
      BY <3>3, <3>4
  <2>9. Winner!OutrightHeals'
    BY <1>f, <2>5 DEF Winner!OutrightHeals, Winner!Files
  <2>10. QED
    BY <2>7, <2>8, <2>9 DEF WinnerInv
<1>3. ASSUME NEW r \in Runs, Winner!Simulate(r) PROVE WinnerInv'
  <2> DEFINE s == [writer[r] EXCEPT !.pc = "write", !.body = built + 1]
  <2>1. writer' = [writer EXCEPT ![r] = s] /\ writer[r].pc = "simulate"
        /\ built < MaxPayloads /\ built' = built + 1
        /\ UNCHANGED <<files, temps, pushed, failed, killed, whole>>
    BY <1>0, <1>3 DEF Winner!Simulate
  <2>2. built + 1 \in Winner!Payloads
    BY <1>0, <1>a, <2>1 DEF Winner!Payloads
  <2>3. s \in WinnerRun /\ s.pc = "write" /\ s.met = writer[r].met /\ s.file = writer[r].file
    BY <1>d, <2>2 DEF WinnerRun, Stage
  <2> HIDE DEF s
  <2>4. s.pc # "idle" /\ ~s.met => Wrote(s, files', temps')
    BY <1>e, <2>1, <2>3 DEF Wrote
  <2>5. QED
    BY <1>0, <1>1, <1>f, <2>1, <2>2, <2>3, <2>4
\* The steps of a run that ends.
<1>4. ASSUME NEW r \in Runs, writer' = [writer EXCEPT ![r] = Winner!Idle],
             writer[r].pc # "idle", pushed' \in Winner!Payloads, UNCHANGED built,
             failed' \in 0 .. MaxFaults, killed' \in 0 .. MaxKills, whole' \in BOOLEAN,
             UNCHANGED <<files, temps>>, whole' => \A f \in Winner!Files : files[f] = pushed'
      PROVE  WinnerInv'
  BY <1>0, <1>1, <1>4, <1>b
<1>5. ASSUME NEW r \in Runs, Winner!WriteTmp(r) PROVE WinnerInv'
  <2> DEFINE s == [writer[r] EXCEPT !.pc = "rename"]
  <2>1. writer' = [writer EXCEPT ![r] = s] /\ writer[r].pc = "write"
        /\ temps' = [temps EXCEPT ![writer[r].file] = writer[r].body]
        /\ UNCHANGED <<files, pushed, built, failed, killed, whole>>
    BY <1>0, <1>5 DEF Winner!WriteTmp
  <2>2. writer[r].file \in Winner!Files /\ writer[r].body \in Winner!Payloads
    BY <1>d DEF WinnerRun
  <2>3. s \in WinnerRun /\ s.pc = "rename" /\ s.met = writer[r].met /\ s.file = writer[r].file
        /\ s.body = writer[r].body
    BY <1>d DEF WinnerRun, Stage
  <2> HIDE DEF s
  <2>4. temps' \in [Winner!Files -> Winner!Payloads] /\ temps'[s.file] = s.body
    BY <1>0, <2>1, <2>2, <2>3
  <2>5. s.pc # "idle" /\ ~s.met => Wrote(s, files', temps')
    BY <1>e, <2>1, <2>3, <2>4 DEF Wrote
  <2>6. QED
    BY <1>0, <1>1, <1>f, <2>1, <2>3, <2>4, <2>5
<1>6. ASSUME NEW r \in Runs, Winner!Rename(r) PROVE WinnerInv'
  <2> DEFINE f == writer[r].file
             s == Winner!After(writer[r])
  <2>1. f \in Winner!Files /\ writer[r].body \in Winner!Payloads /\ writer[r].pc = "rename"
    BY <1>d, <1>6 DEF WinnerRun, Winner!Rename
  <2>2. CASE temps[f] = Winner!Nothing
    BY <1>0, <1>4, <1>6, <1>f, <2>1, <2>2 DEF Winner!Rename, Winner!End
  <2>3. CASE temps[f] # Winner!Nothing
    <3>1. /\ files' = [files EXCEPT ![f] = temps[f]] /\ temps' = [temps EXCEPT ![f] = 0]
          /\ writer' = [writer EXCEPT ![r] = s] /\ ~whole' /\ whole' \in BOOLEAN
          /\ UNCHANGED <<pushed, built, failed, killed>>
      BY <1>0, <1>6, <2>3 DEF Winner!Rename, Winner!Nothing
    <3>2. /\ s \in WinnerRun /\ s.met = writer[r].met /\ s.body = writer[r].body
          /\ f = "json" => s.pc = "write" /\ s.file = "etag"
          /\ f = "etag" => s.pc = "write" /\ s.file = "index"
          /\ f = "index" => s.pc = "read"
      <4>1. CASE f = "json"
        <5>1. s = [writer[r] EXCEPT !.pc = "write", !.file = "etag"]
          BY <4>1 DEF Winner!After
        <5>2. QED
          BY <1>b, <1>d, <4>1, <5>1 DEF WinnerRun, Stage
      <4>2. CASE f = "etag"
        <5>1. s = [writer[r] EXCEPT !.pc = "write", !.file = "index"]
          BY <4>2 DEF Winner!After
        <5>2. QED
          BY <1>b, <1>d, <4>2, <5>1 DEF WinnerRun, Stage
      <4>3. CASE f = "index"
        <5>1. s = [writer[r] EXCEPT !.pc = "read"]
          BY <4>3 DEF Winner!After
        <5>2. QED
          BY <1>b, <1>d, <4>3, <5>1 DEF WinnerRun, Stage
      <4>4. QED
        BY <2>1, <4>1, <4>2, <4>3 DEF Winner!Files
    <3> HIDE DEF s
    <3>3. files' \in [Winner!Files -> Winner!Payloads] /\ temps' \in [Winner!Files -> Winner!Payloads]
      BY <1>0, <1>b, <2>1, <3>1
    <3>4. ~writer[r].met => Wrote(writer[r], files, temps)
      BY <1>e, <2>1
    <3>5. \A g \in Winner!Files : files'[g] = IF g = f THEN temps[f] ELSE files[g]
      BY <1>0, <2>1, <3>1
    <3>6. ~s.met => Wrote(s, files', temps')
      <4>1. CASE f = "json"
        BY <1>b, <2>1, <3>2, <3>4, <3>5, <4>1 DEF Wrote
      <4>2. CASE f = "etag"
        BY <1>b, <2>1, <3>2, <3>4, <3>5, <4>2 DEF Wrote
      <4>3. CASE f = "index"
        BY <1>b, <2>1, <3>2, <3>4, <3>5, <4>3 DEF Wrote, Winner!Files
      <4>4. QED
        BY <2>1, <4>1, <4>2, <4>3 DEF Winner!Files
    <3>7. QED
      BY <1>0, <1>1, <2>1, <3>1, <3>2, <3>3, <3>6
  <2>4. QED
    BY <2>2, <2>3
<1>7. ASSUME NEW r \in Runs, Winner!WriteFails(r) \/ Winner!NotEnqueued(r) \/ Winner!Kill(r)
      PROVE  WinnerInv'
  <2>1. /\ writer' = [writer EXCEPT ![r] = Winner!Idle] /\ writer[r].pc # "idle"
        /\ UNCHANGED <<files, temps, pushed, built, whole>>
    BY <1>7 DEF Winner!WriteFails, Winner!NotEnqueued, Winner!Kill, Winner!End
  <2>2. \/ failed < MaxFaults /\ failed' = failed + 1 /\ killed' = killed
        \/ killed < MaxKills /\ killed' = killed + 1 /\ failed' = failed
    BY <1>7 DEF Winner!WriteFails, Winner!NotEnqueued, Winner!Kill
  <2>3. failed' \in 0 .. MaxFaults /\ killed' \in 0 .. MaxKills
    BY <1>0, <1>a, <2>2
  <2>4. QED
    BY <1>0, <1>4, <1>f, <2>1, <2>3
<1>8. ASSUME NEW r \in Runs, Winner!ReadBack(r) PROVE WinnerInv'
  <2> DEFINE s == [writer[r] EXCEPT !.pc = "enqueue", !.body = files["json"]]
  <2>1. writer' = [writer EXCEPT ![r] = s] /\ writer[r].pc = "read"
        /\ UNCHANGED <<files, temps, pushed, built, failed, killed, whole>>
    BY <1>0, <1>8 DEF Winner!ReadBack
  <2>2. files["json"] \in Winner!Payloads
    BY <1>0, <1>b
  <2>3. s \in WinnerRun /\ s.pc = "enqueue" /\ s.met = writer[r].met /\ s.body = files["json"]
    BY <1>d, <2>2 DEF WinnerRun, Stage
  <2> HIDE DEF s
  <2>4. s.pc # "idle" /\ ~s.met => Wrote(s, files', temps')
    BY <1>b, <1>e, <2>1, <2>3 DEF Wrote
  <2>5. QED
    BY <1>0, <1>1, <1>f, <2>1, <2>3, <2>4
<1>9. ASSUME NEW r \in Runs, Winner!Enqueue(r) PROVE WinnerInv'
  <2>1. /\ writer' = [writer EXCEPT ![r] = Winner!Idle] /\ writer[r].pc = "enqueue"
        /\ pushed' = writer[r].body /\ whole' = ~writer[r].met
        /\ UNCHANGED <<files, temps, built, failed, killed>>
    BY <1>9 DEF Winner!Enqueue, Winner!End
  <2>2. writer[r].body \in Winner!Payloads /\ writer[r].met \in BOOLEAN
    BY <1>d DEF WinnerRun
  <2>3. whole' \in BOOLEAN /\ (whole' => ~writer[r].met)
    BY <2>1, <2>2, Zenon
  <2>4. ~writer[r].met => \A f \in Winner!Files : files[f] = pushed'
    BY <1>e, <2>1 DEF Wrote
  <2>5. QED
    BY <1>0, <1>4, <2>1, <2>2, <2>3, <2>4
<1>h. CASE Winner!Horizon
  BY <1>h DEF Winner!Horizon, Winner!vars, WinnerInv, Winner!TypeOK, Winner!OutrightHeals
<1>10. QED
  BY <1>2, <1>3, <1>5, <1>6, <1>7, <1>8, <1>9, <1>h DEF Winner!Next

\* After a run of the outright that met no other, and until the next one touches a file,
\* the json, its etag, the index and the wire are of one payload, whatever killed, failed
\* and crossing runs had left before it.
THEOREM OutrightHealsAlways == PublishSpec => []OutrightHeals
<1>1. PublishInit => WinnerInv
  BY WinnerInit DEF PublishInit
<1>2. WinnerInv /\ [PublishNext]_<<vars, outrightVars, outright>> => WinnerInv'
  <2>1. WinnerInv /\ UNCHANGED outrightVars => WinnerInv'
    BY DEF outrightVars, WinnerInv, Winner!TypeOK, Winner!OutrightHeals, Wrote
  <2>2. QED
    BY <2>1, WinnerStep DEF PublishNext
<1>3. WinnerInv => OutrightHeals
  BY DEF WinnerInv, OutrightHeals
<1>4. QED
  BY <1>1, <1>2, <1>3, PTL DEF PublishSpec
=============================================================================
