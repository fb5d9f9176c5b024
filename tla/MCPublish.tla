----------------------------- MODULE MCPublish -----------------------------
(* What `desk run --once` writes on small instances: the matches of a sport   *)
(* (Publish), and after them the outright (Outright).  They share no file: an *)
(* execution is of one of them.  Match ids and runs are model values.         *)
EXTENDS Publish, TLC

CONSTANTS MaxPayloads

VARIABLES outright, files, temps, pushed, writer, built, failed, killed, whole

outrightVars == <<files, temps, pushed, writer, built, failed, killed, whole>>

Winner == INSTANCE Outright WITH
    disk <- files, tmp <- temps, wire <- pushed, proc <- writer, faults <- failed,
    kills <- killed

ASSUME WinnerAssumption == Winner!OutrightAssumption

PublishInit == Init /\ Winner!Init /\ outright \in BOOLEAN

PublishNext ==
    /\ \/ ~outright /\ Next /\ UNCHANGED outrightVars
       \/ outright /\ Winner!Next /\ UNCHANGED vars
    /\ UNCHANGED outright

PublishSpec == PublishInit /\ [][PublishNext]_<<vars, outrightVars, outright>>

\* Of Outright, where it is stated.
OutrightHeals == Winner!OutrightHeals

Symmetry == Permutations(Matches) \cup Permutations(Runs)
=============================================================================
