----------------------------- MODULE MCRecords -----------------------------
(* The records other services write for the desk, on small instances: a      *)
(* wallet's ledger (Ledger), a source's news signals (News), the results of  *)
(* the predictions (Validation).  They share no table: an execution is of    *)
(* one of them.                                                              *)
EXTENDS Ledger, News, Validation, TLC

VARIABLE part

recordVars == <<vars, newsVars, fvVars, part>>

RecordsInit ==
    /\ Init /\ NewsInit /\ FvInit
    /\ part \in {"wallet", "news", "results"}
    /\ part # "wallet" => held = {}

RecordsNext ==
    /\ \/ part = "wallet" /\ Next /\ UNCHANGED <<newsVars, fvVars>>
       \/ part = "news" /\ NewsNext /\ UNCHANGED <<vars, fvVars>>
       \/ part = "results" /\ FvNext /\ UNCHANGED <<vars, newsVars>>
    /\ UNCHANGED part

RecordsSpec == RecordsInit /\ [][RecordsNext]_recordVars

RecordsTypeOK == TypeOK /\ NewsTypeOK /\ FvTypeOK
=============================================================================
