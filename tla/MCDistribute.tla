---------------------------- MODULE MCDistribute ----------------------------
(* Distribute on a small instance: a schedule of two backoff steps.         *)
EXTENDS DistributePostbox

MCRetrySchedule == <<1, 2>>
=============================================================================
