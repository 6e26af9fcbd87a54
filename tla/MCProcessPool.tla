--------------------------- MODULE MCProcessPool ----------------------------
(***************************************************************************)
(* ProcessPool for TLC under the fairness of its processes: two children   *)
(* and one client, enough for a signal to find a child idle or at work.    *)
(***************************************************************************)
EXTENDS ProcessPool

FairSpec == PoolSpec /\ PoolFairness
============================================================================
