---------------------------- MODULE MCThreadPool ----------------------------
(***************************************************************************)
(* Instances of ThreadPool for TLC: the three programs, two threads, so    *)
(* that one can be busy while the other waits, and two connections.        *)
(***************************************************************************)
EXTENDS ThreadPool

============================================================================
