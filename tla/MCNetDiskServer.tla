-------------------------- MODULE MCNetDiskServer --------------------------
(***************************************************************************)
(* Instances of NetDiskServer for TLC.  The interesting client is c1: it   *)
(* logs in and sends two commands, enough for a transfer that overtakes    *)
(* its successor.  c2 interferes: it occupies main, the queues and the     *)
(* descriptors.                                                            *)
(***************************************************************************)
EXTENDS NetDiskServer, TLC

CONSTANTS c1, c2

MCMaxCommands    == c1 :> 3 @@ c2 :> 1
MCVisitorOnly    == c1 :> 3 @@ c2 :> 0    \* c2 connects and never logs in

Symmetry == Permutations(Fds) \cup Permutations(ShellWorkers)
            \cup Permutations(IOWorkers)
============================================================================
