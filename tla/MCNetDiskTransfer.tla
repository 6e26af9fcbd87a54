------------------------- MODULE MCNetDiskTransfer -------------------------
(***************************************************************************)
(* Instances of NetDiskTransfer for TLC: two users with a file of three    *)
(* bytes in common, received two at a time, so that a recv can end inside  *)
(* the content, at its end, and inside the next command.                   *)
(***************************************************************************)
EXTENDS NetDiskTransfer, TLC

CONSTANTS c1, c2

\* c1 can upload, download and download the rest; c2 completes the upload.
MCMaxCommands == c1 :> 3 @@ c2 :> 1
============================================================================
