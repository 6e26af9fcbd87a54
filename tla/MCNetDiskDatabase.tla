------------------------- MODULE MCNetDiskDatabase -------------------------
(***************************************************************************)
(* Instances of NetDiskDatabase for TLC: two connections, a user of the    *)
(* dump and a free name, so that logins, registrations of one name and     *)
(* sessions of one user overlap.                                           *)
(***************************************************************************)
EXTENDS NetDiskDatabase, TLC

CONSTANTS c1, c2, alice, bob, f

Relative(dirs) == [abs |-> FALSE, dirs |-> dirs]
Absolute(dirs) == [abs |-> TRUE, dirs |-> dirs]
In(o, e)       == [abs |-> o.abs, dirs |-> o.dirs, file |-> e]

\* The root, and a home that exists once its user has registered.
MCDirOptions == {Absolute(<<Root>>), Absolute(<<Root, bob>>)}

\* A file of the current directory, the same by its full path, and a home where a
\* file is expected.
MCFileOptions ==
    {In(Relative(<<>>), f), In(Absolute(<<Root, alice>>), f), In(Absolute(<<Root>>), alice)}

\* Each enters and gives one command.
MCMaxCommands == c1 :> 2 @@ c2 :> 2
============================================================================
