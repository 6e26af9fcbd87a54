---------------------------- MODULE DirectoryWalk ---------------------------
(***************************************************************************)
(* The programs that read directories, while another process removes       *)
(* files.  walk is                                                         *)
(*   "bfs"    20180624/BFS_File.c: breadth first, with a queue;            *)
(*   "dfs"    20180621/finddir.c: depth first;                             *)
(*   "find"   20180621/printFile.c: looks for a name, depth first;         *)
(*   "sorted" 20180621/ls_task: ls, sorted in a list before it prints;     *)
(*   "plain"  20180621/ls.c: ls, in the order of the directory.            *)
(* A file is a number, which is also its name.  A directory is read at     *)
(* once, in any order; the entries . and .., which bfs prints and the      *)
(* others skip or list, are left out.                                      *)
(***************************************************************************)
EXTENDS Naturals, Sequences, FiniteSets

CONSTANTS
    NumFiles,  \* files and directories, the first is the argument
    Removals   \* files that the other process removes

ASSUME WalkConstants == NumFiles \in Nat \ {0}

VARIABLES
    walk, walkState,
    folder, dirs, alive,   \* the tree
    sought,                \* the name that find looks for
    dotted,                \* the argument is "."
    frames,                \* the entries not yet looked at, of each directory in work
    printed, listed        \* what is printed; the list of the sorting ls

walkVars == <<walk, walkState, folder, dirs, alive, sought, dotted, frames, printed, listed>>
treeVars == <<folder, dirs, alive, sought, dotted>>

Files == 1 .. NumFiles
Root == 1
ChildrenOf(d) == {e \in Files \ {Root} : folder[e] = d}
Entry(d) == {e \in ChildrenOf(d) : e \in alive}

\* readdir until it returns NULL: each entry once
Listings(d) == {s \in [1 .. Cardinality(Entry(d)) -> Entry(d)] :
                  \A i, j \in DOMAIN s : s[i] = s[j] => i = j}

Named(s) == {s[i] : i \in DOMAIN s}

WalkInit ==
    /\ walk \in {"bfs", "dfs", "find", "sorted", "plain"}
    /\ walkState = "start"
    /\ folder \in {p \in [Files \ {Root} -> Files] : \A e \in Files \ {Root} : p[e] < e}
    /\ \E more \in SUBSET (Files \ {Root}) :
         dirs = {Root} \union more \union {folder[e] : e \in Files \ {Root}}
    /\ alive = Files /\ frames = <<>> /\ printed = <<>> /\ listed = <<>>
    /\ sought \in IF walk = "find" THEN Files \ {Root} ELSE {Root}
    /\ dotted \in IF walk = "bfs" THEN BOOLEAN ELSE {FALSE}

\* Another process removes a file or an empty directory.
RemoveFile ==
    /\ Cardinality(Files \ alive) < Removals
    /\ \E e \in alive \ {Root} : Entry(e) = {} /\ alive' = alive \ {e}
    /\ UNCHANGED <<walk, walkState, folder, dirs, sought, dotted, frames, printed, listed>>

Runs(program) == walk = program /\ walkState = "running"

\* The argument is opened, or queued.
StartWalk ==
    /\ walkState = "start" /\ walkState' = "running"
    /\ IF walk = "bfs" THEN frames' = <<<<Root>>>>
                       ELSE \E entries \in Listings(Root) : frames' = <<entries>>
    /\ UNCHANGED <<walk, treeVars, printed, listed>>

----------------------------------------------------------------------------
(* BFS_File: the queue is the only frame *)

Queued == frames[1]

\* Mutant: the head of the queue is lost with its last entry.
BfsStepEmpties ==
    /\ Runs("bfs") /\ Queued # <<>>
    /\ printed' = Append(printed, Head(Queued))
    /\ \E entries \in Listings(Head(Queued)) :
         frames' = <<IF Len(Queued) > 1 THEN Tail(Queued) ELSE entries>>
    /\ UNCHANGED <<walk, walkState, treeVars, listed>>

\* The head is printed; a directory's entries go to the end of the queue.  One that
\* cannot be opened ends the walk, and the argument "." is not entered.
BfsStep ==
    /\ Runs("bfs") /\ Queued # <<>>
    /\ LET e == Head(Queued) IN
       /\ printed' = Append(printed, e)
       /\ \/ /\ e \in dirs \cap alive /\ ~(dotted /\ e = Root)
             /\ \E entries \in Listings(e) : frames' = <<Tail(Queued) \o entries>>
             /\ UNCHANGED walkState
          \/ /\ e \notin dirs \/ (dotted /\ e = Root)
             /\ frames' = <<Tail(Queued)>> /\ UNCHANGED walkState
          \/ e \in dirs \ alive /\ walkState' = "failed" /\ frames' = <<>>
    /\ UNCHANGED <<walk, treeVars, listed>>

BfsDone == Runs("bfs") /\ Queued = <<>> /\ walkState' = "done" /\ UNCHANGED <<walk, treeVars, frames, printed, listed>>

----------------------------------------------------------------------------
(* printdir: a frame for each call *)

Top == frames[Len(frames)]
Popped == SubSeq(frames, 1, Len(frames) - 1)

\* A directory that cannot be opened is passed over.
DfsStep ==
    /\ Runs("dfs") /\ frames # <<>> /\ Top # <<>>
    /\ LET e == Head(Top) IN
       /\ printed' = Append(printed, e)
       /\ \/ /\ e \in dirs \cap alive
             /\ \E entries \in Listings(e) : frames' = Append(Append(Popped, Tail(Top)), entries)
          \/ e \notin dirs \cap alive /\ frames' = Append(Popped, Tail(Top))
    /\ UNCHANGED <<walk, walkState, treeVars, listed>>

DfsReturn ==
    /\ Runs("dfs") /\ frames # <<>> /\ Top = <<>>
    /\ frames' = Popped
    /\ walkState' = IF Len(frames) = 1 THEN "done" ELSE "running"
    /\ UNCHANGED <<walk, treeVars, printed, listed>>

----------------------------------------------------------------------------
(* printFile *)

\* The first directory's result is the caller's: its later entries are not looked at.
\* A directory that cannot be opened returns -1, which main takes for success.
FindStep ==
    /\ Runs("find") /\ Top # <<>>
    /\ LET e == Head(Top) IN
       \/ e = sought /\ printed' = <<folder[e]>> /\ walkState' = "found" /\ UNCHANGED frames
       \/ /\ e # sought /\ e \in dirs \cap alive
          /\ \E entries \in Listings(e) : frames' = Append(frames, entries)
          /\ UNCHANGED <<printed, walkState>>
       \/ e # sought /\ e \in dirs \ alive /\ walkState' = "silent" /\ UNCHANGED <<frames, printed>>
       \/ /\ e # sought /\ e \notin dirs
          /\ frames' = Append(Popped, Tail(Top)) /\ UNCHANGED <<printed, walkState>>
    /\ UNCHANGED <<walk, treeVars, listed>>

FindNothing ==
    /\ Runs("find") /\ Top = <<>>
    /\ walkState' = "missing"
    /\ UNCHANGED <<walk, treeVars, frames, printed, listed>>

----------------------------------------------------------------------------
(* ls *)

\* listSortInsert with compare: before the first larger name.
SortInsert(s, e) ==
    LET larger == {i \in DOMAIN s : e < s[i]}
        at == CHOOSE i \in larger : \A j \in larger : i <= j
    IN  IF larger = {} THEN Append(s, e)
                       ELSE SubSeq(s, 1, at - 1) \o <<e>> \o SubSeq(s, at, Len(s))

\* An entry that stat does not find any more ends ls; sorted, it has printed nothing.
LsStep ==
    /\ Runs("sorted") \/ Runs("plain")
    /\ Top # <<>>
    /\ LET e == Head(Top) IN
       /\ IF e \in alive
          THEN /\ listed' = IF walk = "sorted" THEN SortInsert(listed, e) ELSE <<>>
               /\ printed' = IF walk = "plain" THEN Append(printed, e) ELSE <<>>
               /\ frames' = <<Tail(Top)>> /\ UNCHANGED walkState
          ELSE walkState' = "failed" /\ frames' = <<>> /\ UNCHANGED <<listed, printed>>
    /\ UNCHANGED <<walk, treeVars>>

\* printFileList
PrintFileList ==
    /\ Runs("sorted") \/ Runs("plain")
    /\ Top = <<>>
    /\ printed' = (IF walk = "sorted" THEN listed ELSE printed)
    /\ listed' = <<>> /\ walkState' = "done"
    /\ UNCHANGED <<walk, treeVars, frames>>

WalkStep ==
    \/ StartWalk \/ BfsStep \/ BfsDone \/ DfsStep \/ DfsReturn
    \/ FindStep \/ FindNothing \/ LsStep \/ PrintFileList

WalkNext == WalkStep \/ RemoveFile

WalkSpec == WalkInit /\ [][WalkNext]_walkVars

\* The program is scheduled.
WalkFairness == WF_walkVars(WalkStep)

----------------------------------------------------------------------------
(* Properties *)

Depth[e \in Files] == IF e = Root THEN 0 ELSE 1 + Depth[folder[e]]

\* The directories whose entries find has looked at, and the names it came by: what it
\* does not find may still be there, behind the first directory of a list.
Opened == {Root} \union {e \in dirs : \E i \in 2 .. Len(frames) : e = Head(frames[i - 1])}

\* A walk that ends without an error has printed every file that is still there, none
\* of them twice and none before its directory; breadth first, in the order of depth;
\* and ls the directory's own, sorted.  Only the argument "." is printed alone.
WalkPrintsAll ==
    /\ \A i, j \in DOMAIN printed : printed[i] = printed[j] => i = j
    /\ walk \in {"bfs", "dfs"} =>
         \A i \in DOMAIN printed : printed[i] # Root /\ ~(walk = "dfs" /\ folder[printed[i]] = Root) =>
            \E j \in 1 .. i - 1 : printed[j] = folder[printed[i]]
    /\ walk = "bfs" =>
         \A i, j \in DOMAIN printed : i < j => Depth[printed[i]] <= Depth[printed[j]]
    /\ walkState = "done" =>
         CASE walk = "bfs" -> IF dotted THEN printed = <<Root>> ELSE alive \subseteq Named(printed)
           [] walk = "dfs" -> alive \ {Root} \subseteq Named(printed)
           [] OTHER        -> Entry(Root) \subseteq Named(printed) /\ Named(printed) \subseteq ChildrenOf(Root)
    /\ walk = "sorted" => \A i, j \in DOMAIN printed : i < j => printed[i] < printed[j]
    /\ walk = "sorted" /\ walkState = "failed" => printed = <<>>
    /\ walkState = "found" => printed = <<folder[sought]>>
    /\ walkState = "missing" /\ sought \in alive =>
         \/ folder[sought] \notin Opened
         \/ \E i \in DOMAIN frames : i < Len(frames) /\ sought \in Named(Tail(frames[i]))

\* Every walk ends.
WalkEnds == <>(walkState \in {"done", "failed", "found", "missing", "silent"})
=============================================================================
