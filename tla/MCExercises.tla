---------------------------- MODULE MCExercises -----------------------------
(***************************************************************************)
(* Instances for TLC of the programs that stand alone.  A behaviour runs   *)
(* one of them, the others stay in an initial state.                       *)
(***************************************************************************)
EXTENDS RingBuffer, LinkedQueue, ProcessPool, FileTransfer, SharedNumbers,
        GroupChat, ChatPair, DirectoryWalk, LinkList

VARIABLE program   \* the one that runs

allVars == <<program, vars, queueVars, poolVars, saleVars, transferVars, chatVars, pairVars,
             semVars, walkVars, listVars>>

Programs == {"ring", "queue", "pool", "sale", "transfer", "chat", "pair", "semaphores", "walk", "list"}

\* The choices of a program that does not run are settled.
ExercisesInit ==
    /\ program \in Programs
    /\ program # "ring" => buffer = [i \in Positions |-> Over]
    /\ program # "queue" => buf = CHOOSE node \in Nodes : TRUE
    /\ program # "pool" => version = "20180707"
    /\ program # "transfer" => protocol = "framed" /\ localFile = <<>>
    /\ program # "chat" => chat = "list"
    /\ program # "pair" => pair = "once"
    /\ program # "semaphores" => exercise = "counter"
    /\ program # "walk" => /\ walk = "plain" /\ dirs = {1}
                           /\ folder = [e \in Files \ {1} |-> 1]
    /\ Init /\ QueueInit /\ PoolInit /\ SaleInit /\ TransferInit
    /\ ChatInit /\ PairInit /\ SemInit /\ WalkInit /\ InitList

Others ==
    /\ program # "ring" => UNCHANGED vars
    /\ program # "queue" => UNCHANGED queueVars
    /\ program # "pool" => UNCHANGED poolVars
    /\ program # "sale" => UNCHANGED saleVars
    /\ program # "transfer" => UNCHANGED transferVars
    /\ program # "chat" => UNCHANGED chatVars
    /\ program # "pair" => UNCHANGED pairVars
    /\ program # "semaphores" => UNCHANGED semVars
    /\ program # "walk" => UNCHANGED walkVars
    /\ program # "list" => UNCHANGED listVars

Ring       == program = "ring"       /\ Next                  /\ Others
Work       == program = "queue"      /\ QueueNext             /\ Others
Serve      == program = "pool"       /\ PoolNext             /\ Others
SellTickets == program = "sale"      /\ SaleNext              /\ Others
Download   == program = "transfer"   /\ TransferNext /\ Others
Talk       == program = "chat"       /\ ChatNext         /\ Others
TalkToOne  == program = "pair"       /\ PairNext         /\ Others
Calculate  == program = "semaphores" /\ SemNext          /\ Others
ReadDirs   == program = "walk"       /\ WalkNext         /\ Others
KeepList   == program = "list"       /\ ListNext         /\ Others

ExercisesNext ==
    /\ Ring \/ Work \/ Serve \/ SellTickets \/ Download \/ Talk \/ TalkToOne \/ Calculate \/ ReadDirs \/ KeepList
    /\ UNCHANGED program

\* The fairness of the modules, for the program that runs.
Fair ==
    /\ WF_vars(program = "ring" /\ main = "joining" /\ Put)
    /\ WF_vars(program = "ring" /\ main = "joining" /\ Get)
    /\ WF_vars(program = "ring" /\ Join)
    /\ WF_poolVars(program = "pool" /\ Accept)
    /\ WF_poolVars(program = "pool" /\ BeginExit)
    /\ WF_poolVars(program = "pool" /\ Exit)
    /\ \A j \in Children : /\ WF_poolVars(program = "pool" /\ NotBusy(j))
                               /\ WF_poolVars(program = "pool" /\ ChildStep(j))
    /\ WF_saleVars(program = "sale" /\ Main)
    /\ WF_saleVars(program = "sale" /\ SetWindow)
    /\ \A w \in Windows : WF_saleVars(program = "sale" /\ Window(w))
    /\ WF_transferVars(program = "transfer" /\ ServerStep)
    /\ WF_transferVars(program = "transfer" /\ Client)
    /\ WF_chatVars(program = "chat" /\ ChatServer)
    /\ WF_pairVars(program = "pair" /\ PairServer)
    /\ WF_semVars(program = "semaphores" /\ MarketStep)
    /\ \A p \in Procs : WF_semVars(program = "semaphores" /\ ProcStep(p))
    /\ WF_walkVars(program = "walk" /\ WalkStep)

ExercisesSpec == ExercisesInit /\ [][ExercisesNext]_allVars /\ Fair

----------------------------------------------------------------------------
(* Properties, under the names that the runs use *)

\* The type invariants and the tables of the servers, and the shapes of the linked
\* queue and of the linked list, which holds what was put into it.
StateOK ==
    /\ TypeOK /\ QueueTypeOK /\ QueueShape /\ PoolTypeOK /\ SaleTypeOK
    /\ ChatTableOK /\ PairTableOK /\ SemShape /\ ListHoldsContents

\* The ring buffer's program ends with every number consumed; the sale ends, or is left
\* with closed windows and a full till; the counters, the walks and the downloads end.
ProgramsEnd ==
    /\ program = "ring" => AllConsumed
    /\ program = "sale" => SaleSettles
    /\ program = "semaphores" => SemaphoresEnd
    /\ program = "walk" => WalkEnds
    /\ program = "transfer" => DownloadEnds

\* The pool answers or closes every connection, and the chat servers hear their users.
ClientServed ==
    /\ PoolServes
    /\ ChatHears
    /\ PairHears
============================================================================
