---------------------------- MODULE ProcessPool -----------------------------
(***************************************************************************)
(* The process pool servers of 20180706 and 20180707.  The parent accepts  *)
(* connections and passes each over a socketpair to a child that is not    *)
(* busy; the child sends the file and writes a byte to say that it is      *)
(* done.  20180707 adds an exit: a signal makes the parent send an exit    *)
(* flag to every child and wait for them all.                              *)
(*                                                                         *)
(* One step is the handling of one event of the parent's epoll loop, or    *)
(* one of the calls in which a child can block or die.  An event stays     *)
(* until it is handled, so handling the events of one epoll_wait in turn   *)
(* is the same as handling them one at a time.                             *)
(***************************************************************************)
EXTENDS Integers, Sequences

CONSTANTS
    NumChildren,   \* process_num
    Clients,       \* client programs, each of which connects once
    NoConn         \* the descriptor 0 that goes with an exit flag

Children == 1 .. NumChildren

\* There are children, and what goes with an exit flag is no client's connection.
ASSUME PoolConstants == NumChildren \in Nat \ {0} /\ NoConn \notin Clients

VARIABLES
    version,   \* "20180706" or "20180707"
    parent,    \* what the parent does
    busy,      \* p_data[j].busy_flag
    child,     \* what each child does
    toChild,   \* messages of send_fd in each socketpair
    toParent,  \* number of bytes the child wrote into it
    conn,      \* the descriptor a child received
    client,    \* what each client program does
    backlog,   \* connections that are not accepted yet
    exitByte   \* is a byte of signal_exit in the pipe?

poolVars == <<version, parent, busy, child, toChild, toParent, conn, client, backlog, exitByte>>

ParentStates == {"events", "wait", "exited", "dead"}
ChildStates  == {"recv", "send", "report", "spinning", "exited", "dead"}
ClientStates == {"new", "connected", "done", "refused", "left"}

PoolInit ==
    /\ version \in {"20180706", "20180707"}
    /\ parent = "events"
    /\ busy = [j \in Children |-> FALSE]
    /\ child = [j \in Children |-> "recv"]
    /\ toChild = [j \in Children |-> <<>>]
    /\ toParent = [j \in Children |-> 0]
    /\ conn = [j \in Children |-> NoConn]
    /\ client = [c \in Clients |-> "new"]
    /\ backlog = <<>>
    /\ exitByte = FALSE

----------------------------------------------------------------------------
(* Clients *)

Connect(c) ==
    /\ client[c] = "new" /\ parent = "events"
    /\ client' = [client EXCEPT ![c] = "connected"]
    /\ backlog' = Append(backlog, c)
    /\ UNCHANGED <<version, parent, busy, child, toChild, toParent, conn, exitByte>>

\* The user interrupts the client program.
Leave(c) ==
    /\ client[c] = "connected"
    /\ client' = [client EXCEPT ![c] = "left"]
    /\ UNCHANGED <<version, parent, busy, child, toChild, toParent, conn, backlog, exitByte>>

\* The connections of cs are closed before anything was sent: the clients see the
\* end of the stream and give up (20180707) or call recv for ever (20180706).
Refuse(cs) == client' = [c \in Clients |-> IF c \in cs /\ client[c] = "connected"
                                             THEN "refused" ELSE client[c]]

Waiting == {backlog[i] : i \in 1 .. Len(backlog)}

----------------------------------------------------------------------------
(* The parent *)

Gone(j) == child[j] \in {"exited", "dead"}
Free    == {j \in Children : ~busy[j]}
FirstOf(js) == CHOOSE j \in js : \A i \in js : j <= i

\* A write to a child that is gone raises SIGPIPE, and that ends the parent.
ParentKilled == /\ parent' = "dead"
          /\ backlog' = <<>> /\ Refuse(Waiting)

\* Mutant: with every child busy the connection is not closed.
NoChildKeeps == /\ Free = {}
                /\ backlog' = Tail(backlog)
                /\ UNCHANGED <<parent, busy, toChild, client>>

\* Every child is busy: the connection is closed without a word.
NoChild == /\ Free = {}
           /\ backlog' = Tail(backlog) /\ Refuse({Head(backlog)})
           /\ UNCHANGED <<parent, busy, toChild>>

\* send_fd to the first child that is not busy.
Dispatch ==
    /\ Free # {}
    /\ LET j == FirstOf(Free) IN
       IF Gone(j) THEN ParentKilled /\ UNCHANGED <<busy, toChild>>
       ELSE /\ toChild' = [toChild EXCEPT ![j] =
                             Append(@, [fd |-> Head(backlog), flag |-> 0])]
            /\ busy' = [busy EXCEPT ![j] = TRUE]
            /\ backlog' = Tail(backlog)
            /\ UNCHANGED <<parent, client>>

Accept ==
    /\ parent = "events" /\ backlog # <<>>
    /\ NoChild \/ Dispatch
    /\ UNCHANGED <<version, child, toParent, conn, exitByte>>

\* Input from a child: its byte, or the end of the stream when it is gone, which
\* the parent does not tell apart.
NotBusy(j) ==
    /\ parent = "events"
    /\ toParent[j] > 0 \/ Gone(j)
    /\ toParent' = [toParent EXCEPT ![j] = IF @ > 0 THEN @ - 1 ELSE @]
    /\ busy' = [busy EXCEPT ![j] = FALSE]
    /\ UNCHANGED <<version, parent, child, toChild, conn, client, backlog, exitByte>>

\* signal_exit on SIGUSR1.
Sigusr1 ==
    /\ version = "20180707" /\ parent = "events" /\ ~exitByte
    /\ exitByte' = TRUE
    /\ UNCHANGED <<version, parent, busy, child, toChild, toParent, conn, client, backlog>>

\* The exit branch: close(sfd), and send_fd of descriptor 0 with flag -1 to one
\* child after the other, up to one that is gone.
BeginExit ==
    /\ parent = "events" /\ exitByte
    /\ exitByte' = FALSE
    /\ LET gone == {j \in Children : Gone(j)}
           told == IF gone = {} THEN Children ELSE 1 .. FirstOf(gone) - 1
       IN  /\ toChild' = [j \in Children |->
                            IF j \in told THEN Append(toChild[j], [fd |-> NoConn, flag |-> -1])
                                          ELSE toChild[j]]
           /\ parent' = IF gone = {} THEN "wait" ELSE "dead"
    /\ backlog' = <<>> /\ Refuse(Waiting)
    /\ UNCHANGED <<version, busy, child, toParent, conn>>

\* wait for every child, and "server exit success".
Exit ==
    /\ parent = "wait" /\ \A j \in Children : Gone(j)
    /\ parent' = "exited"
    /\ UNCHANGED <<version, busy, child, toChild, toParent, conn, client, backlog, exitByte>>

ParentStep == Accept \/ (\E j \in Children : NotBusy(j)) \/ BeginExit \/ Exit

----------------------------------------------------------------------------
(* The children *)

Goto(j, s) == child' = [child EXCEPT ![j] = s]

\* What recv_fd makes of the exit flag.  The parent sends four bytes and the flag;
\* the child's first buffer has room for five, so the flag loses a byte and the
\* variable, which was 0, gets three of them: -1 becomes 2^24 - 1.
FlagReceived(flag) == IF flag = -1 THEN 16777215 ELSE 0

\* recv_fd returns with a message.
RecvFd(j) ==
    /\ child[j] = "recv" /\ toChild[j] # <<>>
    /\ LET msg == Head(toChild[j]) IN
       /\ conn' = [conn EXCEPT ![j] = msg.fd]
       /\ Goto(j, IF FlagReceived(msg.flag) = -1 THEN "exited" ELSE "send")
    /\ toChild' = [toChild EXCEPT ![j] = Tail(@)]
    /\ UNCHANGED <<version, parent, busy, toParent, client, backlog, exitByte>>

\* The parent's end of the socketpair is open in the parent and, as they inherit
\* it, in the children made later.
ParentEndOpen(j) ==
    parent \notin {"exited", "dead"} \/ \E i \in Children : i > j /\ ~Gone(i)

\* recv_fd at the end of the stream returns descriptor 0 and no error.
RecvEof(j) ==
    /\ child[j] = "recv" /\ toChild[j] = <<>> /\ ~ParentEndOpen(j)
    /\ conn' = [conn EXCEPT ![j] = NoConn]
    /\ Goto(j, "send")
    /\ UNCHANGED <<version, parent, busy, toChild, toParent, client, backlog, exitByte>>

\* tran_file to a client that is there.
TranFile(j) ==
    /\ child[j] = "send" /\ conn[j] # NoConn
    /\ client[conn[j]] = "connected"
    /\ client' = [client EXCEPT ![conn[j]] = "done"]
    /\ Goto(j, "report")
    /\ UNCHANGED <<version, parent, busy, toChild, toParent, conn, backlog, exitByte>>

\* The client has left: what was sent before the kernel noticed is lost, the
\* next send raises SIGPIPE.
TranFileLeft(j) ==
    /\ child[j] = "send" /\ conn[j] # NoConn
    /\ client[conn[j]] = "left"
    /\ \E s \in {"report", "dead"} : Goto(j, s)
    /\ UNCHANGED <<version, parent, busy, toChild, toParent, conn, client, backlog, exitByte>>

\* Descriptor 0 is no socket: send_n fails at once, or tries for ever (20180706).
TranFileNoSocket(j) ==
    /\ child[j] = "send" /\ conn[j] = NoConn
    /\ Goto(j, IF version = "20180707" THEN "report" ELSE "spinning")
    /\ UNCHANGED <<version, parent, busy, toChild, toParent, conn, client, backlog, exitByte>>

\* Mutant: the child says that it is done when it has sent nothing yet.
ReportEarly(j) ==
    /\ child[j] = "send"
    /\ IF ParentEndOpen(j)
         THEN toParent' = [toParent EXCEPT ![j] = @ + 1] /\ UNCHANGED child
         ELSE Goto(j, "dead") /\ UNCHANGED toParent
    /\ toParent[j] < 2
    /\ UNCHANGED <<version, parent, busy, toChild, conn, client, backlog, exitByte>>

\* write of notbusy_flag.
Report(j) ==
    /\ child[j] = "report"
    /\ IF ParentEndOpen(j)
         THEN toParent' = [toParent EXCEPT ![j] = @ + 1] /\ Goto(j, "recv")
         ELSE Goto(j, "dead") /\ UNCHANGED toParent
    /\ UNCHANGED <<version, parent, busy, toChild, conn, client, backlog, exitByte>>

ChildStep(j) == \/ RecvFd(j) \/ RecvEof(j) \/ TranFile(j) \/ TranFileLeft(j)
                \/ TranFileNoSocket(j) \/ Report(j)

PoolNext == \/ \E c \in Clients : Connect(c) \/ Leave(c)
        \/ Sigusr1 \/ ParentStep
        \/ \E j \in Children : ChildStep(j)

PoolSpec == PoolInit /\ [][PoolNext]_poolVars

\* The parent and the children are scheduled; epoll_wait reports every event.
PoolFairness == /\ WF_poolVars(Accept) /\ WF_poolVars(BeginExit) /\ WF_poolVars(Exit)
                /\ \A j \in Children : WF_poolVars(NotBusy(j)) /\ WF_poolVars(ChildStep(j))

----------------------------------------------------------------------------
(* Properties *)

\* Type invariant of the pool.
PoolTypeOK ==
    /\ version \in {"20180706", "20180707"}
    /\ parent \in ParentStates /\ exitByte \in BOOLEAN
    /\ busy \in [Children -> BOOLEAN] /\ child \in [Children -> ChildStates]
    /\ \A j \in Children : \A i \in 1 .. Len(toChild[j]) :
          toChild[j][i].fd \in Clients \cup {NoConn} /\ toChild[j][i].flag \in {-1, 0}
    /\ toParent \in [Children -> Nat]
    /\ conn \in [Children -> Clients \cup {NoConn}]
    /\ client \in [Clients -> ClientStates]
    /\ Waiting \subseteq Clients

Sum(j) == Len(toChild[j]) + toParent[j] + (IF child[j] \in {"send", "report"} THEN 1 ELSE 0)

\* While the parent serves, busy_flag is set exactly while a connection is on its
\* way to the child, in its hands, or its byte on the way back: no child is given
\* a second connection, and none that works is forgotten.
BusyIsExact ==
    parent = "events" => \A j \in Children : ~Gone(j) =>
        Sum(j) = IF busy[j] THEN 1 ELSE 0

\* A client that connects and stays is sent the file or has its connection closed,
\* also when the server exits or dies.
PoolServes ==
    \A c \in Clients : client[c] = "connected" ~> client[c] # "connected"

\* A signal to exit ends the server: "server exit success".
ExitSucceeds == exitByte ~> parent = "exited"
============================================================================
