--------------------------- MODULE NetDiskServer ---------------------------
(***************************************************************************)
(* The net disk server of NET_DISK_TASK/SERVER: the event loop of main,    *)
(* the table client_fd, the two work queues and the two pools of worker    *)
(* threads, together with the client programs that drive them.             *)
(*                                                                         *)
(* One step is one critical section, one system call that other threads or *)
(* clients can observe, or one access to shared memory outside a lock.     *)
(* What a command does to files and to the database is abstracted: a       *)
(* command is answered in one message ("shell", or a transfer that is      *)
(* refused) or starts the transfer protocol of gets and puts.              *)
(***************************************************************************)
EXTENDS Naturals, Sequences, FiniteSets

CONSTANTS
    Clients,          \* client programs
    Fds,              \* descriptor numbers the kernel can give to connections
    SocketFd,         \* the listening socket, socket_fd
    ExitFd,           \* the read end of the pipe, exit_fd[0]
    NoFd,             \* -1
    NoClient,
    TcpCapacity,      \* TCP_CAPACITY
    QueueCapacity,    \* QUEUE_CAPACITY
    ShellWorkers,     \* threads that run thread_shell
    IOWorkers,        \* threads that run thread_file_IO
    Commands,         \* the kinds of command users type
    MaxCommands,      \* MaxCommands[c] bounds the commands client c sends
    SpuriousWakeups   \* may pthread_cond_wait return without a signal?

Workers == ShellWorkers \cup IOWorkers
Kinds   == {"shell", "IO"}
Slots   == 1 .. TcpCapacity

AllCommands == {"shell", "gets", "puts"}
Transfers   == {"gets", "puts"}

\* What a connection carries from client to server: commands; the size
\* message of a transfer, followed by the file ("more") or not ("done"); the
\* bytes of the file ("body"); the end of a command whose first bytes were
\* read as file content ("tail").
Messages == AllCommands \cup {"more", "done", "body", "tail"}

ASSUME ServerConstants ==
    /\ TcpCapacity \in Nat \ {0}
    /\ QueueCapacity \in Nat \ {0}
    /\ MaxCommands \in [Clients -> Nat]
    /\ Commands \subseteq AllCommands
    /\ SpuriousWakeups \in BOOLEAN
    /\ NoClient \notin Clients
    /\ {SocketFd, ExitFd, NoFd} \cap Fds = {}
    /\ SocketFd # ExitFd /\ SocketFd # NoFd /\ ExitFd # NoFd
    /\ ShellWorkers \cap IOWorkers = {}

\* The process may hold no more connections than the table has slots.
FdsFit == IsFiniteSet(Fds) /\ Cardinality(Fds) <= TcpCapacity

VARIABLES
    cst,       \* client: what the client program is doing
    sent,      \* client: how many commands it has sent (bounds the model)
    backlog,   \* kernel: connections not yet accepted, in order
    fdOf,      \* kernel: the server's descriptor of each client's connection
    inbox,     \* kernel: what each client has sent and the server not received
    exitByte,  \* kernel: is the byte of signal_exit in the pipe?
    table,     \* server->client_fd
    queue,     \* server->child_shell_queue and server->child_IO_queue
    wpc,       \* where each worker thread is
    task,      \* current_task of each worker thread
    mpc,       \* where main is
    ev,        \* the events of the current batch not yet handled
    cur,       \* the client whose descriptor main is serving
    msg        \* message.order in main

clientVars == <<cst, sent>>
kernelVars == <<backlog, fdOf, inbox, exitByte>>
workerVars == <<wpc, task>>
mainVars   == <<mpc, ev, cur, msg>>
vars == <<clientVars, kernelVars, table, queue, workerVars, mainVars>>

----------------------------------------------------------------------------
(* Values and helpers *)

\* A node of a work queue.  The field client is a history variable: who sent
\* the command.  The server itself knows only fd.
Task     == [fd : Fds, order : Messages, client : Clients]
ExitTask == [fd |-> NoFd, order |-> "exit", client |-> NoClient]
NoTask   == [fd |-> NoFd, order |-> "none", client |-> NoClient]

ClientStates == {"gone", "menu", "login", "prompt", "await",
                 "gets", "puts", "download", "upload"}
WorkerStates == {"ready", "waiting", "woken", "run", "size", "send",
                 "body", "clear", "exited"}
IdleStates   == {"ready", "waiting", "woken", "exited"}
MainStates   == {"events", "first", "recv", "insert", "signal", "exitIO",
                 "castIO", "exitShell", "castShell", "join", "done", "killed"}

KindOf(order) == IF order \in Transfers THEN "IO" ELSE "shell"
PoolOf(k)     == IF k = "IO" THEN IOWorkers ELSE ShellWorkers
QueueOf(w)    == IF w \in IOWorkers THEN "IO" ELSE "shell"

Running   == mpc \notin {"done", "killed"}
Listening == mpc \in {"events", "first", "recv", "insert", "signal"}

Hungup(c)     == c = NoClient \/ cst[c] = "gone"
Connected(c)  == fdOf[c] # NoFd
Queued(c)     == \E i \in 1 .. Len(backlog) : backlog[i] = c
\* The client at the other end of descriptor f, if f is open.
PeerOf(f)     == IF \E c \in Clients : fdOf[c] = f
                   THEN CHOOSE c \in Clients : fdOf[c] = f ELSE NoClient
FreeFds       == {f \in Fds : \A c \in Clients : fdOf[c] # f}

\* The slot the search loops over client_fd stop at.
IsSlotOf(s, f) == table[s].fd = f /\ \A t \in Slots : t < s => table[t].fd # f
InTable(f)     == \E s \in Slots : table[s].fd = f

\* Mutant: the event loop does not look at work_flag.
IsClientWorkNever(f) == FALSE

\* is_client_work(client_fd, f) == 1
IsClientWork(f) == \E s \in Slots : IsSlotOf(s, f) /\ table[s].work_flag

\* The loops that find the slot of f and set its work_flag.
SetWorkFlag(f, flag) ==
    \/ \E s \in Slots : /\ IsSlotOf(s, f)
                        /\ table' = [table EXCEPT ![s].work_flag = flag]
    \/ ~InTable(f) /\ UNCHANGED table

\* Mutant: a new connection is not marked busy.
RecordClientIdle(f) ==
    \/ \E s \in Slots : /\ IsSlotOf(s, NoFd)
                        /\ table' = [table EXCEPT ![s].fd = f]
    \/ ~InTable(NoFd) /\ UNCHANGED table

\* The loop that puts a new connection into the first free slot.  When there
\* is none the connection is served all the same.
RecordClient(f) ==
    \/ \E s \in Slots : /\ IsSlotOf(s, NoFd)
                        /\ table' = [table EXCEPT ![s] = [fd |-> f, work_flag |-> TRUE]]
    \/ ~InTable(NoFd) /\ UNCHANGED table

\* Mutant: a disconnected client keeps its slot.
ForgetClientNot(f) == UNCHANGED table

\* The loop that forgets a connection.
ForgetClient(f) ==
    \/ \E s \in Slots : /\ IsSlotOf(s, f)
                        /\ table' = [table EXCEPT ![s] = [fd |-> NoFd, work_flag |-> FALSE]]
    \/ ~InTable(f) /\ UNCHANGED table

\* The descriptors epoll reports: a connection is registered once its first
\* message has been received.
Ready ==
    {fdOf[c] : c \in {d \in Clients : /\ Connected(d)
                                      /\ inbox[d] # <<>> \/ Hungup(d)}}
    \cup {f \in {SocketFd} : backlog # <<>>}
    \cup {f \in {ExitFd} : exitByte}

\* A whole message can be received from the connection of c.
CanRecv(c) == c # NoClient /\ inbox[c] # <<>> /\ Head(inbox[c]) # "tail"

\* recv on the connection of c returns 0: all was received, the peer is gone.
AtEof(c) == ~CanRecv(c) /\ Hungup(c)

\* close(fd) of an accepted connection.
CloseFd(c) == /\ fdOf' = [fdOf EXCEPT ![c] = NoFd]
              /\ inbox' = [inbox EXCEPT ![c] = <<>>]

----------------------------------------------------------------------------
(* Initial state: server_init and server_start have run, the socket listens *)

Init ==
    /\ cst = [c \in Clients |-> "gone"]
    /\ sent = [c \in Clients |-> 0]
    /\ backlog = <<>>
    /\ fdOf = [c \in Clients |-> NoFd]
    /\ inbox = [c \in Clients |-> <<>>]
    /\ exitByte = FALSE
    /\ table = [s \in Slots |-> [fd |-> NoFd, work_flag |-> FALSE]]
    /\ queue = [k \in Kinds |-> <<>>]
    /\ wpc = [w \in Workers |-> "ready"]
    /\ task = [w \in Workers |-> NoTask]
    /\ mpc = "events" /\ ev = {} /\ cur = NoClient /\ msg = "none"

----------------------------------------------------------------------------
(* The client programs (CLIENT/src) and the user's ^C *)

ToServer(c, m) == inbox' = [inbox EXCEPT ![c] = Append(@, m)]

\* The program starts and connects; the kernel completes the handshake.
Connect(c) ==
    /\ Listening
    /\ Hungup(c) /\ ~Connected(c) /\ ~Queued(c)
    /\ cst' = [cst EXCEPT ![c] = "menu"]
    /\ backlog' = Append(backlog, c)
    /\ UNCHANGED <<sent, fdOf, inbox, exitByte, table, queue, workerVars, mainVars>>

\* user_login: the user logs in or registers.
Login(c) ==
    /\ cst[c] = "menu" /\ sent[c] < MaxCommands[c]
    /\ cst' = [cst EXCEPT ![c] = "login"]
    /\ sent' = [sent EXCEPT ![c] = @ + 1]
    /\ ToServer(c, "shell")
    /\ UNCHANGED <<backlog, fdOf, exitByte, table, queue, workerVars, mainVars>>

\* do_user_task: the user types a command.
Command(c) ==
    /\ cst[c] = "prompt" /\ sent[c] < MaxCommands[c]
    /\ cst' = [cst EXCEPT ![c] = "await"]
    /\ sent' = [sent EXCEPT ![c] = @ + 1]
    /\ \E m \in Commands : ToServer(c, m)
    /\ UNCHANGED <<backlog, fdOf, exitByte, table, queue, workerVars, mainVars>>

\* recv_file: the size of the local file, and whether more of it is wanted.
AskDownload(c) ==
    /\ cst[c] = "gets"
    /\ \/ ToServer(c, "done") /\ cst' = [cst EXCEPT ![c] = "prompt"]
       \/ ToServer(c, "more") /\ cst' = [cst EXCEPT ![c] = "download"]
    /\ UNCHANGED <<sent, backlog, fdOf, exitByte, table, queue, workerVars, mainVars>>

\* send_file: the size of the local file, and whether more of it will follow.
OfferUpload(c) ==
    /\ cst[c] = "puts"
    /\ \/ ToServer(c, "done") /\ cst' = [cst EXCEPT ![c] = "prompt"]
       \/ ToServer(c, "more") /\ cst' = [cst EXCEPT ![c] = "upload"]
    /\ UNCHANGED <<sent, backlog, fdOf, exitByte, table, queue, workerVars, mainVars>>

\* send_file: sendfile.  The client does not wait for the server after it.
Upload(c) ==
    /\ cst[c] = "upload"
    /\ cst' = [cst EXCEPT ![c] = "prompt"]
    /\ ToServer(c, "body")
    /\ UNCHANGED <<sent, backlog, fdOf, exitByte, table, queue, workerVars, mainVars>>

\* The user stops the program: exit closes the client's end.
Leave(c) ==
    /\ ~Hungup(c)
    /\ cst' = [cst EXCEPT ![c] = "gone"]
    /\ UNCHANGED <<sent, kernelVars, table, queue, workerVars, mainVars>>

\* signal_exit.  main reads one byte; later ones stay in the pipe.
Sigint ==
    /\ Listening /\ ~exitByte
    /\ exitByte' = TRUE
    /\ UNCHANGED <<clientVars, backlog, fdOf, inbox, table, queue, workerVars, mainVars>>

\* What one client program does by itself, without its user.
Transfer(c) == AskDownload(c) \/ OfferUpload(c) \/ Upload(c)

----------------------------------------------------------------------------
(* main: the event loop *)

NextEvent == mpc' = "events" /\ cur' = NoClient /\ msg' = "none"

EpollWait ==
    /\ mpc = "events" /\ ev = {} /\ Ready # {}
    /\ ev' = Ready
    /\ UNCHANGED <<clientVars, kernelVars, table, queue, workerVars, mpc, cur, msg>>

\* accept, up to the recv_n that blocks main until the client's first message.
Accept ==
    /\ mpc = "events" /\ SocketFd \in ev /\ backlog # <<>>
    /\ \E f \in FreeFds : fdOf' = [fdOf EXCEPT ![Head(backlog)] = f]
    /\ backlog' = Tail(backlog)
    /\ ev' = ev \ {SocketFd}
    /\ mpc' = "first" /\ cur' = Head(backlog)
    /\ UNCHANGED <<clientVars, inbox, exitByte, table, queue, workerVars, msg>>

\* accept returns -1: the process is out of descriptors.  recv_n(-1) fails too.
AcceptFails ==
    /\ mpc = "events" /\ SocketFd \in ev /\ FreeFds = {}
    /\ ev' = ev \ {SocketFd}
    /\ UNCHANGED <<clientVars, kernelVars, table, queue, workerVars, mpc, cur, msg>>

RecvInto(next) ==
    /\ CanRecv(cur)
    /\ msg' = Head(inbox[cur])
    /\ inbox' = [inbox EXCEPT ![cur] = Tail(@)]
    /\ mpc' = next

\* The first message: epoll_ctl(ADD), a slot of the table, the task.
RecvFirst ==
    /\ mpc = "first"
    /\ RecvInto("insert")
    /\ RecordClient(fdOf[cur])
    /\ UNCHANGED <<clientVars, backlog, fdOf, exitByte, queue, workerVars, ev, cur>>

FirstEof ==
    /\ mpc = "first" /\ AtEof(cur)
    /\ CloseFd(cur)
    /\ NextEvent
    /\ UNCHANGED <<clientVars, backlog, exitByte, table, queue, workerVars, ev>>

\* An event of a connection whose task is not finished is passed over.
SkipBusy ==
    /\ mpc = "events"
    /\ \E f \in ev \cap Fds : IsClientWork(f) /\ ev' = ev \ {f}
    /\ UNCHANGED <<clientVars, kernelVars, table, queue, workerVars, mpc, cur, msg>>

\* is_client_work did not return 1: main goes on to recv_n.
ServeClient ==
    /\ mpc = "events"
    /\ \E c \in Clients : /\ fdOf[c] \in ev \cap Fds
                          /\ ~IsClientWork(fdOf[c])
                          /\ ev' = ev \ {fdOf[c]}
                          /\ cur' = c
    /\ mpc' = "recv"
    /\ UNCHANGED <<clientVars, kernelVars, table, queue, workerVars, msg>>

\* recv_n returned a message (it blocks until then): mark the client busy.
RecvCommand ==
    /\ mpc = "recv"
    /\ RecvInto("insert")
    /\ SetWorkFlag(fdOf[cur], TRUE)
    /\ UNCHANGED <<clientVars, backlog, fdOf, exitByte, queue, workerVars, ev, cur>>

\* recv_n returned 0: the slot is cleared, the descriptor closed.
Disconnect ==
    /\ mpc = "recv" /\ AtEof(cur)
    /\ ForgetClient(fdOf[cur])
    /\ CloseFd(cur)
    /\ NextEvent
    /\ UNCHANGED <<clientVars, backlog, exitByte, queue, workerVars, ev>>

\* queue_insert.  Its result is not looked at: a full queue drops the task.
QueueInsert(k, node) ==
    queue' = IF Len(queue[k]) = QueueCapacity THEN queue
             ELSE [queue EXCEPT ![k] = Append(@, node)]

\* give_child_task: lock, queue_insert, unlock ...
GiveChildTask ==
    /\ mpc = "insert"
    /\ QueueInsert(KindOf(msg), [fd |-> fdOf[cur], order |-> msg, client |-> cur])
    /\ mpc' = "signal"
    /\ UNCHANGED <<clientVars, kernelVars, table, workerVars, ev, cur, msg>>

Waiting(k) == {w \in PoolOf(k) : wpc[w] = "waiting"}

\* pthread_cond_signal wakes one of the waiting threads, if any waits.
CondSignal(k) ==
    \/ \E w \in Waiting(k) : wpc' = [wpc EXCEPT ![w] = "woken"]
    \/ Waiting(k) = {} /\ UNCHANGED wpc

CondBroadcast(k) ==
    wpc' = [w \in Workers |-> IF w \in Waiting(k) THEN "woken" ELSE wpc[w]]

\* Mutant: nobody is signalled.
SignalNobody ==
    /\ mpc = "signal"
    /\ NextEvent
    /\ UNCHANGED <<clientVars, kernelVars, table, queue, workerVars, ev>>

\* ... and, after the unlock, the signal.
SignalWorker ==
    /\ mpc = "signal"
    /\ CondSignal(KindOf(msg))
    /\ NextEvent
    /\ UNCHANGED <<clientVars, kernelVars, table, queue, task, ev>>

----------------------------------------------------------------------------
(* main: the exit branch *)

\* close(socket_fd) resets the connections never accepted; the byte is read.
BeginExit ==
    /\ mpc = "events" /\ ExitFd \in ev
    /\ cst' = [c \in Clients |-> IF Queued(c) THEN "gone" ELSE cst[c]]
    /\ inbox' = [c \in Clients |-> IF Queued(c) THEN <<>> ELSE inbox[c]]
    /\ backlog' = <<>>
    /\ exitByte' = FALSE
    /\ ev' = ev \ {ExitFd}
    /\ mpc' = "exitIO"
    /\ UNCHANGED <<sent, fdOf, table, queue, workerVars, cur, msg>>

\* queue_head_insert_exit puts one exit node before all pending tasks.
InsertExit(k, from, next) ==
    /\ mpc = from
    /\ queue' = [queue EXCEPT ![k] = <<ExitTask>> \o @]
    /\ mpc' = next
    /\ UNCHANGED <<clientVars, kernelVars, table, workerVars, ev, cur, msg>>

\* Mutant: the exit node is inserted and nobody is told.
BroadcastNobody(k, from, next) ==
    /\ mpc = from
    /\ mpc' = next
    /\ UNCHANGED <<clientVars, kernelVars, table, queue, workerVars, ev, cur, msg>>

BroadcastExit(k, from, next) ==
    /\ mpc = from
    /\ CondBroadcast(k)
    /\ mpc' = next
    /\ UNCHANGED <<clientVars, kernelVars, table, queue, task, ev, cur, msg>>

ExitQueues ==
    \/ InsertExit("IO", "exitIO", "castIO")
    \/ BroadcastExit("IO", "castIO", "exitShell")
    \/ InsertExit("shell", "exitShell", "castShell")
    \/ BroadcastExit("shell", "castShell", "join")

\* The process ends, however it ends: the kernel closes every connection.
EndProcess(how) ==
    /\ mpc' = how /\ ev' = {} /\ cur' = NoClient /\ msg' = "none"
    /\ cst' = [c \in Clients |-> "gone"]
    /\ fdOf' = [c \in Clients |-> NoFd]
    /\ inbox' = [c \in Clients |-> <<>>]
    /\ backlog' = <<>> /\ exitByte' = FALSE

\* Mutant: main does not join.
FinishUnjoined ==
    /\ mpc = "join"
    /\ EndProcess("done")
    /\ queue' = [k \in Kinds |-> <<>>]
    /\ UNCHANGED <<sent, table, workerVars>>

\* Every pthread_join has returned; main cleans up and returns.
Finish ==
    /\ mpc = "join" /\ \A w \in Workers : wpc[w] = "exited"
    /\ EndProcess("done")
    /\ queue' = [k \in Kinds |-> <<>>]
    /\ UNCHANGED <<sent, table, workerVars>>

MainStep ==
    \/ EpollWait \/ Accept \/ AcceptFails \/ RecvFirst \/ FirstEof
    \/ SkipBusy \/ ServeClient \/ RecvCommand \/ Disconnect
    \/ GiveChildTask \/ SignalWorker
    \/ BeginExit \/ ExitQueues \/ Finish

----------------------------------------------------------------------------
(* The worker threads: thread_shell and thread_file_IO *)

At(w, s)   == Running /\ wpc[w] = s
Goto(w, s) == wpc' = [wpc EXCEPT ![w] = s]

Peer(w)    == PeerOf(task[w].fd)

\* The lock is taken, the queue empty: wait, once, and release the lock.
CondWait(w) ==
    /\ At(w, "ready") /\ queue[QueueOf(w)] = <<>>
    /\ Goto(w, "waiting")
    /\ UNCHANGED <<clientVars, kernelVars, table, queue, task, mainVars>>

\* pthread_cond_wait may return although nobody signalled.
SpuriousWake(w) ==
    /\ SpuriousWakeups /\ At(w, "waiting")
    /\ Goto(w, "woken")
    /\ UNCHANGED <<clientVars, kernelVars, table, queue, task, mainVars>>

\* queue_pop under the lock, by a thread that has not waited or that comes
\* back from the wait.  An exit node ends the thread.
PopTask(w) ==
    /\ At(w, "ready") \/ At(w, "woken")
    /\ queue[QueueOf(w)] # <<>>
    /\ queue' = [queue EXCEPT ![QueueOf(w)] = Tail(@)]
    /\ LET node == Head(queue[QueueOf(w)]) IN
       IF node = ExitTask
         THEN Goto(w, "exited") /\ UNCHANGED task
         ELSE Goto(w, "run") /\ task' = [task EXCEPT ![w] = node]
    /\ UNCHANGED <<clientVars, kernelVars, table, mainVars>>

\* The queue is empty when the thread comes back from the wait: queue_pop
\* yields NULL, which the thread takes for the order to exit.
PopNull(w) ==
    /\ At(w, "woken") /\ queue[QueueOf(w)] = <<>>
    /\ Goto(w, "exited")
    /\ UNCHANGED <<clientVars, kernelVars, table, queue, task, mainVars>>

\* A message to the client of the task; nobody reads it if the client is gone.
ToClient(w, states) ==
    LET c == Peer(w) IN
    IF Hungup(c) THEN UNCHANGED cst
    ELSE \E s \in states : cst' = [cst EXCEPT ![c] = s]

\* Where the answer to its command leaves a client program: a login may be
\* refused, and is then asked for again.
Answered(c) == IF c # NoClient /\ cst[c] = "login" THEN {"menu", "prompt"}
               ELSE {"prompt"}

\* Mutant: a command is not answered.
ReplyForgotten(w) ==
    /\ At(w, "run")
    /\ Goto(w, "clear")
    /\ UNCHANGED <<clientVars, kernelVars, table, queue, task, mainVars>>

\* The command is done and answered in one message: every shell command, and
\* a transfer that is refused.
Reply(w) ==
    /\ At(w, "run")
    /\ ToClient(w, Answered(Peer(w)))
    /\ Goto(w, "clear")
    /\ UNCHANGED <<sent, kernelVars, table, queue, task, mainVars>>

\* Mutant: the connection counts as free once the transfer is accepted.
SendHeaderFrees(w) ==
    /\ At(w, "run") /\ task[w].order \in Transfers
    /\ ToClient(w, {task[w].order})
    /\ SetWorkFlag(task[w].fd, FALSE)
    /\ Goto(w, "size")
    /\ UNCHANGED <<sent, kernelVars, queue, task, mainVars>>

\* do_task_gets, do_task_puts: the transfer is accepted.
SendHeader(w) ==
    /\ At(w, "run") /\ task[w].order \in Transfers
    /\ ToClient(w, {task[w].order})
    /\ Goto(w, "size")
    /\ UNCHANGED <<sent, kernelVars, table, queue, task, mainVars>>

\* send_file, recv_file: the client's size message.
RecvSize(w) ==
    LET c == Peer(w) IN
    /\ At(w, "size") /\ CanRecv(c)
    /\ inbox' = [inbox EXCEPT ![c] = Tail(@)]
    /\ Goto(w, IF Head(inbox[c]) = "done" THEN "clear"
               ELSE IF task[w].order = "gets" THEN "send" ELSE "body")
    /\ UNCHANGED <<clientVars, backlog, fdOf, exitByte, table, queue, task, mainVars>>

\* send_file: sendfile to a client that reads.
SendBody(w) ==
    /\ At(w, "send") /\ ~Hungup(Peer(w))
    /\ ToClient(w, {"prompt"})
    /\ Goto(w, "clear")
    /\ UNCHANGED <<sent, kernelVars, table, queue, task, mainVars>>

\* ... or to one that has left: the data is buffered or an error is returned.
SendBodyFails(w) ==
    /\ At(w, "send") /\ Hungup(Peer(w))
    /\ Goto(w, "clear")
    /\ UNCHANGED <<clientVars, kernelVars, table, queue, task, mainVars>>

\* ... or, when the peer's reset came between two chunks, SIGPIPE, which the
\* server neither ignores nor handles, ends the process.
Sigpipe(w) ==
    /\ At(w, "send") /\ Hungup(Peer(w))
    /\ EndProcess("killed")
    /\ UNCHANGED <<sent, table, queue, workerVars>>

\* Mutant: everything that has arrived is taken for file content.
RecvBodyAll(w) ==
    LET c == Peer(w) IN
    /\ At(w, "body") /\ CanRecv(c)
    /\ inbox' = [inbox EXCEPT ![c] = <<>>]
    /\ Goto(w, "clear")
    /\ UNCHANGED <<clientVars, backlog, fdOf, exitByte, table, queue, task, mainVars>>

\* recv_file: the loop reads up to 1000 bytes at a time whatever is left of
\* the file, so its last recv may take the beginning of the next command.
RecvBody(w) ==
    LET c == Peer(w) IN
    /\ At(w, "body") /\ CanRecv(c)
    /\ \/ inbox' = [inbox EXCEPT ![c] = Tail(@)]
       \/ Len(inbox[c]) > 1 /\ inbox' = [inbox EXCEPT ![c] = <<"tail">>]
    /\ Goto(w, "clear")
    /\ UNCHANGED <<clientVars, backlog, fdOf, exitByte, table, queue, task, mainVars>>

\* Mutant: a broken transfer goes back to the queue without clearing the flag.
PeerGoneForgets(w) ==
    /\ At(w, "size") \/ At(w, "body")
    /\ AtEof(Peer(w))
    /\ Goto(w, "ready")
    /\ task' = [task EXCEPT ![w] = NoTask]
    /\ UNCHANGED <<clientVars, kernelVars, table, queue, mainVars>>

\* recv returns 0 or an error in the middle of a transfer.
PeerGone(w) ==
    /\ At(w, "size") \/ At(w, "body")
    /\ AtEof(Peer(w))
    /\ Goto(w, "clear")
    /\ UNCHANGED <<clientVars, kernelVars, table, queue, task, mainVars>>

\* Mutant: the task is not dropped.
ClearWorkFlagOnly(w) ==
    /\ At(w, "clear")
    /\ SetWorkFlag(task[w].fd, FALSE)
    /\ Goto(w, "ready")
    /\ UNCHANGED <<clientVars, kernelVars, queue, task, mainVars>>

\* The task is finished: work_flag = 0 (no lock), free(current_task).
ClearWorkFlag(w) ==
    /\ At(w, "clear")
    /\ SetWorkFlag(task[w].fd, FALSE)
    /\ Goto(w, "ready")
    /\ task' = [task EXCEPT ![w] = NoTask]
    /\ UNCHANGED <<clientVars, kernelVars, queue, mainVars>>

WorkerStep(w) ==
    \/ CondWait(w) \/ PopTask(w) \/ PopNull(w)
    \/ Reply(w) \/ SendHeader(w) \/ RecvSize(w)
    \/ SendBody(w) \/ SendBodyFails(w) \/ Sigpipe(w)
    \/ RecvBody(w) \/ PeerGone(w) \/ ClearWorkFlag(w)

----------------------------------------------------------------------------
UserStep(c) == Connect(c) \/ Login(c) \/ Command(c) \/ Leave(c)

Next ==
    \/ \E c \in Clients : UserStep(c) \/ Transfer(c)
    \/ \E w \in Workers : WorkerStep(w) \/ SpuriousWake(w)
    \/ Sigint
    \/ MainStep

Spec == Init /\ [][Next]_vars

\* Every thread keeps running and every client program finishes by itself the
\* transfer it is in.  Nothing is assumed of users.
Fairness ==
    /\ WF_vars(MainStep)
    /\ \A w \in Workers : WF_vars(WorkerStep(w))
    /\ \A c \in Clients : WF_vars(Transfer(c))

FairSpec == Spec /\ Fairness

\* A user asked to log in does so or closes the program in the end.
AtMenu(c) == cst[c] = "menu" /\ (Login(c) \/ Leave(c))

UserSpec == FairSpec /\ \A c \in Clients : WF_vars(AtMenu(c))

----------------------------------------------------------------------------
(* Properties *)

\* Type invariant: what each variable of main, of the workers and of the
\* clients can hold; a worker has a task exactly between queue_pop and free.
TypeOK ==
    /\ cst \in [Clients -> ClientStates]
    /\ sent \in [Clients -> Nat] /\ \A c \in Clients : sent[c] <= MaxCommands[c]
    /\ backlog \in Seq(Clients)
    /\ fdOf \in [Clients -> Fds \cup {NoFd}]
    /\ inbox \in [Clients -> Seq(Messages)]
    /\ exitByte \in BOOLEAN
    /\ table \in [Slots -> [fd : Fds \cup {NoFd}, work_flag : BOOLEAN]]
    /\ queue \in [Kinds -> Seq(Task \cup {ExitTask})]
    /\ wpc \in [Workers -> WorkerStates]
    /\ task \in [Workers -> Task \cup {NoTask}]
    /\ \A w \in Workers : task[w] = NoTask <=> wpc[w] \in IdleStates
    /\ mpc \in MainStates
    /\ ev \subseteq Fds \cup {SocketFd, ExitFd}
    /\ cur \in Clients \cup {NoClient}
    /\ msg \in Messages \cup {"none"}

\* Positions of the queues that hold a task of descriptor f.
QueuedAt(f) == {p \in UNION {{k} \X (1 .. Len(queue[k])) : k \in Kinds} :
                  queue[p[1]][p[2]].fd = f}

\* Workers that hold a task of descriptor f.
HeldBy(f) == {w \in Workers : task[w].fd = f}

\* main has marked f as busy and not yet queued its task.
MainHolds(f) == mpc = "insert" /\ fdOf[cur] = f

\* A connection has at most one task in the whole server: main stops serving
\* it while work_flag is set, so two workers never share its socket.
OneTaskPerConnection ==
    \A f \in Fds :
        /\ \A p, q \in QueuedAt(f) : p = q
        /\ \A v, w \in HeldBy(f) : v = w
        /\ HeldBy(f) = {} \/ QueuedAt(f) = {}
        /\ MainHolds(f) => HeldBy(f) = {} /\ QueuedAt(f) = {}

\* As long as a task is queued or running its connection stays open, so the
\* descriptor in the task cannot have been given to another client meanwhile:
\* the answer goes to the client that asked.
TaskKeepsItsClient ==
    Running =>
        /\ \A k \in Kinds : \A i \in 1 .. Len(queue[k]) :
              queue[k][i] # ExitTask => fdOf[queue[k][i].client] = queue[k][i].fd
        /\ \A w \in Workers :
              task[w] # NoTask => fdOf[task[w].client] = task[w].fd

\* work_flag is set exactly while the server has a task of the connection: a
\* client is neither served twice nor locked out for ever.
FlagMeansTask ==
    Running => \A f \in Fds :
        IsClientWork(f) <=> \/ MainHolds(f)
                            \/ QueuedAt(f) # {}
                            \/ HeldBy(f) # {}

\* The table and the open connections correspond one to one; only the
\* connection whose first message main still waits for has no slot.
SlotPerConnection ==
    Running =>
        /\ \A s, t \in Slots : table[s].fd = table[t].fd => s = t \/ table[s].fd = NoFd
        /\ \A f \in Fds : InTable(f) <=> \E c \in Clients :
              fdOf[c] = f /\ ~(mpc = "first" /\ cur = c)

\* main takes only commands for commands: while a worker transfers a file on
\* a connection, main leaves the bytes of the transfer alone.
TransferDataKept ==
    /\ mpc = "insert" => msg \in AllCommands
    /\ mpc \in {"first", "recv"} /\ CanRecv(cur) => Head(inbox[cur]) \in AllCommands

\* No request gets lost inside the server: the command of every client that
\* awaits an answer is still in its socket, in main's hands, in a queue, or
\* with a worker that has not answered it.
RequestNotLost ==
    \A c \in Clients : Connected(c) /\ cst[c] \in {"login", "await"} =>
        \/ inbox[c] # <<>>
        \/ mpc = "insert" /\ cur = c
        \/ QueuedAt(fdOf[c]) # {}
        \/ \E w \in HeldBy(fdOf[c]) : wpc[w] = "run"

\* give_child_task ignores the result of queue_insert: that is right because
\* the queue it inserts into is never full.
QueueHasRoom == mpc = "insert" => Len(queue[KindOf(msg)]) < QueueCapacity

\* main waits in recv_n and nothing is there to receive.
MainBlocked == mpc = "recv" /\ ~CanRecv(cur)

\* main may block in recv_n, with the whole server, when a worker received the
\* data that epoll announced.  It then blocks on a client that waits for its
\* own user, or whose next command a worker took in part for file content:
\* never on a client that waits for the server or is in a transfer.
RecvBlocksOnUser ==
    MainBlocked /\ ~Hungup(cur) => cst[cur] = "prompt" \/ inbox[cur] = <<"tail">>

\* The server ends in the orderly way only when no client is in the middle of
\* a transfer and each unanswered command is one no worker had begun.
ExitKeepsRunningTasks ==
    [][mpc' = "done" /\ mpc # "done" =>
         \A c \in Clients : Connected(c) =>
            \/ cst[c] \in {"menu", "prompt", "gone"}
            \/ inbox[c] # <<>> \/ QueuedAt(fdOf[c]) # {}]_vars

\* Shutdown, once begun, ends.
ExitCompletes == (mpc = "exitIO") ~> ~Running

PoolGone(k) == \A w \in PoolOf(k) : wpc[w] = "exited"

\* A client that awaits an answer gets it, unless the server shuts down, a
\* whole pool has exited before, or main is blocked in recv_n.
RequestAnswered ==
    \A c \in Clients : (cst[c] \in {"login", "await"}) ~>
        \/ cst[c] \notin {"login", "await"}
        \/ exitByte \/ ~Listening \/ MainBlocked \/ \E k \in Kinds : PoolGone(k)

\* A worker thread exits only when the server shuts down.
WorkersStay == Listening => \A w \in Workers : wpc[w] # "exited"

\* The server holds at most TCP_CAPACITY connections.
ConnectionsWithinCapacity ==
    \A C \in SUBSET Clients :
        (\A c \in C : Connected(c)) => Cardinality(C) <= TcpCapacity
============================================================================
