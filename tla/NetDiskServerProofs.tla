------------------------ MODULE NetDiskServerProofs ------------------------
(***************************************************************************)
(* What is proved about NetDiskServer for every number of clients, threads *)
(* and slots.  First the types; work_flag at work: that a connection has   *)
(* one task at a time, that the task stays with the client that sent it,   *)
(* and that the table records exactly the open connections.  All but the   *)
(* types need a free slot for every connection, FdsFit; with fewer slots   *)
(* it is false.  Then what client programs are told: that main takes only  *)
(* commands for commands, that no request gets lost in the server, on whom *)
(* main may block in recv_n, and that an orderly exit cuts no transfer     *)
(* short.  These follow the bytes between client and server through the    *)
(* whole protocol; they need a slot and a place in the queue for every     *)
(* connection, QueuesFit.                                                  *)
(***************************************************************************)
EXTENDS NetDiskServer, FiniteSetTheorems, SequenceTheorems, TLAPS

----------------------------------------------------------------------------
(* Type correctness *)

\* While main serves a connection, cur is a client whose connection is open,
\* and msg is a message once it has received one.
ServedOK ==
    /\ mpc \in {"first", "recv", "insert"} => cur \in Clients /\ fdOf[cur] \in Fds
    /\ mpc \in {"insert", "signal"} => msg \in Messages

TypeInv == TypeOK /\ ServedOK

LEMMA InitTypeInv == Init => TypeInv
  <1> SUFFICES ASSUME Init PROVE TypeInv
    OBVIOUS
  <1>1. TypeOK
    <2> USE DEF Init
    <2>1. /\ cst \in [Clients -> ClientStates] /\ wpc \in [Workers -> WorkerStates]
          /\ \A w \in Workers : task[w] = NoTask <=> wpc[w] \in IdleStates
      BY DEF ClientStates, WorkerStates, IdleStates
    <2>2. sent \in [Clients -> Nat] /\ \A c \in Clients : sent[c] <= MaxCommands[c]
      BY ServerConstants
    <2>3. /\ fdOf \in [Clients -> Fds \cup {NoFd}]
          /\ task \in [Workers -> Task \cup {NoTask}]
          /\ table \in [Slots -> [fd : Fds \cup {NoFd}, work_flag : BOOLEAN]]
      OBVIOUS
    <2>4. /\ inbox \in [Clients -> Seq(Messages)]
          /\ queue \in [Kinds -> Seq(Task \cup {ExitTask})]
          /\ backlog \in Seq(Clients)
      OBVIOUS
    <2>5. exitByte \in BOOLEAN /\ mpc \in MainStates /\ ev = {}
      BY DEF MainStates
    <2> QED
      BY <2>1, <2>2, <2>3, <2>4, <2>5 DEF TypeOK
  <1>2. ServedOK
    BY DEF Init, ServedOK
  <1> QED
    BY <1>1, <1>2 DEF TypeInv

\* The client at the other end of a descriptor is a client or nobody.
LEMMA PeerType == \A f : PeerOf(f) \in Clients \cup {NoClient}
  BY DEF PeerOf

Entry == [fd : Fds \cup {NoFd}, work_flag : BOOLEAN]

\* The loops over client_fd keep the type of the table.
LEMMA TableType ==
    ASSUME table \in [Slots -> Entry], NEW f \in Fds, NEW flag \in BOOLEAN,
           RecordClient(f) \/ ForgetClient(f) \/ SetWorkFlag(f, flag)
    PROVE  table' \in [Slots -> Entry]
  <1>1. CASE UNCHANGED table
    BY <1>1
  <1>2. ASSUME NEW s \in Slots, NEW r \in Entry, table' = [table EXCEPT ![s] = r]
        PROVE  table' \in [Slots -> Entry]
    BY <1>2
  <1>3. CASE RecordClient(f)
    <2>1. [fd |-> f, work_flag |-> TRUE] \in Entry
      BY DEF Entry
    <2> QED
      BY <1>1, <1>2, <1>3, <2>1 DEF RecordClient
  <1>4. CASE ForgetClient(f)
    <2>1. [fd |-> NoFd, work_flag |-> FALSE] \in Entry
      BY DEF Entry
    <2> QED
      BY <1>1, <1>2, <1>4, <2>1 DEF ForgetClient
  <1>5. CASE SetWorkFlag(f, flag)
    <2>1. ASSUME NEW s \in Slots, table' = [table EXCEPT ![s].work_flag = flag]
          PROVE  table' \in [Slots -> Entry]
      <3>1. table[s] \in Entry
        OBVIOUS
      <3>2. [table[s] EXCEPT !.work_flag = flag] \in Entry
        BY <3>1 DEF Entry
      <3>3. table' = [table EXCEPT ![s] = [table[s] EXCEPT !.work_flag = flag]]
        BY <2>1
      <3> QED
        BY <3>2, <3>3
    <2> QED
      BY <1>1, <1>5, <2>1 DEF SetWorkFlag
  <1> QED
    BY <1>3, <1>4, <1>5

LEMMA UserType ==
    ASSUME TypeInv, NEW c \in Clients, UserStep(c) \/ Transfer(c)
    PROVE  TypeInv'
  <1> USE ServerConstants DEF TypeInv, TypeOK, ServedOK, ClientStates, Messages, AllCommands,
          workerVars, mainVars, ToServer
  <1>1. CASE Connect(c)
    BY <1>1 DEF Connect
  <1>2. CASE Login(c)
    BY <1>2 DEF Login
  <1>3. CASE Command(c)
    <2>1. PICK m \in Messages : inbox' = [inbox EXCEPT ![c] = Append(@, m)]
      BY <1>3 DEF Command
    <2>2. inbox' \in [Clients -> Seq(Messages)]
      BY <2>1
    <2> QED
      BY <1>3, <2>2 DEF Command
  <1>4. CASE AskDownload(c)
    <2>1. \E m \in {"done", "more"}, s \in {"prompt", "download"} :
             inbox' = [inbox EXCEPT ![c] = Append(@, m)] /\ cst' = [cst EXCEPT ![c] = s]
      BY <1>4 DEF AskDownload
    <2> QED
      BY <1>4, <2>1 DEF AskDownload
  <1>5. CASE OfferUpload(c)
    <2>1. \E m \in {"done", "more"}, s \in {"prompt", "upload"} :
             inbox' = [inbox EXCEPT ![c] = Append(@, m)] /\ cst' = [cst EXCEPT ![c] = s]
      BY <1>5 DEF OfferUpload
    <2> QED
      BY <1>5, <2>1 DEF OfferUpload
  <1>6. CASE Upload(c)
    BY <1>6 DEF Upload
  <1>7. CASE Leave(c)
    BY <1>7 DEF Leave, kernelVars
  <1> QED
    BY <1>1, <1>2, <1>3, <1>4, <1>5, <1>6, <1>7 DEF UserStep, Transfer

LEMMA WorkerType ==
    ASSUME TypeInv, NEW w \in Workers, WorkerStep(w) \/ SpuriousWake(w)
    PROVE  TypeInv'
  <1> USE ServerConstants DEF TypeInv, TypeOK, ServedOK, WorkerStates, mainVars, clientVars, kernelVars,
          At, Goto, IdleStates
  <1>a. QueueOf(w) \in Kinds
    BY DEF QueueOf, Kinds
  <1>b. Peer(w) \in Clients \cup {NoClient}
    BY PeerType DEF Peer
  <1>1. CASE CondWait(w)
    BY <1>1 DEF CondWait
  <1>2. CASE SpuriousWake(w)
    BY <1>2 DEF SpuriousWake
  <1>3. CASE PopTask(w)
    <2> DEFINE q == queue[QueueOf(w)]
    <2>1. q \in Seq(Task \cup {ExitTask}) /\ q # <<>>
      BY <1>3, <1>a DEF PopTask
    <2>2. Head(q) \in Task \cup {ExitTask} /\ Tail(q) \in Seq(Task \cup {ExitTask})
      BY <2>1
    <2>3. queue' \in [Kinds -> Seq(Task \cup {ExitTask})]
      BY <1>3, <1>a, <2>2 DEF PopTask
    <2>4. /\ wpc' \in [Workers -> WorkerStates] /\ task' \in [Workers -> Task \cup {NoTask}]
          /\ \A v \in Workers : task'[v] = NoTask <=> wpc'[v] \in IdleStates
      <3>0. NoTask \notin Task
        BY DEF NoTask, Task
      <3>1. CASE Head(q) = ExitTask
        BY <1>3, <3>1 DEF PopTask
      <3>2. CASE Head(q) # ExitTask
        <4>1. wpc' = [wpc EXCEPT ![w] = "run"] /\ task' = [task EXCEPT ![w] = Head(q)]
          BY <1>3, <3>2 DEF PopTask
        <4> QED
          BY <4>1, <3>0, <3>2, <2>2
      <3> QED
        BY <3>1, <3>2
    <2> QED
      BY <1>3, <2>3, <2>4 DEF PopTask
  <1>4. CASE PopNull(w)
    BY <1>4 DEF PopNull
  <1>5. CASE Reply(w)
    BY <1>5, <1>b DEF Reply, ToClient, Answered, Hungup, ClientStates
  <1>6. CASE SendHeader(w)
    <2>1. cst' \in [Clients -> ClientStates]
      BY <1>6, <1>b DEF SendHeader, ToClient, Hungup, ClientStates, Transfers
    <2> QED
      BY <1>6, <2>1 DEF SendHeader
  <1>7. CASE RecvSize(w)
    BY <1>7, <1>b DEF RecvSize, CanRecv
  <1>8. CASE SendBody(w)
    BY <1>8, <1>b DEF SendBody, ToClient, Hungup, ClientStates
  <1>9. CASE SendBodyFails(w)
    BY <1>9 DEF SendBodyFails
  <1>10. CASE Sigpipe(w)
    <2>1. UNCHANGED <<sent, table, queue, wpc, task>>
      BY <1>10 DEF Sigpipe, workerVars
    <2>2. /\ mpc' = "killed" /\ ev' = {} /\ cur' = NoClient /\ msg' = "none"
          /\ backlog' = <<>> /\ exitByte' = FALSE
          /\ cst' = [c \in Clients |-> "gone"]
          /\ fdOf' = [c \in Clients |-> NoFd]
          /\ inbox' = [c \in Clients |-> <<>>]
      BY <1>10 DEF Sigpipe, EndProcess
    <2>3. backlog' \in Seq(Clients) /\ inbox' \in [Clients -> Seq(Messages)]
      BY <2>2
    <2> QED
      BY <2>1, <2>2, <2>3 DEF ClientStates, MainStates
  <1>11. CASE RecvBody(w)
    <2>1. PICK c \in Clients, rest \in Seq(Messages) : inbox' = [inbox EXCEPT ![c] = rest]
      <3>1. Peer(w) \in Clients /\ inbox[Peer(w)] # <<>>
        BY <1>11, <1>b DEF RecvBody, CanRecv
      <3>2. Tail(inbox[Peer(w)]) \in Seq(Messages) /\ <<"tail">> \in Seq(Messages)
        BY <3>1 DEF Messages
      <3> QED
        BY <1>11, <3>1, <3>2 DEF RecvBody
    <2> QED
      BY <1>11, <2>1 DEF RecvBody
  <1>12. CASE PeerGone(w)
    BY <1>12 DEF PeerGone
  <1>13. CASE ClearWorkFlag(w)
    <2>1. table' \in [Slots -> [fd : Fds \cup {NoFd}, work_flag : BOOLEAN]]
      <3>1. task[w].fd \in Fds
        BY <1>13 DEF ClearWorkFlag, Task
      <3> QED
        BY <1>13, <3>1, TableType DEF ClearWorkFlag, Entry
    <2>2. task' \in [Workers -> Task \cup {NoTask}] /\ wpc' \in [Workers -> WorkerStates]
      BY <1>13 DEF ClearWorkFlag
    <2> QED
      BY <1>13, <2>1, <2>2 DEF ClearWorkFlag
  <1> QED
    BY <1>1, <1>2, <1>3, <1>4, <1>5, <1>6, <1>7, <1>8, <1>9, <1>10, <1>11, <1>12, <1>13
       DEF WorkerStep

LEMMA MainType ==
    ASSUME TypeInv, MainStep \/ Sigint
    PROVE  TypeInv'
  <1> USE ServerConstants DEF TypeInv, TypeOK, ServedOK, MainStates, clientVars, kernelVars, workerVars
  <1>1. CASE EpollWait
    <2>1. Ready \subseteq Fds \cup {SocketFd, ExitFd}
      BY DEF Ready, Connected
    <2> QED
      BY <1>1, <2>1 DEF EpollWait
  <1>2. CASE Accept
    <2>1. Head(backlog) \in Clients /\ Tail(backlog) \in Seq(Clients)
      BY <1>2 DEF Accept
    <2>2. PICK f \in Fds : fdOf' = [fdOf EXCEPT ![Head(backlog)] = f]
      BY <1>2 DEF Accept, FreeFds
    <2> QED
      BY <1>2, <2>1, <2>2 DEF Accept
  <1>3. CASE AcceptFails
    BY <1>3 DEF AcceptFails
  <1>4. CASE RecvFirst
    <2>1. cur \in Clients /\ fdOf[cur] \in Fds /\ inbox[cur] # <<>>
      BY <1>4 DEF RecvFirst, RecvInto, CanRecv
    <2>2. Head(inbox[cur]) \in Messages /\ Tail(inbox[cur]) \in Seq(Messages)
      BY <2>1
    <2>3. /\ inbox' \in [Clients -> Seq(Messages)]
          /\ msg' \in Messages /\ mpc' = "insert"
      BY <1>4, <2>1, <2>2 DEF RecvFirst, RecvInto
    <2>4. table' \in [Slots -> [fd : Fds \cup {NoFd}, work_flag : BOOLEAN]]
      BY <1>4, <2>1, TableType DEF RecvFirst, Entry
    <2> QED
      BY <1>4, <2>1, <2>3, <2>4 DEF RecvFirst
  <1>5. CASE FirstEof
    BY <1>5 DEF FirstEof, CloseFd, NextEvent
  <1>6. CASE SkipBusy
    BY <1>6 DEF SkipBusy
  <1>7. CASE ServeClient
    BY <1>7 DEF ServeClient
  <1>8. CASE RecvCommand
    <2>1. cur \in Clients /\ fdOf[cur] \in Fds /\ inbox[cur] # <<>>
      BY <1>8 DEF RecvCommand, RecvInto, CanRecv
    <2>2. Head(inbox[cur]) \in Messages /\ Tail(inbox[cur]) \in Seq(Messages)
      BY <2>1
    <2>3. /\ inbox' \in [Clients -> Seq(Messages)]
          /\ msg' \in Messages /\ mpc' = "insert"
      BY <1>8, <2>1, <2>2 DEF RecvCommand, RecvInto
    <2>4. table' \in [Slots -> [fd : Fds \cup {NoFd}, work_flag : BOOLEAN]]
      BY <1>8, <2>1, TableType DEF RecvCommand, Entry
    <2> QED
      BY <1>8, <2>1, <2>3, <2>4 DEF RecvCommand
  <1>9. CASE Disconnect
    <2>1. table' \in [Slots -> [fd : Fds \cup {NoFd}, work_flag : BOOLEAN]]
      BY <1>9, TableType DEF Disconnect, Entry
    <2> QED
      BY <1>9, <2>1 DEF Disconnect, CloseFd, NextEvent
  <1>10. CASE GiveChildTask
    <2> DEFINE node == [fd |-> fdOf[cur], order |-> msg, client |-> cur]
    <2>1. node \in Task /\ KindOf(msg) \in Kinds
      BY <1>10 DEF GiveChildTask, Task, KindOf, Kinds
    <2>2. \/ queue' = queue
          \/ queue' = [queue EXCEPT ![KindOf(msg)] = Append(@, node)]
      BY <1>10 DEF GiveChildTask, QueueInsert
    <2>3. queue' \in [Kinds -> Seq(Task \cup {ExitTask})]
      <3>1. Append(queue[KindOf(msg)], node) \in Seq(Task \cup {ExitTask})
        BY <2>1
      <3> QED
        BY <2>1, <2>2, <3>1
    <2> QED
      BY <1>10, <2>3 DEF GiveChildTask
  <1>11. CASE SignalWorker
    <2>1. /\ wpc' \in [Workers -> WorkerStates]
          /\ \A w \in Workers : wpc'[w] \in IdleStates <=> wpc[w] \in IdleStates
      BY <1>11 DEF SignalWorker, CondSignal, Waiting, WorkerStates, IdleStates
    <2> QED
      BY <1>11, <2>1 DEF SignalWorker, NextEvent
  <1>12. CASE BeginExit
    <2>1. cst' \in [Clients -> ClientStates]
      BY <1>12 DEF BeginExit, ClientStates
    <2>2. inbox' \in [Clients -> Seq(Messages)] /\ backlog' \in Seq(Clients)
      BY <1>12 DEF BeginExit
    <2> QED
      BY <1>12, <2>1, <2>2 DEF BeginExit
  <1>13. ASSUME NEW k \in Kinds, NEW from, NEW next \in MainStates \ {"first", "recv", "insert", "signal"},
                InsertExit(k, from, next)
         PROVE  TypeInv'
    <2>1. queue' \in [Kinds -> Seq(Task \cup {ExitTask})]
      <3>1. <<ExitTask>> \o queue[k] \in Seq(Task \cup {ExitTask})
        OBVIOUS
      <3> QED
        BY <1>13, <3>1 DEF InsertExit
    <2> QED
      BY <1>13, <2>1 DEF InsertExit
  <1>14. ASSUME NEW k \in Kinds, NEW from, NEW next \in MainStates \ {"first", "recv", "insert", "signal"},
                BroadcastExit(k, from, next)
         PROVE  TypeInv'
    <2>1. /\ wpc' \in [Workers -> WorkerStates]
          /\ \A w \in Workers : wpc'[w] \in IdleStates <=> wpc[w] \in IdleStates
      BY <1>14 DEF BroadcastExit, CondBroadcast, Waiting, WorkerStates, IdleStates
    <2> QED
      BY <1>14, <2>1 DEF BroadcastExit
  <1>15. CASE ExitQueues
    BY <1>13, <1>14, <1>15 DEF ExitQueues, Kinds
  <1>16. CASE Finish
    <2>1. UNCHANGED <<sent, table, wpc, task>>
      BY <1>16 DEF Finish, workerVars
    <2>2. /\ mpc' = "done" /\ ev' = {} /\ cur' = NoClient /\ msg' = "none"
          /\ backlog' = <<>> /\ exitByte' = FALSE
          /\ cst' = [c \in Clients |-> "gone"]
          /\ fdOf' = [c \in Clients |-> NoFd]
          /\ inbox' = [c \in Clients |-> <<>>]
          /\ queue' = [k \in Kinds |-> <<>>]
      BY <1>16 DEF Finish, EndProcess
    <2>3. /\ backlog' \in Seq(Clients) /\ inbox' \in [Clients -> Seq(Messages)]
          /\ queue' \in [Kinds -> Seq(Task \cup {ExitTask})]
      BY <2>2
    <2> QED
      BY <2>1, <2>2, <2>3 DEF ClientStates
  <1>17. CASE Sigint
    BY <1>17 DEF Sigint, mainVars
  <1> QED
    BY <1>1, <1>2, <1>3, <1>4, <1>5, <1>6, <1>7, <1>8, <1>9, <1>10, <1>11, <1>12, <1>15, <1>16, <1>17
       DEF MainStep

LEMMA NextTypeInv == TypeInv /\ [Next]_vars => TypeInv'
  <1> SUFFICES ASSUME TypeInv, [Next]_vars PROVE TypeInv'
    OBVIOUS
  <1>1. CASE Next
    BY <1>1, UserType, WorkerType, MainType DEF Next
  <1>2. CASE UNCHANGED vars
    BY <1>2 DEF vars, clientVars, kernelVars, workerVars, mainVars, TypeInv, TypeOK, ServedOK
  <1> QED
    BY <1>1, <1>2

\* Every variable keeps its type, with any number of clients, threads and
\* slots: in particular main never forms a task from a closed descriptor.
THEOREM TypeCorrect == Spec => []TypeOK
  <1>1. TypeInv => TypeOK
    BY DEF TypeInv
  <1> QED
    BY InitTypeInv, NextTypeInv, <1>1, PTL DEF Spec

----------------------------------------------------------------------------
(* The inductive invariant *)

\* A connection waiting for accept is nobody's twice and has no descriptor,
\* and no two open connections share one.
SocketsOK ==
    /\ \A i, j \in 1 .. Len(backlog) : backlog[i] = backlog[j] => i = j
    /\ \A i \in 1 .. Len(backlog) : ~Connected(backlog[i])
    /\ \A c, d \in Clients : Connected(c) /\ fdOf[c] = fdOf[d] => c = d

\* The i-th node of queue k is a task of descriptor f.
TaskAt(k, i, f) == i \in 1 .. Len(queue[k]) /\ queue[k][i].fd = f
InQueue(f)      == \E k \in Kinds : \E i \in Nat : TaskAt(k, i, f)
Held(f)         == \E w \in Workers : task[w].fd = f
Busy(f)         == \E s \in Slots : table[s].fd = f /\ table[s].work_flag

\* OneTaskPerConnection without the sets of positions and of workers.
OneTask ==
    \A f \in Fds :
        /\ \A k, l \in Kinds : \A i, j \in Nat :
              TaskAt(k, i, f) /\ TaskAt(l, j, f) => k = l /\ i = j
        /\ \A v, w \in Workers : task[v].fd = f /\ task[w].fd = f => v = w
        /\ ~(InQueue(f) /\ Held(f))
        /\ MainHolds(f) => ~InQueue(f) /\ ~Held(f)

\* Whatever main or a worker does for a connection, its work_flag is set; main
\* receives a command only from a connection whose work_flag is not set.
TaskMeansFlag ==
    Running =>
        /\ \A f \in Fds : MainHolds(f) \/ InQueue(f) \/ Held(f) => Busy(f)
        /\ mpc = "recv" => ~Busy(fdOf[cur])

DispatchOK == TaskKeepsItsClient /\ SlotPerConnection /\ OneTask /\ TaskMeansFlag

IInv == TypeInv /\ SocketsOK /\ DispatchOK

LEMMA OneTaskSuffices == OneTask => OneTaskPerConnection
  <1> SUFFICES ASSUME OneTask, NEW f \in Fds
               PROVE  /\ \A p, q \in QueuedAt(f) : p = q
                      /\ \A v, w \in HeldBy(f) : v = w
                      /\ HeldBy(f) = {} \/ QueuedAt(f) = {}
                      /\ MainHolds(f) => HeldBy(f) = {} /\ QueuedAt(f) = {}
    BY DEF OneTaskPerConnection
  <1>1. ASSUME NEW p \in QueuedAt(f)
        PROVE  \E k \in Kinds : \E i \in Nat : p = <<k, i>> /\ TaskAt(k, i, f)
    <2>1. PICK k \in Kinds : p \in {k} \X (1 .. Len(queue[k]))
      BY DEF QueuedAt
    <2>2. PICK i \in 1 .. Len(queue[k]) : p = <<k, i>>
      BY <2>1
    <2>3. queue[k][i].fd = f
      BY <2>2 DEF QueuedAt
    <2> QED
      BY <2>2, <2>3 DEF TaskAt
  <1>2. \A p, q \in QueuedAt(f) : p = q
    BY <1>1 DEF OneTask
  <1>3. QueuedAt(f) # {} => InQueue(f)
    BY <1>1 DEF InQueue
  <1>4. HeldBy(f) # {} => Held(f)
    BY DEF Held, HeldBy
  <1>5. \A v, w \in HeldBy(f) : v = w
    BY DEF OneTask, HeldBy
  <1> QED
    BY <1>2, <1>3, <1>4, <1>5 DEF OneTask

----------------------------------------------------------------------------
(* Facts about the table and the queues *)

\* The descriptor of a queued or held task is an open connection's.
LEMMA TaskFd ==
    ASSUME TypeInv
    PROVE  /\ \A k \in Kinds, i \in Nat, f \in Fds :
                 TaskAt(k, i, f) => /\ queue[k][i] \in Task
                                    /\ queue[k][i] # ExitTask
                                    /\ queue[k][i].client \in Clients
           /\ \A w \in Workers, f \in Fds :
                 task[w].fd = f => /\ task[w] \in Task
                                   /\ task[w].client \in Clients
           /\ ExitTask.fd \notin Fds /\ NoTask.fd \notin Fds
           /\ ExitTask \notin Task /\ NoTask \notin Task
  <1> USE ServerConstants DEF TypeInv, TypeOK
  <1>1. /\ ExitTask.fd \notin Fds /\ NoTask.fd \notin Fds
        /\ ExitTask \notin Task /\ NoTask \notin Task
    BY DEF ExitTask, NoTask, Task
  <1>2. ASSUME NEW k \in Kinds, NEW i \in Nat, NEW f \in Fds, TaskAt(k, i, f)
        PROVE  /\ queue[k][i] \in Task
               /\ queue[k][i] # ExitTask
               /\ queue[k][i].client \in Clients
    <2>1. queue[k][i] \in Task \cup {ExitTask}
      BY <1>2 DEF TaskAt
    <2>2. queue[k][i] # ExitTask
      BY <1>1, <1>2 DEF TaskAt
    <2> QED
      BY <2>1, <2>2 DEF Task
  <1>3. ASSUME NEW w \in Workers, NEW f \in Fds, task[w].fd = f
        PROVE  task[w] \in Task /\ task[w].client \in Clients
    <2>1. task[w] \in Task
      BY <1>1, <1>3
    <2> QED
      BY <2>1 DEF Task
  <1> QED
    BY <1>1, <1>2, <1>3

\* With one slot per connection the first slot the loops find is the only one.
LEMMA SlotUnique ==
    ASSUME TypeInv, SlotPerConnection, Running, NEW f \in Fds
    PROVE  /\ \A s \in Slots : IsSlotOf(s, f) <=> table[s].fd = f
           /\ IsClientWork(f) <=> Busy(f)
           /\ Busy(f) => InTable(f)
  <1>1. \A s \in Slots : IsSlotOf(s, f) <=> table[s].fd = f
    <2>1. f # NoFd
      BY ServerConstants
    <2>2. \A s, t \in Slots : table[s].fd = f /\ table[t].fd = f => s = t
      BY <2>1 DEF SlotPerConnection
    <2>3. \A s, t \in Slots : t < s => t # s
      BY DEF Slots
    <2> QED
      BY <2>2, <2>3 DEF IsSlotOf
  <1> QED
    BY <1>1 DEF IsClientWork, Busy, InTable

\* A connection that work_flag does not protect has no task in the server.
LEMMA NotBusy ==
    ASSUME TaskMeansFlag, Running, NEW f \in Fds, ~Busy(f)
    PROVE  ~InQueue(f) /\ ~Held(f) /\ ~MainHolds(f)
  BY DEF TaskMeansFlag

\* The tasks of an open connection are its client's own.
LEMMA TaskOfClient ==
    ASSUME TypeInv, TaskKeepsItsClient, SocketsOK, Running,
           NEW c \in Clients, Connected(c), ~InQueue(fdOf[c]), ~Held(fdOf[c])
    PROVE  /\ \A k \in Kinds : \A i \in 1 .. Len(queue[k]) :
                 queue[k][i] # ExitTask => queue[k][i].client # c
           /\ \A w \in Workers : task[w] # NoTask => task[w].client # c
  <1>1. ASSUME NEW k \in Kinds, NEW i \in 1 .. Len(queue[k]), queue[k][i] # ExitTask,
               queue[k][i].client = c
        PROVE  FALSE
    <2>1. queue[k][i].fd = fdOf[c]
      BY <1>1 DEF TaskKeepsItsClient
    <2>2. TaskAt(k, i, fdOf[c])
      BY <2>1 DEF TaskAt
    <2>3. i \in Nat
      OBVIOUS
    <2> QED
      BY <2>2, <2>3 DEF InQueue
  <1>2. ASSUME NEW w \in Workers, task[w] # NoTask, task[w].client = c
        PROVE  FALSE
    BY <1>2 DEF TaskKeepsItsClient, Held
  <1> QED
    BY <1>1, <1>2

----------------------------------------------------------------------------
(* Steps that leave descriptors, table, queues and tasks alone *)

LEMMA FrameDispatch ==
    ASSUME DispatchOK, UNCHANGED <<fdOf, table, queue, task>>,
           \/ mpc' = mpc /\ cur' = cur
           \/ /\ mpc # "first" /\ mpc' \notin {"first", "recv", "insert"}
              /\ Running' => Running
    PROVE  DispatchOK'
  <1> USE DEF Running, DispatchOK
  <1>1. /\ \A f : InQueue(f)' = InQueue(f) /\ Held(f)' = Held(f) /\ Busy(f)' = Busy(f)
        /\ \A k, i, f : TaskAt(k, i, f)' = TaskAt(k, i, f)
    BY DEF InQueue, Held, Busy, TaskAt
  <1>2. \A f : MainHolds(f)' => MainHolds(f)
    BY DEF MainHolds
  <1>3. OneTask'
    BY <1>1, <1>2 DEF OneTask
  <1>4. TaskKeepsItsClient'
    BY DEF TaskKeepsItsClient
  <1>5. SlotPerConnection'
    BY DEF SlotPerConnection, InTable
  <1>6. TaskMeansFlag'
    BY <1>1, <1>2 DEF TaskMeansFlag
  <1> QED
    BY <1>3, <1>4, <1>5, <1>6

\* The end of the process leaves no connection to protect.
LEMMA EndDispatch ==
    ASSUME DispatchOK, NEW how \in {"done", "killed"}, EndProcess(how), UNCHANGED task,
           queue' = queue \/ queue' = [k \in Kinds |-> <<>>]
    PROVE  DispatchOK'
  <1>1. ~Running' /\ \A f : ~MainHolds(f)'
    BY DEF EndProcess, Running, MainHolds
  <1>2. OneTask'
    <2>1. \A f : Held(f)' = Held(f)
      BY DEF Held
    <2>2. \A k \in Kinds : \A i, f : TaskAt(k, i, f)' => TaskAt(k, i, f)
      <3>1. CASE queue' = queue
        BY <3>1 DEF TaskAt
      <3>2. CASE queue' = [k \in Kinds |-> <<>>]
        BY <3>2 DEF TaskAt
      <3> QED
        BY <3>1, <3>2
    <2>3. \A f : InQueue(f)' => InQueue(f)
      BY <2>2 DEF InQueue
    <2> QED
      BY <1>1, <2>1, <2>2, <2>3 DEF OneTask, DispatchOK
  <1> QED
    BY <1>1, <1>2 DEF DispatchOK, TaskKeepsItsClient, SlotPerConnection, TaskMeansFlag

----------------------------------------------------------------------------
(* The sockets *)

LEMMA NextSockets ==
    ASSUME TypeInv, SocketsOK, Next
    PROVE  SocketsOK'
  <1> USE DEF TypeInv, TypeOK, SocketsOK
  <1>1. CASE UNCHANGED <<backlog, fdOf>>
    BY <1>1 DEF Connected
  <1>2. ASSUME NEW c \in Clients, Connect(c) PROVE SocketsOK'
    <2>1. /\ backlog' = Append(backlog, c) /\ fdOf' = fdOf /\ ~Connected(c)
          /\ \A i \in 1 .. Len(backlog) : backlog[i] # c
      BY <1>2 DEF Connect, Queued
    <2>2. Len(backlog') = Len(backlog) + 1
      BY <2>1
    <2>3. \A i \in 1 .. Len(backlog') :
             backlog'[i] = IF i = Len(backlog) + 1 THEN c ELSE backlog[i]
      BY <2>1
    <2>4. \A i \in 1 .. Len(backlog') : i = Len(backlog) + 1 \/ i \in 1 .. Len(backlog)
      BY <2>2
    <2> QED
      BY <2>1, <2>3, <2>4 DEF Connected
  <1>3. CASE Accept
    <2> DEFINE h == Head(backlog)
    <2>1. PICK f \in FreeFds : fdOf' = [fdOf EXCEPT ![h] = f]
      BY <1>3 DEF Accept
    <2>2. backlog' = Tail(backlog) /\ h \in Clients /\ h = backlog[1] /\ 1 \in 1 .. Len(backlog)
      BY <1>3 DEF Accept
    <2>3. \A i \in 1 .. Len(backlog') : i + 1 \in 1 .. Len(backlog) /\ backlog'[i] = backlog[i + 1]
      BY <2>2
    <2>4. f \in Fds /\ \A c \in Clients : fdOf[c] # f
      BY DEF FreeFds
    <2>5. \A i \in 1 .. Len(backlog') : backlog'[i] # h
      BY <2>2, <2>3
    <2>6. \A i \in 1 .. Len(backlog') : fdOf'[backlog'[i]] = NoFd
      <3> TAKE i \in 1 .. Len(backlog')
      <3>1. PICK j \in 1 .. Len(backlog) : backlog'[i] = backlog[j] /\ j = i + 1
        BY <2>3
      <3>2. backlog[j] \in Clients /\ fdOf[backlog[j]] = NoFd
        BY DEF Connected
      <3> QED
        BY <3>1, <3>2, <2>1, <2>5
    <2>7. \A c, d \in Clients : fdOf'[c] # NoFd /\ fdOf'[c] = fdOf'[d] => c = d
      BY <2>1, <2>2, <2>4 DEF Connected
    <2>8. \A i, j \in 1 .. Len(backlog') : backlog'[i] = backlog'[j] => i = j
      <3> TAKE i, j \in 1 .. Len(backlog')
      <3>1. i + 1 \in 1 .. Len(backlog) /\ backlog'[i] = backlog[i + 1]
        BY <2>3
      <3>2. j + 1 \in 1 .. Len(backlog) /\ backlog'[j] = backlog[j + 1]
        BY <2>3
      <3>3. backlog'[i] = backlog'[j] => i + 1 = j + 1
        BY <3>1, <3>2
      <3> QED
        BY <3>3
    <2> QED
      BY <2>6, <2>7, <2>8 DEF Connected
  <1>4. CASE backlog' = backlog /\ \E c \in Clients : CloseFd(c)
    <2>1. PICK c \in Clients : fdOf' = [fdOf EXCEPT ![c] = NoFd]
      BY <1>4 DEF CloseFd
    <2>2. \A d \in Clients : fdOf'[d] = fdOf[d] \/ fdOf'[d] = NoFd
      BY <2>1
    <2>3. \A i \in 1 .. Len(backlog) : backlog[i] \in Clients
      OBVIOUS
    <2> QED
      BY <1>4, <2>2, <2>3 DEF Connected
  <1>5. CASE BeginExit
    BY <1>5 DEF BeginExit, Connected
  <1>6. ASSUME NEW how, EndProcess(how) PROVE SocketsOK'
    BY <1>6 DEF EndProcess, Connected
  <1>7. CASE FirstEof \/ Disconnect
    <2>1. cur \in Clients
      BY <1>7 DEF FirstEof, Disconnect, ServedOK
    <2> QED
      BY <1>4, <1>7, <2>1 DEF FirstEof, Disconnect
  <1> USE DEF clientVars, kernelVars, workerVars, mainVars
  <1>8. ASSUME NEW c \in Clients, UserStep(c) \/ Transfer(c) PROVE SocketsOK'
    BY <1>1, <1>2, <1>8 DEF UserStep, Transfer, Login, Command, Leave, AskDownload, OfferUpload, Upload
  <1>9. ASSUME NEW w \in Workers, WorkerStep(w) \/ SpuriousWake(w) PROVE SocketsOK'
    BY <1>1, <1>6, <1>9 DEF WorkerStep, SpuriousWake, CondWait, PopTask, PopNull, Reply, SendHeader,
       RecvSize, SendBody, SendBodyFails, Sigpipe, RecvBody, PeerGone, ClearWorkFlag
  <1>10. CASE MainStep \/ Sigint
    BY <1>1, <1>3, <1>5, <1>6, <1>7, <1>10 DEF MainStep, Sigint, EpollWait, AcceptFails, RecvFirst,
       SkipBusy, ServeClient, RecvCommand, GiveChildTask, SignalWorker, ExitQueues, InsertExit,
       BroadcastExit, Finish
  <1> QED
    BY <1>8, <1>9, <1>10 DEF Next

----------------------------------------------------------------------------
(* main opens and closes connections *)

\* The new descriptor is in no task, because tasks keep theirs open.
LEMMA AcceptDispatch ==
    ASSUME IInv, Accept
    PROVE  DispatchOK'
  <1> USE DEF IInv, DispatchOK, TypeInv, TypeOK
  <1> DEFINE h == Head(backlog)
  <1>1. PICK f \in FreeFds : fdOf' = [fdOf EXCEPT ![h] = f]
    BY DEF Accept
  <1>2. /\ Running /\ Running' /\ mpc # "first" /\ mpc' = "first" /\ cur' = h
        /\ UNCHANGED <<table, queue, task>>
    BY DEF Accept, Running, workerVars
  <1>3. h \in Clients /\ fdOf[h] = NoFd
    BY DEF Accept, SocketsOK, Connected
  <1>4. f \in Fds /\ \A c \in Clients : fdOf[c] # f
    BY DEF FreeFds
  <1>5. TaskKeepsItsClient'
    <2>1. ASSUME NEW k \in Kinds, NEW i \in 1 .. Len(queue[k]), queue[k][i] # ExitTask
          PROVE  fdOf'[queue[k][i].client] = queue[k][i].fd
      <3>1. queue[k][i] \in Task
        BY <2>1
      <3>2. queue[k][i].client \in Clients /\ queue[k][i].fd \in Fds
        BY <3>1 DEF Task
      <3>3. fdOf[queue[k][i].client] = queue[k][i].fd
        BY <1>2, <2>1 DEF TaskKeepsItsClient
      <3>4. queue[k][i].client # h
        BY <1>3, <3>2, <3>3, ServerConstants
      <3> QED
        BY <1>1, <3>2, <3>3, <3>4
    <2>2. ASSUME NEW w \in Workers, task[w] # NoTask
          PROVE  fdOf'[task[w].client] = task[w].fd
      <3>1. task[w] \in Task
        BY <2>2
      <3>2. task[w].client \in Clients /\ task[w].fd \in Fds
        BY <3>1 DEF Task
      <3>3. fdOf[task[w].client] = task[w].fd
        BY <1>2, <2>2 DEF TaskKeepsItsClient
      <3>4. task[w].client # h
        BY <1>3, <3>2, <3>3, ServerConstants
      <3> QED
        BY <1>1, <3>2, <3>3, <3>4
    <2> QED
      BY <1>2, <2>1, <2>2 DEF TaskKeepsItsClient
  <1>6. SlotPerConnection'
    <2>1. ASSUME NEW g \in Fds
          PROVE  InTable(g) <=> \E c \in Clients : fdOf'[c] = g /\ ~(cur' = c)
      <3>1. InTable(g) <=> \E c \in Clients : fdOf[c] = g
        BY <1>2 DEF SlotPerConnection
      <3>2. \A c \in Clients : c # h => fdOf'[c] = fdOf[c]
        BY <1>1
      <3>3. \A c \in Clients : fdOf[c] = g => c # h
        BY <1>3, ServerConstants
      <3> QED
        BY <1>2, <3>1, <3>2, <3>3
    <2> QED
      BY <1>2, <2>1 DEF SlotPerConnection, InTable
  <1>7. /\ \A g : InQueue(g)' = InQueue(g) /\ Held(g)' = Held(g) /\ Busy(g)' = Busy(g)
        /\ \A k, i, g : TaskAt(k, i, g)' = TaskAt(k, i, g)
        /\ \A g : ~MainHolds(g)'
    BY <1>2 DEF InQueue, Held, Busy, TaskAt, MainHolds
  <1> QED
    BY <1>2, <1>5, <1>6, <1>7 DEF OneTask, TaskMeansFlag

\* A connection without tasks can be closed, once it is out of the table.
LEMMA CloseDispatch ==
    ASSUME IInv, NEW c \in Clients, Connected(c), Running, Running',
           ~Busy(fdOf[c]), CloseFd(c), UNCHANGED <<queue, task>>,
           mpc' \notin {"first", "recv", "insert"},
           mpc = "first" => cur = c,
           /\ \A s \in Slots : table'[s] = table[s] \/ table'[s] = [fd |-> NoFd, work_flag |-> FALSE]
           /\ \A s \in Slots : table[s].fd # fdOf[c] => table'[s] = table[s]
           /\ \A s \in Slots : table'[s].fd # fdOf[c]
    PROVE  DispatchOK'
  <1> USE DEF IInv, DispatchOK
  <1> DEFINE f == fdOf[c]
  <1>1. f \in Fds /\ fdOf' = [fdOf EXCEPT ![c] = NoFd] /\ f # NoFd
    BY DEF TypeInv, TypeOK, CloseFd, Connected
  <1>2. ~InQueue(f) /\ ~Held(f)
    BY <1>1, NotBusy
  <1>3. /\ \A g : InQueue(g)' = InQueue(g) /\ Held(g)' = Held(g)
        /\ \A k, i, g : TaskAt(k, i, g)' = TaskAt(k, i, g)
        /\ \A g : ~MainHolds(g)'
    BY DEF InQueue, Held, TaskAt, MainHolds
  <1>4. ASSUME NEW g \in Fds, g # f PROVE Busy(g) => Busy(g)'
    BY <1>4 DEF Busy
  <1>5. TaskMeansFlag'
    <2>1. ASSUME NEW g \in Fds, InQueue(g) \/ Held(g) PROVE Busy(g)'
      <3>1. g # f
        BY <1>2, <2>1
      <3> QED
        BY <1>4, <2>1, <3>1 DEF TaskMeansFlag
    <2> QED
      BY <1>3, <2>1 DEF TaskMeansFlag
  <1>6. OneTask'
    BY <1>3 DEF OneTask
  <1>7. TaskKeepsItsClient'
    <2>1. \A d \in Clients : d # c => fdOf'[d] = fdOf[d]
      BY <1>1 DEF TypeInv, TypeOK
    <2>2. ASSUME NEW k \in Kinds, NEW i \in 1 .. Len(queue[k]), queue[k][i] # ExitTask
          PROVE  fdOf'[queue[k][i].client] = queue[k][i].fd
      <3>1. queue[k][i] \in Task
        BY <2>2 DEF TypeInv, TypeOK
      <3>2. queue[k][i].client \in Clients \ {c}
        BY <1>2, <2>2, <3>1, TaskOfClient DEF Task
      <3> QED
        BY <2>1, <2>2, <3>2 DEF TaskKeepsItsClient
    <2>3. ASSUME NEW w \in Workers, task[w] # NoTask
          PROVE  fdOf'[task[w].client] = task[w].fd
      <3>1. task[w] \in Task
        BY <2>3 DEF TypeInv, TypeOK
      <3>2. task[w].client \in Clients \ {c}
        BY <1>2, <2>3, <3>1, TaskOfClient DEF Task
      <3> QED
        BY <2>1, <2>3, <3>2 DEF TaskKeepsItsClient
    <2> QED
      BY <2>2, <2>3 DEF TaskKeepsItsClient
  <1>8. SlotPerConnection'
    <2>1. \A s, t \in Slots : table'[s].fd = table'[t].fd => s = t \/ table'[s].fd = NoFd
      <3> TAKE s, t \in Slots
      <3>1. table'[s].fd = NoFd \/ table'[s] = table[s]
        OBVIOUS
      <3>2. table'[t].fd = NoFd \/ table'[t] = table[t]
        OBVIOUS
      <3> QED
        BY <3>1, <3>2 DEF SlotPerConnection
    <2>2. ASSUME NEW g \in Fds
          PROVE  (\E s \in Slots : table'[s].fd = g) <=> \E d \in Clients : fdOf'[d] = g
      <3>1. CASE g = f
        <4>1. \A d \in Clients : fdOf'[d] # f
          BY <1>1 DEF SocketsOK, Connected, TypeInv, TypeOK
        <4> QED
          BY <3>1, <4>1
      <3>2. CASE g # f
        <4>1. (\E s \in Slots : table'[s].fd = g) <=> \E s \in Slots : table[s].fd = g
          <5>1. g # NoFd
            BY ServerConstants
          <5> QED
            BY <3>2, <5>1
        <4>2. (\E d \in Clients : fdOf'[d] = g) <=> \E d \in Clients : fdOf[d] = g
          BY <1>1, <3>2, ServerConstants DEF TypeInv, TypeOK
        <4>3. (\E s \in Slots : table[s].fd = g)
                 <=> \E d \in Clients : fdOf[d] = g /\ ~(mpc = "first" /\ cur = d)
          BY DEF SlotPerConnection, InTable
        <4>4. \A d \in Clients : fdOf[d] = g => ~(mpc = "first" /\ cur = d)
          BY <3>2
        <4> QED
          BY <4>1, <4>2, <4>3, <4>4
      <3> QED
        BY <3>1, <3>2
    <2> QED
      BY <2>1, <2>2 DEF SlotPerConnection, InTable
  <1> QED
    BY <1>5, <1>6, <1>7, <1>8

LEMMA FirstEofDispatch ==
    ASSUME IInv, FirstEof
    PROVE  DispatchOK'
  <1> DEFINE f == fdOf[cur]
  <1>1. /\ cur \in Clients /\ f \in Fds /\ Connected(cur)
        /\ Running /\ Running' /\ mpc = "first" /\ mpc' = "events" /\ CloseFd(cur)
        /\ UNCHANGED <<table, queue, task>>
    BY ServerConstants DEF IInv, TypeInv, ServedOK, FirstEof, NextEvent, Running, workerVars, Connected
  <1>2. ~InTable(f)
    BY <1>1 DEF IInv, DispatchOK, SlotPerConnection, SocketsOK
  <1>3. ~Busy(f) /\ \A s \in Slots : table[s].fd # f
    BY <1>2 DEF Busy, InTable
  <1> QED
    BY <1>1, <1>3, CloseDispatch

LEMMA DisconnectDispatch ==
    ASSUME IInv, Disconnect
    PROVE  DispatchOK'
  <1> DEFINE f == fdOf[cur]
  <1>1. /\ cur \in Clients /\ f \in Fds /\ f # NoFd /\ Connected(cur)
        /\ Running /\ Running' /\ mpc = "recv" /\ mpc' = "events" /\ CloseFd(cur)
        /\ ForgetClient(f) /\ UNCHANGED <<queue, task>>
    BY ServerConstants DEF IInv, TypeInv, ServedOK, Disconnect, NextEvent, Running, workerVars, Connected
  <1>2. ~Busy(f)
    BY <1>1 DEF IInv, DispatchOK, TaskMeansFlag
  <1>3. InTable(f)
    BY <1>1 DEF IInv, DispatchOK, SlotPerConnection
  <1>4. PICK s \in Slots : /\ table[s].fd = f
                           /\ table' = [table EXCEPT ![s] = [fd |-> NoFd, work_flag |-> FALSE]]
    BY <1>1, <1>3 DEF ForgetClient, IsSlotOf
  <1>5. \A t \in Slots : t # s => table'[t] = table[t] /\ table[t].fd # f
    BY <1>1, <1>4 DEF IInv, DispatchOK, SlotPerConnection, TypeInv, TypeOK
  <1>6. table'[s] = [fd |-> NoFd, work_flag |-> FALSE]
    BY <1>4 DEF IInv, TypeInv, TypeOK
  <1> QED
    BY <1>1, <1>2, <1>4, <1>5, <1>6, CloseDispatch

----------------------------------------------------------------------------
(* main takes a command *)

\* With FdsFit a connection that has no slot finds a free one.
LEMMA FreeSlot ==
    ASSUME IInv, FdsFit, Running, NEW f \in Fds, ~InTable(f)
    PROVE  InTable(NoFd)
  <1> SUFFICES ASSUME \A s \in Slots : table[s].fd # NoFd
               PROVE  FALSE
    BY DEF InTable
  <1> DEFINE T == Fds \ {f}
             inj == [s \in Slots |-> table[s].fd]
  <1>1. inj \in [Slots -> T]
    BY DEF IInv, TypeInv, TypeOK, InTable
  <1>2. \A s, t \in Slots : inj[s] = inj[t] => s = t
    BY DEF IInv, DispatchOK, SlotPerConnection
  <1>3. IsFiniteSet(T) /\ Cardinality(T) = Cardinality(Fds) - 1
    BY FS_RemoveElement DEF FdsFit
  <1>4. IsFiniteSet(Slots) /\ Cardinality(Slots) = TcpCapacity
    BY FS_Interval, ServerConstants DEF Slots
  <1>5. Cardinality(Fds) \in Nat
    BY FS_CardinalityType DEF FdsFit
  <1>6. Cardinality(T) < Cardinality(Slots)
    BY <1>3, <1>4, <1>5, ServerConstants DEF FdsFit
  <1> HIDE DEF T, inj
  <1>7. \E s, t \in Slots : s # t /\ inj[s] = inj[t]
    BY <1>1, <1>3, <1>4, <1>6, FS_PigeonHole
  <1> QED
    BY <1>2, <1>7

\* main marks a connection that has no task, and holds the only one it gets.
LEMMA HoldDispatch ==
    ASSUME IInv, Running, NEW s \in Slots,
           cur \in Clients, fdOf[cur] \in Fds, ~Busy(fdOf[cur]),
           UNCHANGED <<fdOf, queue, task, cur>>, mpc' = "insert",
           \/ mpc = "first" /\ table[s].fd = NoFd
           \/ mpc = "recv" /\ table[s].fd = fdOf[cur],
           table'[s].fd = fdOf[cur] /\ table'[s].work_flag = TRUE,
           \A t \in Slots : t # s => table'[t] = table[t]
    PROVE  DispatchOK'
  <1> USE DEF IInv, DispatchOK
  <1> DEFINE f == fdOf[cur]
  <1>1. /\ table'[s].fd = f /\ table'[s].work_flag = TRUE /\ f # NoFd
        /\ \A t \in Slots : t # s => table'[t] = table[t]
    BY ServerConstants DEF TypeInv, TypeOK
  <1>2. Running' /\ ~InQueue(f) /\ ~Held(f)
    BY NotBusy DEF Running
  <1>3. /\ \A g : InQueue(g)' = InQueue(g) /\ Held(g)' = Held(g)
        /\ \A k, i, g : TaskAt(k, i, g)' = TaskAt(k, i, g)
        /\ \A g : MainHolds(g)' <=> g = f
    BY DEF InQueue, Held, TaskAt, MainHolds
  <1>4. TaskKeepsItsClient'
    BY <1>2 DEF TaskKeepsItsClient
  <1>5. OneTask'
    BY <1>2, <1>3 DEF OneTask
  <1>6. TaskMeansFlag'
    <2>1. Busy(f)'
      BY <1>1 DEF Busy
    <2>2. ASSUME NEW g \in Fds, g # f, Busy(g) PROVE Busy(g)'
      <3>1. PICK t \in Slots : table[t].fd = g /\ table[t].work_flag
        BY <2>2 DEF Busy
      <3>2. t # s
        BY <2>2, <3>1, ServerConstants
      <3> QED
        BY <1>1, <3>1, <3>2 DEF Busy
    <2> QED
      BY <1>3, <2>1, <2>2 DEF TaskMeansFlag
  <1>7. SlotPerConnection'
    <2>1. \A t \in Slots : t # s => table[t].fd # f
      <3>1. CASE mpc = "first"
        <4>1. ~InTable(f)
          BY <1>1, <3>1 DEF SlotPerConnection, SocketsOK, Connected
        <4> QED
          BY <4>1 DEF InTable
      <3>2. CASE mpc = "recv" /\ table[s].fd = f
        BY <1>1, <3>2 DEF SlotPerConnection
      <3> QED
        BY <3>1, <3>2
    <2>2. \A t, u \in Slots : table'[t].fd = table'[u].fd => t = u \/ table'[t].fd = NoFd
      BY <1>1, <2>1 DEF SlotPerConnection
    <2>3. ASSUME NEW g \in Fds
          PROVE  (\E t \in Slots : table'[t].fd = g) <=> \E c \in Clients : fdOf[c] = g
      <3>1. CASE g = f
        BY <1>1, <3>1
      <3>2. CASE g # f
        <4>1. table[s].fd # g
          BY <3>2, ServerConstants
        <4>2. (\E t \in Slots : table'[t].fd = g) <=> \E t \in Slots : table[t].fd = g
          BY <1>1, <3>2, <4>1
        <4>3. \A c \in Clients : fdOf[c] = g => c # cur
          BY <3>2
        <4> QED
          BY <4>2, <4>3 DEF SlotPerConnection, InTable
      <3> QED
        BY <3>1, <3>2
    <2> QED
      BY <2>2, <2>3 DEF SlotPerConnection, InTable
  <1> QED
    BY <1>4, <1>5, <1>6, <1>7

LEMMA RecvFirstDispatch ==
    ASSUME IInv, FdsFit, RecvFirst
    PROVE  DispatchOK'
  <1> DEFINE f == fdOf[cur]
  <1>1. /\ cur \in Clients /\ f \in Fds /\ Running /\ mpc = "first" /\ mpc' = "insert"
        /\ RecordClient(f) /\ UNCHANGED <<fdOf, queue, task, cur>>
    BY DEF IInv, TypeInv, ServedOK, RecvFirst, RecvInto, Running, workerVars
  <1>2. ~InTable(f)
    BY <1>1, ServerConstants DEF IInv, DispatchOK, SlotPerConnection, SocketsOK, Connected
  <1>3. PICK s \in Slots : /\ table[s].fd = NoFd
                           /\ table' = [table EXCEPT ![s] = [fd |-> f, work_flag |-> TRUE]]
    BY <1>1, <1>2, FreeSlot DEF RecordClient, IsSlotOf
  <1>4. ~Busy(f)
    BY <1>2 DEF Busy, InTable
  <1>5. /\ table'[s].fd = f /\ table'[s].work_flag = TRUE
        /\ \A t \in Slots : t # s => table'[t] = table[t]
    BY <1>3 DEF IInv, TypeInv, TypeOK
  <1> QED
    BY <1>1, <1>3, <1>4, <1>5, HoldDispatch

LEMMA RecvCommandDispatch ==
    ASSUME IInv, RecvCommand
    PROVE  DispatchOK'
  <1> DEFINE f == fdOf[cur]
  <1>1. /\ cur \in Clients /\ f \in Fds /\ Running /\ mpc = "recv" /\ mpc' = "insert"
        /\ SetWorkFlag(f, TRUE) /\ UNCHANGED <<fdOf, queue, task, cur>>
    BY DEF IInv, TypeInv, ServedOK, RecvCommand, RecvInto, Running, workerVars
  <1>2. InTable(f)
    BY <1>1 DEF IInv, DispatchOK, SlotPerConnection
  <1>3. PICK s \in Slots : /\ table[s].fd = f
                           /\ table' = [table EXCEPT ![s].work_flag = TRUE]
    BY <1>1, <1>2 DEF SetWorkFlag, IsSlotOf
  <1>4. /\ table'[s].fd = f /\ table'[s].work_flag = TRUE
        /\ \A t \in Slots : t # s => table'[t] = table[t]
    BY <1>3 DEF IInv, TypeInv, TypeOK
  <1>5. ~Busy(f)
    BY <1>1 DEF IInv, DispatchOK, TaskMeansFlag
  <1> QED
    BY <1>1, <1>3, <1>4, <1>5, HoldDispatch

\* main has seen that work_flag is not set, and only main sets it.
LEMMA ServeDispatch ==
    ASSUME IInv, ServeClient
    PROVE  DispatchOK'
  <1> USE DEF IInv, DispatchOK
  <1>1. PICK c \in Clients : fdOf[c] \in Fds /\ ~IsClientWork(fdOf[c]) /\ cur' = c
    BY DEF ServeClient
  <1>2. /\ Running /\ Running' /\ mpc = "events" /\ mpc' = "recv"
        /\ UNCHANGED <<fdOf, table, queue, task>>
    BY DEF ServeClient, Running, kernelVars, workerVars
  <1>3. ~Busy(fdOf[c])
    BY <1>1, <1>2, SlotUnique
  <1>4. /\ \A g : InQueue(g)' = InQueue(g) /\ Held(g)' = Held(g) /\ Busy(g)' = Busy(g)
        /\ \A k, i, g : TaskAt(k, i, g)' = TaskAt(k, i, g)
        /\ \A g : ~MainHolds(g)'
    BY <1>2 DEF InQueue, Held, Busy, TaskAt, MainHolds
  <1>5. fdOf'[cur'] = fdOf[c]
    BY <1>1, <1>2
  <1>6. TaskMeansFlag'
    BY <1>2, <1>3, <1>4, <1>5 DEF TaskMeansFlag
  <1>7. OneTask'
    BY <1>2, <1>4 DEF OneTask
  <1>8. TaskKeepsItsClient' /\ SlotPerConnection'
    BY <1>2 DEF TaskKeepsItsClient, SlotPerConnection, InTable
  <1> QED
    BY <1>6, <1>7, <1>8

----------------------------------------------------------------------------
(* A task moves from main to a queue, to a worker, and out of the server *)

\* main appends the one task of its connection, or drops it when the queue is full.
LEMMA GiveDispatch ==
    ASSUME IInv, GiveChildTask
    PROVE  DispatchOK'
  <1> USE DEF IInv, DispatchOK
  <1> DEFINE f == fdOf[cur]
             q == KindOf(msg)
             node == [fd |-> f, order |-> msg, client |-> cur]
  <1>1. /\ cur \in Clients /\ f \in Fds /\ q \in Kinds
        /\ Running /\ Running' /\ mpc = "insert" /\ mpc' = "signal"
        /\ UNCHANGED <<fdOf, table, task>>
    BY DEF TypeInv, ServedOK, GiveChildTask, Running, KindOf, Kinds, kernelVars, workerVars
  <1>2. CASE queue' = queue
    BY <1>1, <1>2, FrameDispatch
  <1>3. CASE queue' = [queue EXCEPT ![q] = Append(@, node)]
    <2> DEFINE n == Len(queue[q]) + 1
    <2>1. /\ n \in Nat /\ n \notin 1 .. Len(queue[q])
          /\ Len(queue'[q]) = n /\ queue'[q][n] = node
          /\ \A i \in 1 .. Len(queue[q]) : queue'[q][i] = queue[q][i]
          /\ 1 .. n = (1 .. Len(queue[q])) \cup {n}
      <3>1. queue[q] \in Seq(Task \cup {ExitTask}) /\ queue'[q] = Append(queue[q], node)
        BY <1>1, <1>3 DEF TypeInv, TypeOK
      <3> QED
        BY <3>1
    <2>2. \A k \in Kinds : k # q => queue'[k] = queue[k]
      BY <1>3 DEF TypeInv, TypeOK
    <2>3. \A k \in Kinds, i \in Nat, g \in Fds :
             TaskAt(k, i, g)' <=> TaskAt(k, i, g) \/ (k = q /\ i = n /\ g = f)
      <3> TAKE k \in Kinds, i \in Nat, g \in Fds
      <3>1. CASE k # q
        BY <2>2, <3>1 DEF TaskAt
      <3>2. CASE k = q /\ i = n
        BY <2>1, <3>2 DEF TaskAt
      <3>3. CASE k = q /\ i # n
        BY <2>1, <3>3 DEF TaskAt
      <3> QED
        BY <3>1, <3>2, <3>3
    <2>4. ~InQueue(f) /\ ~Held(f)
      <3>1. MainHolds(f)
        BY <1>1 DEF MainHolds
      <3> QED
        BY <1>1, <3>1 DEF OneTask
    <2>5. \A g \in Fds : InQueue(g)' <=> InQueue(g) \/ g = f
      BY <1>1, <2>1, <2>3 DEF InQueue
    <2>6. /\ \A g : Held(g)' = Held(g) /\ Busy(g)' = Busy(g)
          /\ \A g : ~MainHolds(g)'
      BY <1>1 DEF Held, Busy, MainHolds
    <2>7. OneTask'
      <3>1. \A k \in Kinds, i \in Nat : ~TaskAt(k, i, f)
        BY <2>4 DEF InQueue
      <3> QED
        BY <1>1, <2>3, <2>4, <2>5, <2>6, <3>1 DEF OneTask
    <2>8. TaskMeansFlag'
      <3>1. Busy(f)
        BY <1>1 DEF TaskMeansFlag, MainHolds
      <3> QED
        BY <1>1, <2>5, <2>6, <3>1 DEF TaskMeansFlag
    <2>9. TaskKeepsItsClient'
      <3>1. ASSUME NEW k \in Kinds, NEW i \in 1 .. Len(queue'[k])
            PROVE  (i \in 1 .. Len(queue[k]) /\ queue'[k][i] = queue[k][i]) \/ queue'[k][i] = node
        BY <2>1, <2>2, <3>1
      <3>2. fdOf[node.client] = node.fd
        OBVIOUS
      <3> QED
        BY <1>1, <3>1, <3>2 DEF TaskKeepsItsClient
    <2>10. SlotPerConnection'
      BY <1>1 DEF SlotPerConnection, InTable
    <2> QED
      BY <2>7, <2>8, <2>9, <2>10
  <1> QED
    BY <1>2, <1>3 DEF GiveChildTask, QueueInsert

\* The exit node belongs to no connection.
LEMMA InsertExitDispatch ==
    ASSUME IInv, NEW k \in Kinds, NEW from, NEW next, InsertExit(k, from, next), Running, Running',
           mpc # "first", next \notin {"first", "recv", "insert"}
    PROVE  DispatchOK'
  <1> USE DEF IInv, DispatchOK
  <1>1. /\ UNCHANGED <<fdOf, table, task>> /\ mpc' = next
        /\ queue' = [queue EXCEPT ![k] = <<ExitTask>> \o @]
    BY DEF InsertExit, kernelVars, workerVars
  <1>2. /\ queue'[k] = <<ExitTask>> \o queue[k] /\ queue[k] \in Seq(Task \cup {ExitTask})
        /\ \A l \in Kinds : l # k => queue'[l] = queue[l]
    BY <1>1 DEF TypeInv, TypeOK
  <1>3. /\ Len(queue'[k]) = Len(queue[k]) + 1 /\ queue'[k][1] = ExitTask
        /\ \A i \in 2 .. Len(queue'[k]) : i - 1 \in 1 .. Len(queue[k]) /\ queue'[k][i] = queue[k][i - 1]
        /\ Len(queue[k]) \in Nat
    BY <1>2
  <1> DEFINE old(l, i) == IF l = k THEN i - 1 ELSE i
  <1>4. ASSUME NEW l \in Kinds, NEW i \in 1 .. Len(queue'[l]), queue'[l][i] # ExitTask
        PROVE  old(l, i) \in 1 .. Len(queue[l]) /\ queue'[l][i] = queue[l][old(l, i)]
    <2>1. CASE l # k
      BY <1>2, <2>1
    <2>2. CASE l = k
      <3>1. i \in 2 .. Len(queue'[k])
        BY <1>3, <1>4, <2>2
      <3> QED
        BY <1>3, <2>2, <3>1
    <2> QED
      BY <2>1, <2>2
  <1>5. ASSUME NEW l \in Kinds, NEW i \in Nat, NEW f \in Fds, TaskAt(l, i, f)'
        PROVE  i \in 1 .. Len(queue'[l]) /\ old(l, i) \in Nat /\ TaskAt(l, old(l, i), f)
    <2>1. i \in 1 .. Len(queue'[l]) /\ queue'[l][i].fd = f
      BY <1>5 DEF TaskAt
    <2>2. queue'[l][i] # ExitTask
      BY <2>1, TaskFd
    <2>3. old(l, i) \in 1 .. Len(queue[l]) /\ queue'[l][i] = queue[l][old(l, i)]
      BY <1>4, <2>1, <2>2
    <2>4. old(l, i) \in Nat
      BY <2>3
    <2> QED
      BY <2>1, <2>3, <2>4 DEF TaskAt
  <1>6. /\ \A f \in Fds : InQueue(f)' => InQueue(f)
        /\ \A f : Held(f)' = Held(f) /\ Busy(f)' = Busy(f)
        /\ \A f : ~MainHolds(f)'
    BY <1>1, <1>5 DEF InQueue, Held, Busy, MainHolds
  <1>7. OneTask'
    <2>1. ASSUME NEW f \in Fds, NEW l \in Kinds, NEW m \in Kinds, NEW i \in Nat, NEW j \in Nat,
                 TaskAt(l, i, f)', TaskAt(m, j, f)'
          PROVE  l = m /\ i = j
      <3>1. old(l, i) \in Nat /\ TaskAt(l, old(l, i), f) /\ old(m, j) \in Nat /\ TaskAt(m, old(m, j), f)
        BY <1>5, <2>1
      <3>2. l = m /\ old(l, i) = old(m, j)
        BY <3>1 DEF OneTask
      <3> QED
        BY <3>2
    <2> QED
      BY <1>1, <1>6, <2>1 DEF OneTask
  <1>8. TaskMeansFlag'
    BY <1>1, <1>6 DEF TaskMeansFlag
  <1>9. TaskKeepsItsClient'
    BY <1>1, <1>4 DEF TaskKeepsItsClient
  <1>10. SlotPerConnection'
    BY <1>1 DEF SlotPerConnection, InTable
  <1> QED
    BY <1>7, <1>8, <1>9, <1>10

\* A worker takes the first node of its queue.
LEMMA PopDispatch ==
    ASSUME IInv, NEW w \in Workers, PopTask(w)
    PROVE  DispatchOK'
  <1> USE DEF IInv, DispatchOK
  <1> DEFINE q == QueueOf(w)
             node == Head(queue[q])
  <1>1. /\ UNCHANGED <<fdOf, table, mpc, cur>> /\ Running /\ Running'
        /\ q \in Kinds /\ queue[q] # <<>> /\ queue' = [queue EXCEPT ![q] = Tail(@)]
        /\ wpc[w] \in IdleStates
    BY DEF PopTask, At, kernelVars, mainVars, QueueOf, Kinds, IdleStates, Running
  <1>2. /\ queue'[q] = Tail(queue[q]) /\ queue[q] \in Seq(Task \cup {ExitTask})
        /\ \A l \in Kinds : l # q => queue'[l] = queue[l]
    BY <1>1 DEF TypeInv, TypeOK
  <1>3. /\ 1 \in 1 .. Len(queue[q]) /\ node = queue[q][1]
        /\ \A i \in 1 .. Len(queue'[q]) : /\ i + 1 \in 1 .. Len(queue[q])
                                          /\ queue'[q][i] = queue[q][i + 1]
    <2> DEFINE s == queue[q]
    <2>1. s \in Seq(Task \cup {ExitTask}) /\ s # <<>>
      BY <1>1, <1>2
    <2>2. /\ 1 \in 1 .. Len(s) /\ Head(s) = s[1]
          /\ \A i \in 1 .. Len(Tail(s)) : i + 1 \in 1 .. Len(s) /\ Tail(s)[i] = s[i + 1]
      <3> HIDE DEF s
      <3> QED
        BY <2>1
    <2> QED
      BY <1>2, <2>2
  <1>4. task[w] = NoTask
    BY <1>1 DEF TypeInv, TypeOK
  <1>5. \/ task' = task
        \/ task' = [task EXCEPT ![w] = node] /\ node # ExitTask
    BY DEF PopTask
  <1>6. \A v \in Workers : task'[v] = task[v] \/ (v = w /\ task'[v] = node /\ node # ExitTask)
    BY <1>5 DEF TypeInv, TypeOK
  <1> DEFINE old(l, i) == IF l = q THEN i + 1 ELSE i
  <1>7. ASSUME NEW l \in Kinds, NEW i \in 1 .. Len(queue'[l])
        PROVE  old(l, i) \in 1 .. Len(queue[l]) /\ queue'[l][i] = queue[l][old(l, i)]
    BY <1>2, <1>3
  <1>8. ASSUME NEW l \in Kinds, NEW i \in Nat, NEW f \in Fds, TaskAt(l, i, f)'
        PROVE  /\ old(l, i) \in Nat /\ TaskAt(l, old(l, i), f)
               /\ l = q => old(l, i) # 1
    <2>1. i \in 1 .. Len(queue'[l]) /\ queue'[l][i].fd = f
      BY <1>8 DEF TaskAt
    <2>2. old(l, i) \in 1 .. Len(queue[l]) /\ queue'[l][i] = queue[l][old(l, i)]
      BY <1>7, <2>1
    <2>3. old(l, i) \in Nat /\ (l = q => old(l, i) # 1)
      BY <2>1
    <2> QED
      BY <2>1, <2>2, <2>3 DEF TaskAt
  <1>9. ASSUME NEW f \in Fds
        PROVE  /\ InQueue(f)' => InQueue(f)
               /\ node.fd = f => TaskAt(q, 1, f)
               /\ Held(f)' => Held(f) \/ node.fd = f
               /\ MainHolds(f)' = MainHolds(f) /\ Busy(f)' = Busy(f)
    <2>1. InQueue(f)' => InQueue(f)
      BY <1>8 DEF InQueue
    <2>2. node.fd = f => TaskAt(q, 1, f)
      BY <1>3 DEF TaskAt
    <2>3. Held(f)' => Held(f) \/ node.fd = f
      BY <1>6 DEF Held
    <2> QED
      BY <1>1, <2>1, <2>2, <2>3 DEF MainHolds, Busy
  <1>10. OneTask'
    <2>1. ASSUME NEW f \in Fds, NEW l \in Kinds, NEW m \in Kinds, NEW i \in Nat, NEW j \in Nat,
                 TaskAt(l, i, f)', TaskAt(m, j, f)'
          PROVE  l = m /\ i = j
      <3>1. old(l, i) \in Nat /\ TaskAt(l, old(l, i), f) /\ old(m, j) \in Nat /\ TaskAt(m, old(m, j), f)
        BY <1>8, <2>1
      <3>2. l = m /\ old(l, i) = old(m, j)
        BY <3>1 DEF OneTask
      <3> QED
        BY <3>2
    <2>2. ASSUME NEW f \in Fds, node.fd = f
          PROVE  ~InQueue(f)' /\ ~Held(f) /\ ~MainHolds(f)
      <3>1. TaskAt(q, 1, f) /\ InQueue(f)
        BY <1>1, <1>9, <2>2 DEF InQueue
      <3>2. ~Held(f) /\ ~MainHolds(f)
        BY <3>1 DEF OneTask
      <3>3. ASSUME NEW l \in Kinds, NEW i \in Nat, TaskAt(l, i, f)' PROVE FALSE
        <4>1. old(l, i) \in Nat /\ TaskAt(l, old(l, i), f) /\ (l = q => old(l, i) # 1)
          BY <1>8, <3>3
        <4>2. l = q /\ old(l, i) = 1
          BY <1>1, <3>1, <4>1 DEF OneTask
        <4> QED
          BY <4>1, <4>2
      <3> QED
        BY <3>2, <3>3 DEF InQueue
    <2>3. ASSUME NEW f \in Fds, NEW u \in Workers, NEW v \in Workers, task'[u].fd = f, task'[v].fd = f
          PROVE  u = v
      <3>1. CASE node.fd = f
        <4>1. \A x \in Workers : task[x].fd # f
          BY <2>2, <3>1 DEF Held
        <4> QED
          BY <1>6, <2>3, <4>1
      <3>2. CASE node.fd # f
        BY <1>6, <2>3, <3>2 DEF OneTask
      <3> QED
        BY <3>1, <3>2
    <2>4. ASSUME NEW f \in Fds
          PROVE  ~(InQueue(f)' /\ Held(f)') /\ (MainHolds(f)' => ~InQueue(f)' /\ ~Held(f)')
      BY <1>9, <2>2 DEF OneTask
    <2> QED
      BY <2>1, <2>3, <2>4 DEF OneTask
  <1>11. TaskMeansFlag'
    <2>1. ASSUME NEW f \in Fds, MainHolds(f)' \/ InQueue(f)' \/ Held(f)'
          PROVE  Busy(f)'
      <3>1. MainHolds(f) \/ InQueue(f) \/ Held(f)
        BY <1>1, <1>9, <2>1 DEF InQueue
      <3> QED
        BY <1>1, <1>9, <3>1 DEF TaskMeansFlag
    <2>2. mpc = "recv" => ~Busy(fdOf[cur])'
      BY <1>1 DEF TaskMeansFlag, Busy
    <2> QED
      BY <1>1, <2>1, <2>2 DEF TaskMeansFlag, Busy
  <1>12. TaskKeepsItsClient'
    <2>1. ASSUME NEW k \in Kinds, NEW i \in 1 .. Len(queue'[k]), queue'[k][i] # ExitTask
          PROVE  fdOf[queue'[k][i].client] = queue'[k][i].fd
      BY <1>1, <1>7, <2>1 DEF TaskKeepsItsClient
    <2>2. node # ExitTask => fdOf[node.client] = node.fd
      BY <1>1, <1>3 DEF TaskKeepsItsClient
    <2>3. ASSUME NEW v \in Workers, task'[v] # NoTask
          PROVE  fdOf[task'[v].client] = task'[v].fd
      BY <1>1, <1>6, <2>2, <2>3 DEF TaskKeepsItsClient
    <2> QED
      BY <1>1, <2>1, <2>3 DEF TaskKeepsItsClient
  <1>13. SlotPerConnection'
    BY <1>1 DEF SlotPerConnection, InTable
  <1> QED
    BY <1>10, <1>11, <1>12, <1>13

\* A worker clears work_flag and forgets the only task of the connection.
LEMMA ClearDispatch ==
    ASSUME IInv, NEW w \in Workers, ClearWorkFlag(w)
    PROVE  DispatchOK'
  <1> USE DEF IInv, DispatchOK
  <1>0. /\ UNCHANGED <<fdOf, queue, mpc, cur>> /\ Running /\ Running' /\ wpc[w] = "clear"
        /\ task' = [task EXCEPT ![w] = NoTask] /\ SetWorkFlag(task[w].fd, FALSE)
    BY DEF ClearWorkFlag, At, kernelVars, mainVars, Running
  <1>2. PICK f \in Fds : task[w] \in Task /\ task[w].fd = f
    BY <1>0 DEF TypeInv, TypeOK, IdleStates, Task
  <1>1. /\ UNCHANGED <<fdOf, queue, mpc, cur>> /\ Running /\ Running'
        /\ task' = [task EXCEPT ![w] = NoTask] /\ SetWorkFlag(f, FALSE)
    BY <1>0, <1>2
  <1>3. Held(f) /\ ~InQueue(f) /\ ~MainHolds(f)
    BY <1>2 DEF Held, OneTask
  <1>4. task'[w] = NoTask /\ \A v \in Workers : v # w => task'[v] = task[v]
    BY <1>1 DEF TypeInv, TypeOK
  <1>5. \A s \in Slots : table'[s].fd = table[s].fd
    BY <1>1 DEF SetWorkFlag, TypeInv, TypeOK
  <1>6. \A s \in Slots : table[s].fd # f => table'[s] = table[s]
    BY <1>1 DEF SetWorkFlag, IsSlotOf, TypeInv, TypeOK
  <1>7. \A g \in Fds : g # f => Busy(g)' = Busy(g)
    BY <1>5, <1>6 DEF Busy
  <1>8. ~Held(f)'
    <2>1. \A v \in Workers : v # w => task[v].fd # f
      BY <1>2 DEF OneTask
    <2>2. NoTask.fd # f
      BY <1>2, TaskFd
    <2> QED
      BY <1>4, <2>1, <2>2 DEF Held
  <1>9. /\ \A g : InQueue(g)' = InQueue(g) /\ MainHolds(g)' = MainHolds(g)
        /\ \A g \in Fds : Held(g)' => Held(g)
        /\ \A k, i, g : TaskAt(k, i, g)' = TaskAt(k, i, g)
    <2>1. \A g \in Fds : NoTask.fd # g
      BY TaskFd
    <2> QED
      BY <1>1, <1>4, <2>1 DEF InQueue, MainHolds, Held, TaskAt
  <1>10. OneTask'
    <2>1. \A g \in Fds, u, v \in Workers : task'[u].fd = g /\ task'[v].fd = g => u = v
      <3>1. \A g \in Fds : NoTask.fd # g
        BY TaskFd
      <3> QED
        BY <1>4, <3>1 DEF OneTask
    <2> QED
      BY <1>9, <2>1 DEF OneTask
  <1>11. TaskMeansFlag'
    <2>1. ASSUME NEW g \in Fds, MainHolds(g)' \/ InQueue(g)' \/ Held(g)'
          PROVE  Busy(g)'
      <3>1. g # f
        BY <1>3, <1>8, <1>9, <2>1
      <3> QED
        BY <1>1, <1>7, <1>9, <2>1, <3>1 DEF TaskMeansFlag
    <2>2. mpc = "recv" => ~Busy(fdOf[cur])'
      <3>1. CASE mpc = "recv"
        <4>1. fdOf[cur] \in Fds /\ ~Busy(fdOf[cur])
          BY <1>1, <3>1 DEF TaskMeansFlag, TypeInv, ServedOK
        <4>2. Busy(f)
          BY <1>1, <1>2, <1>3 DEF TaskMeansFlag
        <4>3. fdOf[cur] # f
          BY <4>1, <4>2
        <4>4. Busy(fdOf[cur])' <=> \E s \in Slots : table'[s].fd = fdOf[cur] /\ table'[s].work_flag
          BY <1>1 DEF Busy
        <4> QED
          BY <1>5, <1>6, <4>1, <4>3, <4>4 DEF Busy
      <3> QED
        BY <3>1
    <2>3. mpc' = "recv" => ~Busy(fdOf[cur])'
      BY <1>1, <2>2
    <2> QED
      BY <2>1, <2>3 DEF TaskMeansFlag, Busy
  <1>12. TaskKeepsItsClient'
    BY <1>1, <1>4 DEF TaskKeepsItsClient
  <1>13. SlotPerConnection'
    BY <1>1, <1>5 DEF SlotPerConnection, InTable
  <1> QED
    BY <1>10, <1>11, <1>12, <1>13

----------------------------------------------------------------------------
(* The invariant and the theorems *)

LEMMA InitDispatch == Init => IInv
  <1> SUFFICES ASSUME Init PROVE IInv
    OBVIOUS
  <1>1. /\ \A k \in Kinds : queue[k] = <<>>
        /\ \A w \in Workers : task[w] = NoTask
        /\ \A s \in Slots : table[s] = [fd |-> NoFd, work_flag |-> FALSE]
        /\ \A c \in Clients : fdOf[c] = NoFd
        /\ backlog = <<>> /\ mpc = "events"
    BY DEF Init
  <1>2. \A f \in Fds : f # NoFd /\ ~InQueue(f) /\ ~Held(f) /\ ~MainHolds(f)
    BY <1>1, ServerConstants DEF InQueue, TaskAt, Held, MainHolds, NoTask
  <1>3. OneTask
    BY <1>2 DEF OneTask, InQueue, Held
  <1>4. TaskMeansFlag
    BY <1>1, <1>2 DEF TaskMeansFlag
  <1>5. TaskKeepsItsClient
    BY <1>1 DEF TaskKeepsItsClient
  <1>6. SlotPerConnection
    BY <1>1, <1>2 DEF SlotPerConnection, InTable
  <1>7. SocketsOK
    BY <1>1 DEF SocketsOK, Connected
  <1> QED
    BY <1>3, <1>4, <1>5, <1>6, <1>7, InitTypeInv DEF IInv, DispatchOK

LEMMA NextDispatch == FdsFit /\ IInv /\ [Next]_vars => IInv'
  <1> SUFFICES ASSUME FdsFit, IInv, [Next]_vars PROVE IInv'
    OBVIOUS
  <1> USE DEF clientVars, kernelVars, workerVars, mainVars
  <1>1. ASSUME UNCHANGED <<fdOf, table, queue, task, mpc, cur>> PROVE DispatchOK'
    BY <1>1, FrameDispatch DEF IInv
  <1>2. ASSUME NEW c \in Clients, UserStep(c) \/ Transfer(c) PROVE DispatchOK'
    BY <1>1, <1>2 DEF UserStep, Transfer, Connect, Login, Command, Leave, AskDownload, OfferUpload, Upload
  <1>3. ASSUME NEW w \in Workers, WorkerStep(w) \/ SpuriousWake(w) PROVE DispatchOK'
    <2>1. CASE Sigpipe(w)
      BY <2>1, EndDispatch DEF Sigpipe, IInv
    <2> QED
      BY <1>1, <1>3, <2>1, PopDispatch, ClearDispatch
         DEF WorkerStep, SpuriousWake, CondWait, PopNull, Reply, SendHeader, RecvSize, SendBody,
             SendBodyFails, RecvBody, PeerGone
  <1>4. ASSUME MainStep \/ Sigint PROVE DispatchOK'
    <2>1. CASE SignalWorker
      BY <2>1, FrameDispatch DEF SignalWorker, NextEvent, IInv, Running
    <2>2. CASE BeginExit
      BY <2>2, FrameDispatch DEF BeginExit, IInv, Running
    <2>3. CASE ExitQueues
      <3>1. ASSUME NEW k \in Kinds, NEW from \in {"castIO", "castShell"},
                   NEW next \in {"exitShell", "join"}, BroadcastExit(k, from, next)
            PROVE  DispatchOK'
        BY <3>1, FrameDispatch DEF BroadcastExit, IInv, Running
      <3>2. ASSUME NEW k \in Kinds, NEW from \in {"exitIO", "exitShell"},
                   NEW next \in {"castIO", "castShell"}, InsertExit(k, from, next)
            PROVE  DispatchOK'
        <4>1. Running /\ Running' /\ mpc # "first"
          BY <3>2 DEF InsertExit, Running
        <4> QED
          BY <3>2, <4>1, InsertExitDispatch
      <3> QED
        BY <2>3, <3>1, <3>2 DEF ExitQueues, Kinds
    <2>4. CASE Finish
      BY <2>4, EndDispatch DEF Finish, IInv
    <2> QED
      BY <1>1, <1>4, <2>1, <2>2, <2>3, <2>4, AcceptDispatch, RecvFirstDispatch, FirstEofDispatch,
         ServeDispatch, RecvCommandDispatch, DisconnectDispatch, GiveDispatch
         DEF MainStep, Sigint, EpollWait, AcceptFails, SkipBusy
  <1>5. CASE Next
    BY <1>2, <1>3, <1>4, <1>5, NextTypeInv, NextSockets DEF IInv, Next
  <1>6. CASE UNCHANGED vars
    <2>1. TypeInv' /\ DispatchOK'
      BY <1>1, <1>6, NextTypeInv DEF IInv, vars
    <2>2. SocketsOK'
      BY <1>6 DEF IInv, vars, SocketsOK, Connected
    <2> QED
      BY <2>1, <2>2 DEF IInv
  <1> QED
    BY <1>5, <1>6

\* As long as every connection has its slot, the inductive invariant holds.
LEMMA Dispatch == FdsFit /\ Spec => []IInv
  <1> SUFFICES ASSUME FdsFit PROVE Spec => []IInv
    OBVIOUS
  <1>1. IInv /\ [Next]_vars => IInv'
    BY NextDispatch
  <1> QED
    BY InitDispatch, <1>1, PTL DEF Spec

\* A connection never has two tasks in the server, whatever the numbers of
\* clients and worker threads: work_flag makes main pass its events over.
THEOREM OneTaskAtATime == FdsFit /\ Spec => []OneTaskPerConnection
  <1>1. IInv => OneTaskPerConnection
    BY OneTaskSuffices DEF IInv, DispatchOK
  <1> QED
    BY Dispatch, <1>1, PTL

\* The descriptor in a queued or running task still belongs to the client that
\* sent the command: no client ever gets another client's answer.
THEOREM AnswersReachTheirClient == FdsFit /\ Spec => []TaskKeepsItsClient
  <1>1. IInv => TaskKeepsItsClient
    BY DEF IInv, DispatchOK
  <1> QED
    BY Dispatch, <1>1, PTL

\* client_fd holds exactly the connections main has served, each once.
THEOREM TableMatchesConnections == FdsFit /\ Spec => []SlotPerConnection
  <1>1. IInv => SlotPerConnection
    BY DEF IInv, DispatchOK
  <1> QED
    BY Dispatch, <1>1, PTL

----------------------------------------------------------------------------
(* No client is locked out, and the queues have room *)

\* QUEUE_CAPACITY is at least the number of connections.
QueuesFit == FdsFit /\ Cardinality(Fds) <= QueueCapacity

\* The queues hold exit nodes only once main has left the event loop.
NoExitYet ==
    Listening => \A k \in Kinds : \A i \in 1 .. Len(queue[k]) : queue[k][i] # ExitTask

\* Whatever is marked busy has its task somewhere.
FlagMeansHolder ==
    Running => \A f \in Fds : Busy(f) => MainHolds(f) \/ InQueue(f) \/ Held(f)

RoomInv == IInv /\ NoExitYet /\ FlagMeansHolder

\* The tasks of a queue and the one main holds are of different connections.
LEMMA Room ==
    ASSUME QueuesFit, IInv, NoExitYet
    PROVE  QueueHasRoom
  <1> SUFFICES ASSUME mpc = "insert", Len(queue[KindOf(msg)]) >= QueueCapacity
               PROVE  FALSE
    <2>1. KindOf(msg) \in Kinds
      BY DEF KindOf, Kinds
    <2>2. Len(queue[KindOf(msg)]) \in Nat
      BY <2>1 DEF IInv, TypeInv, TypeOK
    <2> QED
      BY <2>2, ServerConstants DEF QueueHasRoom
  <1> USE DEF IInv, DispatchOK
  <1> DEFINE q == queue[KindOf(msg)]
             P == 1 .. Len(q)
             f == fdOf[cur]
             T == Fds \ {f}
             fd == [i \in P |-> q[i].fd]
  <1>1. /\ KindOf(msg) \in Kinds /\ q \in Seq(Task \cup {ExitTask}) /\ Len(q) \in Nat
        /\ f \in Fds /\ MainHolds(f)
    BY DEF KindOf, Kinds, TypeInv, TypeOK, ServedOK, MainHolds
  <1>2. \A i \in P : q[i] \in Task
    BY <1>1 DEF NoExitYet, Listening
  <1>3. \A i \in P : q[i].fd \in Fds /\ TaskAt(KindOf(msg), i, q[i].fd)
    BY <1>2 DEF Task, TaskAt
  <1>4. fd \in [P -> T]
    <2>1. ASSUME NEW i \in P PROVE q[i].fd # f
      <3>1. ~InQueue(f)
        BY <1>1 DEF OneTask
      <3> QED
        BY <1>1, <1>3, <3>1 DEF InQueue
    <2> QED
      BY <1>3, <2>1
  <1>5. \A i, j \in P : fd[i] = fd[j] => i = j
    BY <1>1, <1>3 DEF OneTask
  <1>6. IsFiniteSet(T) /\ Cardinality(T) = Cardinality(Fds) - 1
    BY <1>1, FS_RemoveElement DEF QueuesFit, FdsFit
  <1>7. IsFiniteSet(P) /\ Cardinality(P) = Len(q)
    <2>1. \A n \in Int : /\ IsFiniteSet(1 .. n)
                         /\ Cardinality(1 .. n) = IF 1 > n THEN 0 ELSE n - 1 + 1
      BY FS_Interval
    <2> QED
      BY <1>1, <2>1
  <1>8. Cardinality(T) < Cardinality(P)
    <2>1. Cardinality(Fds) \in Nat
      BY FS_CardinalityType DEF QueuesFit, FdsFit
    <2> QED
      BY <1>1, <1>6, <1>7, <2>1, ServerConstants DEF QueuesFit
  <1> HIDE DEF P, T, fd
  <1>9. \E i, j \in P : i # j /\ fd[i] = fd[j]
    BY <1>4, <1>6, <1>7, <1>8, FS_PigeonHole
  <1> QED
    BY <1>5, <1>9

LEMMA RoomIsFlag == RoomInv => FlagMeansTask
  <1> SUFFICES ASSUME RoomInv, Running, NEW f \in Fds
               PROVE  IsClientWork(f) <=> \/ MainHolds(f)
                                          \/ QueuedAt(f) # {}
                                          \/ HeldBy(f) # {}
    BY DEF FlagMeansTask
  <1>1. IsClientWork(f) <=> Busy(f)
    BY SlotUnique DEF RoomInv, IInv, DispatchOK
  <1>2. Busy(f) <=> MainHolds(f) \/ InQueue(f) \/ Held(f)
    BY DEF RoomInv, IInv, DispatchOK, FlagMeansHolder, TaskMeansFlag
  <1>3. Held(f) <=> HeldBy(f) # {}
    BY DEF Held, HeldBy
  <1>4. InQueue(f) <=> QueuedAt(f) # {}
    <2>1. ASSUME InQueue(f) PROVE QueuedAt(f) # {}
      <3>1. PICK k \in Kinds : \E i \in Nat : TaskAt(k, i, f)
        BY <2>1 DEF InQueue
      <3>2. PICK i \in 1 .. Len(queue[k]) : queue[k][i].fd = f
        BY <3>1 DEF TaskAt
      <3>3. <<k, i>> \in {k} \X (1 .. Len(queue[k]))
        OBVIOUS
      <3>4. <<k, i>>[1] = k /\ <<k, i>>[2] = i
        OBVIOUS
      <3>5. <<k, i>> \in QueuedAt(f)
        BY <3>2, <3>3, <3>4 DEF QueuedAt
      <3> QED
        BY <3>5
    <2>2. ASSUME NEW p \in QueuedAt(f) PROVE InQueue(f)
      <3>1. PICK k \in Kinds : p \in {k} \X (1 .. Len(queue[k]))
        BY DEF QueuedAt
      <3>2. PICK i \in 1 .. Len(queue[k]) : p = <<k, i>>
        BY <3>1
      <3>3. queue[k][i].fd = f
        BY <3>2 DEF QueuedAt
      <3> QED
        BY <3>3 DEF InQueue, TaskAt
    <2> QED
      BY <2>1, <2>2
  <1> QED
    BY <1>1, <1>2, <1>3, <1>4

\* Steps that neither move a task nor set or clear a work_flag.
LEMMA FrameRoom ==
    ASSUME RoomInv, Running' => Running, Listening' => Listening, UNCHANGED <<table, queue, task>>,
           mpc = "insert" => mpc' = mpc /\ UNCHANGED <<fdOf, cur>>
    PROVE  NoExitYet' /\ FlagMeansHolder'
  <1>1. /\ \A f : InQueue(f)' = InQueue(f) /\ Held(f)' = Held(f) /\ Busy(f)' = Busy(f)
        /\ \A f : MainHolds(f) => MainHolds(f)'
    BY DEF InQueue, TaskAt, Held, Busy, MainHolds
  <1> QED
    BY <1>1 DEF RoomInv, NoExitYet, FlagMeansHolder

LEMMA EndRoom ==
    ASSUME NEW how \in {"done", "killed"}, EndProcess(how)
    PROVE  NoExitYet' /\ FlagMeansHolder'
  BY DEF EndProcess, NoExitYet, FlagMeansHolder, Listening, Running

\* main sets the work_flag of the connection whose command it holds.
LEMMA RecvRoom ==
    ASSUME RoomInv, RecvFirst \/ RecvCommand
    PROVE  NoExitYet' /\ FlagMeansHolder'
  <1> USE DEF RoomInv, IInv
  <1> DEFINE f == fdOf[cur]
  <1>1. /\ Running /\ Listening /\ mpc # "insert" /\ mpc' = "insert"
        /\ UNCHANGED <<fdOf, queue, task, cur>>
    BY DEF RecvFirst, RecvCommand, RecvInto, Running, Listening, workerVars
  <1>2. \A s \in Slots : table'[s] = table[s] \/ table'[s].fd = f
    BY DEF RecvFirst, RecvCommand, RecordClient, SetWorkFlag, IsSlotOf, TypeInv, TypeOK
  <1>3. \A g : Busy(g)' => Busy(g) \/ g = f
    BY <1>2 DEF Busy
  <1>4. /\ \A g : InQueue(g)' = InQueue(g) /\ Held(g)' = Held(g)
        /\ \A g : ~MainHolds(g)
        /\ \A g : g = f => MainHolds(g)'
    BY <1>1 DEF InQueue, TaskAt, Held, MainHolds
  <1> QED
    BY <1>1, <1>3, <1>4 DEF NoExitYet, FlagMeansHolder

LEMMA DisconnectRoom ==
    ASSUME RoomInv, Disconnect
    PROVE  NoExitYet' /\ FlagMeansHolder'
  <1> USE DEF RoomInv, IInv
  <1>1. Running /\ Listening /\ mpc # "insert" /\ UNCHANGED <<queue, task>>
    BY DEF Disconnect, Running, Listening, workerVars
  <1>2. \A s \in Slots : table'[s] = table[s] \/ table'[s].work_flag = FALSE
    BY DEF Disconnect, ForgetClient, TypeInv, TypeOK
  <1>3. \A g : Busy(g)' => Busy(g)
    BY <1>2 DEF Busy
  <1>4. /\ \A g : InQueue(g)' = InQueue(g) /\ Held(g)' = Held(g)
        /\ \A g : ~MainHolds(g)
    BY <1>1 DEF InQueue, TaskAt, Held, MainHolds
  <1> QED
    BY <1>1, <1>3, <1>4 DEF NoExitYet, FlagMeansHolder

LEMMA GiveRoom ==
    ASSUME QueuesFit, RoomInv, GiveChildTask
    PROVE  NoExitYet' /\ FlagMeansHolder'
  <1> USE DEF RoomInv, IInv
  <1> DEFINE f == fdOf[cur]
             q == KindOf(msg)
             node == [fd |-> f, order |-> msg, client |-> cur]
  <1>1. /\ f \in Fds /\ q \in Kinds /\ Running /\ Listening /\ mpc = "insert"
        /\ UNCHANGED <<fdOf, table, task>>
    BY DEF TypeInv, ServedOK, GiveChildTask, Running, Listening, KindOf, Kinds, kernelVars, workerVars
  <1>2. queue' = [queue EXCEPT ![q] = Append(@, node)]
    <2>1. Len(queue[q]) < QueueCapacity
      BY <1>1, Room DEF QueueHasRoom
    <2>2. Len(queue[q]) \in Nat
      BY <1>1 DEF TypeInv, TypeOK
    <2>3. Len(queue[q]) # QueueCapacity
      BY <2>1, <2>2, ServerConstants
    <2> QED
      BY <2>3 DEF GiveChildTask, QueueInsert
  <1>3. /\ queue'[q] = Append(queue[q], node) /\ queue[q] \in Seq(Task \cup {ExitTask})
        /\ \A k \in Kinds : k # q => queue'[k] = queue[k]
    BY <1>1, <1>2 DEF TypeInv, TypeOK
  <1> DEFINE n == Len(queue[q]) + 1
  <1>4. /\ n \in Nat /\ Len(queue'[q]) = n /\ queue'[q][n] = node
        /\ \A i \in 1 .. n : i = n \/ (i \in 1 .. Len(queue[q]) /\ queue'[q][i] = queue[q][i])
        /\ 1 .. Len(queue[q]) \subseteq 1 .. n /\ n \in 1 .. n
        /\ \A i \in 1 .. Len(queue[q]) : queue'[q][i] = queue[q][i]
    BY <1>3
  <1>5. node.fd = f /\ node # ExitTask
    BY <1>1, ServerConstants DEF ExitTask
  <1>6. NoExitYet'
    <2>1. ASSUME NEW k \in Kinds, NEW i \in 1 .. Len(queue'[k]) PROVE queue'[k][i] # ExitTask
      BY <1>1, <1>3, <1>4, <1>5 DEF NoExitYet
    <2> QED
      BY <2>1 DEF NoExitYet
  <1>7. /\ \A g : InQueue(g) => InQueue(g)'
        /\ \A g : g = f => InQueue(g)'
        /\ \A g : Held(g)' = Held(g) /\ Busy(g)' = Busy(g)
        /\ \A g : MainHolds(g) => g = f
    <2>1. ASSUME NEW k \in Kinds, NEW i \in Nat, NEW g, TaskAt(k, i, g)
          PROVE  TaskAt(k, i, g)'
      <3>1. i \in 1 .. Len(queue[k]) /\ queue[k][i].fd = g
        BY <2>1 DEF TaskAt
      <3>2. CASE k = q
        BY <1>4, <3>1, <3>2 DEF TaskAt
      <3>3. CASE k # q
        BY <1>3, <3>1, <3>3 DEF TaskAt
      <3> QED
        BY <3>2, <3>3
    <2>2. ASSUME NEW k \in Kinds, NEW i \in Nat, k = q, i = n, NEW g, g = f
          PROVE  TaskAt(k, i, g)'
      BY <1>4, <1>5, <2>2 DEF TaskAt
    <2>3. \A g : g = f => InQueue(g)'
      BY <1>1, <1>4, <2>2 DEF InQueue
    <2> QED
      BY <1>1, <2>1, <2>3 DEF InQueue, Held, Busy, MainHolds
  <1> QED
    BY <1>1, <1>6, <1>7 DEF FlagMeansHolder

LEMMA InsertExitRoom ==
    ASSUME RoomInv, NEW k \in Kinds, NEW from \in {"exitIO", "exitShell"},
           NEW next \in {"castIO", "castShell"}, InsertExit(k, from, next)
    PROVE  NoExitYet' /\ FlagMeansHolder'
  <1> USE DEF RoomInv, IInv
  <1>1. /\ Running /\ ~Listening' /\ UNCHANGED <<table, task>> /\ mpc # "insert"
        /\ queue' = [queue EXCEPT ![k] = <<ExitTask>> \o @]
    BY DEF InsertExit, Running, Listening, kernelVars, workerVars
  <1>2. /\ queue'[k] = <<ExitTask>> \o queue[k] /\ queue[k] \in Seq(Task \cup {ExitTask})
        /\ \A l \in Kinds : l # k => queue'[l] = queue[l]
    BY <1>1 DEF TypeInv, TypeOK
  <1>3. \A i \in 1 .. Len(queue[k]) : i + 1 \in 1 .. Len(queue'[k]) /\ queue'[k][i + 1] = queue[k][i]
    BY <1>2
  <1>4. \A l \in Kinds, i \in Nat : \A g : TaskAt(l, i, g) => \E j \in Nat : TaskAt(l, j, g)'
    <2> TAKE l \in Kinds, i \in Nat
    <2> TAKE g
    <2>1. CASE l = k
      <3>1. TaskAt(l, i, g) => TaskAt(l, i + 1, g)'
        BY <1>3, <2>1 DEF TaskAt
      <3>2. i + 1 \in Nat
        OBVIOUS
      <3> QED
        BY <3>1, <3>2
    <2>2. CASE l # k
      BY <1>2, <2>2 DEF TaskAt
    <2> QED
      BY <2>1, <2>2
  <1>5. /\ \A g : InQueue(g) => InQueue(g)'
        /\ \A g : Held(g)' = Held(g) /\ Busy(g)' = Busy(g) /\ ~MainHolds(g)
    BY <1>1, <1>4 DEF InQueue, Held, Busy, MainHolds
  <1> QED
    BY <1>1, <1>5 DEF NoExitYet, FlagMeansHolder

LEMMA PopRoom ==
    ASSUME RoomInv, NEW w \in Workers, PopTask(w)
    PROVE  NoExitYet' /\ FlagMeansHolder'
  <1> USE DEF RoomInv, IInv
  <1> DEFINE q == QueueOf(w)
             node == Head(queue[q])
  <1>1. /\ UNCHANGED <<fdOf, table, mpc, cur>> /\ Running /\ wpc[w] \in IdleStates
        /\ q \in Kinds /\ queue[q] # <<>> /\ queue' = [queue EXCEPT ![q] = Tail(@)]
        /\ node = ExitTask \/ task' = [task EXCEPT ![w] = node]
        /\ node = ExitTask => task' = task
    BY DEF PopTask, At, kernelVars, mainVars, QueueOf, Kinds, IdleStates, Running
  <1>2. /\ queue'[q] = Tail(queue[q]) /\ queue[q] \in Seq(Task \cup {ExitTask})
        /\ \A l \in Kinds : l # q => queue'[l] = queue[l]
    BY <1>1 DEF TypeInv, TypeOK
  <1>3. /\ node = queue[q][1]
        /\ \A i \in 1 .. Len(queue[q]) : i = 1 \/ (/\ i - 1 \in 1 .. Len(queue'[q])
                                                   /\ queue'[q][i - 1] = queue[q][i])
        /\ \A i \in 1 .. Len(queue'[q]) : /\ i + 1 \in 1 .. Len(queue[q])
                                          /\ queue'[q][i] = queue[q][i + 1]
    <2> DEFINE s == queue[q]
    <2>1. s \in Seq(Task \cup {ExitTask}) /\ s # <<>>
      BY <1>1, <1>2
    <2>2. /\ Head(s) = s[1]
          /\ \A i \in 1 .. Len(s) : i = 1 \/ (i - 1 \in 1 .. Len(Tail(s)) /\ Tail(s)[i - 1] = s[i])
          /\ \A i \in 1 .. Len(Tail(s)) : i + 1 \in 1 .. Len(s) /\ Tail(s)[i] = s[i + 1]
      <3> HIDE DEF s
      <3> QED
        BY <2>1
    <2> QED
      BY <1>2, <2>2
  <1>4. NoExitYet'
    <2>1. Listening' => Listening
      BY <1>1 DEF Listening
    <2>2. ASSUME Listening, NEW k \in Kinds, NEW i \in 1 .. Len(queue'[k])
          PROVE  queue'[k][i] # ExitTask
      <3>1. PICK j \in 1 .. Len(queue[k]) : queue'[k][i] = queue[k][j]
        <4>1. CASE k = q
          <5>1. i + 1 \in 1 .. Len(queue[k]) /\ queue'[k][i] = queue[k][i + 1]
            BY <1>3, <4>1
          <5> QED
            BY <5>1
        <4>2. CASE k # q
          BY <1>2, <4>2
        <4> QED
          BY <4>1, <4>2
      <3> QED
        BY <2>2, <3>1 DEF NoExitYet
    <2> QED
      BY <2>1, <2>2 DEF NoExitYet
  <1>5. ASSUME NEW g \in Fds, InQueue(g) PROVE InQueue(g)' \/ Held(g)'
    <2>1. PICK k \in Kinds, i \in Nat : TaskAt(k, i, g)
      BY <1>5 DEF InQueue
    <2>2. CASE k # q
      BY <1>2, <2>1, <2>2 DEF TaskAt, InQueue
    <2>3. CASE k = q /\ i # 1
      <3>1. i - 1 \in Nat /\ TaskAt(k, i - 1, g)'
        BY <1>3, <2>1, <2>3 DEF TaskAt
      <3> QED
        BY <3>1 DEF InQueue
    <2>4. CASE k = q /\ i = 1
      <3>1. node.fd = g /\ node # ExitTask
        BY <1>3, <2>1, <2>4, TaskFd DEF TaskAt
      <3>2. task'[w].fd = g
        BY <1>1, <3>1 DEF TypeInv, TypeOK
      <3> QED
        BY <3>2 DEF Held
    <2> QED
      BY <2>2, <2>3, <2>4
  <1>6. ASSUME NEW g \in Fds, Held(g) PROVE Held(g)'
    <2>1. PICK v \in Workers : task[v].fd = g
      BY <1>6 DEF Held
    <2>2. task[w] = NoTask
      BY <1>1 DEF TypeInv, TypeOK
    <2>3. v # w
      BY <2>1, <2>2, TaskFd
    <2>4. task'[v] = task[v]
      BY <1>1, <2>3 DEF TypeInv, TypeOK
    <2> QED
      BY <2>1, <2>4 DEF Held
  <1>7. \A g : Busy(g)' = Busy(g) /\ MainHolds(g)' = MainHolds(g)
    BY <1>1 DEF Busy, MainHolds
  <1> QED
    BY <1>1, <1>4, <1>5, <1>6, <1>7 DEF FlagMeansHolder

LEMMA ClearRoom ==
    ASSUME RoomInv, NEW w \in Workers, ClearWorkFlag(w)
    PROVE  NoExitYet' /\ FlagMeansHolder'
  <1> USE DEF RoomInv, IInv, DispatchOK
  <1>0. /\ UNCHANGED <<fdOf, queue, mpc, cur>> /\ Running /\ wpc[w] = "clear"
        /\ task' = [task EXCEPT ![w] = NoTask] /\ SetWorkFlag(task[w].fd, FALSE)
    BY DEF ClearWorkFlag, At, kernelVars, mainVars, Running
  <1>1. PICK f \in Fds : task[w].fd = f
    BY <1>0 DEF TypeInv, TypeOK, IdleStates, Task
  <1>2. SetWorkFlag(f, FALSE)
    BY <1>0, <1>1
  <1>3. \A s \in Slots : /\ table[s].fd # f => table'[s] = table[s]
                         /\ table[s].fd = f => table'[s].work_flag = FALSE
                         /\ table'[s].fd = table[s].fd
    <2>1. \A s \in Slots : IsSlotOf(s, f) <=> table[s].fd = f
      BY <1>0, SlotUnique
    <2>2. \A s, t \in Slots : table[s].fd = f /\ table[t].fd = f => s = t
      BY <1>0, ServerConstants DEF SlotPerConnection
    <2>3. CASE UNCHANGED table /\ ~InTable(f)
      BY <2>3 DEF InTable
    <2>4. ASSUME NEW t \in Slots, table[t].fd = f, table' = [table EXCEPT ![t].work_flag = FALSE]
          PROVE  \A s \in Slots : /\ table[s].fd # f => table'[s] = table[s]
                                  /\ table[s].fd = f => table'[s].work_flag = FALSE
                                  /\ table'[s].fd = table[s].fd
      BY <2>2, <2>4 DEF TypeInv, TypeOK
    <2>5. CASE \E t \in Slots : IsSlotOf(t, f) /\ table' = [table EXCEPT ![t].work_flag = FALSE]
      <3>1. PICK t \in Slots : IsSlotOf(t, f) /\ table' = [table EXCEPT ![t].work_flag = FALSE]
        BY <2>5
      <3>2. table[t].fd = f
        BY <2>1, <3>1
      <3> QED
        BY <2>4, <3>1, <3>2
    <2> QED
      BY <1>2, <2>3, <2>5 DEF SetWorkFlag
  <1>4. ASSUME NEW g, Busy(g)' PROVE Busy(g) /\ g # f
    <2>1. PICK s \in Slots : table'[s].fd = g /\ table'[s].work_flag
      BY <1>4 DEF Busy
    <2>2. table[s].fd # f
      <3>1. SUFFICES ASSUME table[s].fd = f PROVE FALSE
        OBVIOUS
      <3>2. table'[s].work_flag = FALSE
        BY <1>3, <3>1
      <3>3. table'[s].work_flag
        BY <2>1
      <3> QED
        BY <3>2, <3>3, Zenon
    <2>3. table'[s] = table[s]
      BY <1>3, <2>2, Zenon
    <2>4. table[s].fd = g /\ table[s].work_flag
      BY <2>1, <2>3, Zenon
    <2>5. Busy(g)
      BY <2>4, Zenon DEF Busy
    <2>6. g # f
      BY <2>2, <2>4
    <2> QED
      BY <2>5, <2>6
  <1>5. \A g \in Fds : g # f /\ Held(g) => Held(g)'
    <2>1. \A v \in Workers : v # w => task'[v] = task[v]
      BY <1>0 DEF TypeInv, TypeOK
    <2> QED
      BY <1>1, <2>1 DEF Held
  <1>6. \A g : InQueue(g)' = InQueue(g) /\ MainHolds(g)' = MainHolds(g)
    BY <1>0 DEF InQueue, TaskAt, MainHolds
  <1>7. NoExitYet'
    BY <1>0 DEF NoExitYet, Listening
  <1> QED
    BY <1>0, <1>4, <1>5, <1>6, <1>7 DEF FlagMeansHolder

LEMMA InitRoom == Init => RoomInv
  <1> SUFFICES ASSUME Init PROVE NoExitYet /\ FlagMeansHolder
    BY InitDispatch DEF RoomInv
  <1> QED
    BY DEF Init, NoExitYet, FlagMeansHolder, Busy

LEMMA NextRoom == QueuesFit /\ RoomInv /\ [Next]_vars => RoomInv'
  <1> SUFFICES ASSUME QueuesFit, RoomInv, [Next]_vars PROVE NoExitYet' /\ FlagMeansHolder'
    BY NextDispatch DEF RoomInv, QueuesFit
  <1> USE DEF clientVars, kernelVars, workerVars, mainVars
  <1>1. ASSUME UNCHANGED <<fdOf, table, queue, task, mpc, cur>>
        PROVE  NoExitYet' /\ FlagMeansHolder'
    BY <1>1, FrameRoom DEF Running, Listening
  <1>2. ASSUME NEW c \in Clients, UserStep(c) \/ Transfer(c)
        PROVE  NoExitYet' /\ FlagMeansHolder'
    BY <1>1, <1>2 DEF UserStep, Transfer, Connect, Login, Command, Leave, AskDownload, OfferUpload, Upload
  <1>3. ASSUME NEW w \in Workers, WorkerStep(w) \/ SpuriousWake(w)
        PROVE  NoExitYet' /\ FlagMeansHolder'
    <2>1. CASE Sigpipe(w)
      BY <2>1, EndRoom DEF Sigpipe
    <2> QED
      BY <1>1, <1>3, <2>1, PopRoom, ClearRoom
         DEF WorkerStep, SpuriousWake, CondWait, PopNull, Reply, SendHeader, RecvSize, SendBody,
             SendBodyFails, RecvBody, PeerGone
  <1>4. ASSUME MainStep \/ Sigint PROVE NoExitYet' /\ FlagMeansHolder'
    <2>1. CASE Accept \/ FirstEof \/ ServeClient \/ SignalWorker \/ BeginExit
      BY <2>1, FrameRoom DEF Accept, FirstEof, ServeClient, SignalWorker, BeginExit, NextEvent,
         Running, Listening
    <2>2. CASE ExitQueues
      <3>1. ASSUME NEW k \in Kinds, NEW from \in {"castIO", "castShell"},
                   NEW next \in {"exitShell", "join"}, BroadcastExit(k, from, next)
            PROVE  NoExitYet' /\ FlagMeansHolder'
        BY <3>1, FrameRoom DEF BroadcastExit, Running, Listening
      <3> QED
        BY <2>2, <3>1, InsertExitRoom DEF ExitQueues, Kinds
    <2>3. CASE Finish
      BY <2>3, EndRoom DEF Finish
    <2> QED
      BY <1>1, <1>4, <2>1, <2>2, <2>3, RecvRoom, DisconnectRoom, GiveRoom
         DEF MainStep, Sigint, EpollWait, AcceptFails, SkipBusy
  <1>5. CASE UNCHANGED vars
    BY <1>1, <1>5 DEF vars
  <1> QED
    BY <1>2, <1>3, <1>4, <1>5 DEF Next

LEMMA Tasks == QueuesFit /\ Spec => []RoomInv
  <1> SUFFICES ASSUME QueuesFit PROVE Spec => []RoomInv
    OBVIOUS
  <1>1. RoomInv /\ [Next]_vars => RoomInv'
    BY NextRoom
  <1> QED
    BY InitRoom, <1>1, PTL DEF Spec

\* work_flag is set exactly while the server has a task of the connection: no
\* client is served twice at a time, and none is locked out.
THEOREM FlagIsExact == QueuesFit /\ Spec => []FlagMeansTask
  BY Tasks, RoomIsFlag, PTL

\* queue_insert, whose result give_child_task does not look at, never fails.
THEOREM QueueNeverFull == QueuesFit /\ Spec => []QueueHasRoom
  <1> SUFFICES ASSUME QueuesFit PROVE Spec => []QueueHasRoom
    OBVIOUS
  <1>1. RoomInv => QueueHasRoom
    BY Room DEF RoomInv
  <1> QED
    BY Tasks, <1>1, PTL

----------------------------------------------------------------------------
(* What a client program in state s may have sent, q, that the server has   *)
(* not received.  A client may leave in any of these states, and what it    *)
(* has sent stays.                                                         *)

\* The server does nothing for the client: at most a command was sent, or a worker
\* has taken its beginning for the end of a file.
Fresh(s, q) ==
    \/ q = <<>> /\ s \in {"menu", "prompt", "gone"}
    \/ \E m \in AllCommands : q = <<m>> /\ s \in {"login", "await", "gone"}
    \/ q = <<"tail">> /\ s \in {"await", "gone"}

\* The server has the command and has not answered it.
Asking(s, q) == q = <<>> /\ s \in {"login", "await", "gone"}

\* The last message of a transfer, and the next command if there is one.
Last(x, s, q) ==
    \/ q = <<x>> /\ s \in {"prompt", "gone"}
    \/ \E m \in AllCommands : q = <<x, m>> /\ s \in {"await", "gone"}

\* The server waits for the size message of transfer o.
Sizing(o, s, q) ==
    \/ q = <<>> /\ s \in {o, "gone"}
    \/ Last("done", s, q)
    \/ o = "gets" /\ q = <<"more">> /\ s \in {"download", "gone"}
    \/ o = "puts" /\ q = <<"more">> /\ s \in {"upload", "gone"}
    \/ o = "puts" /\ q = <<"more", "body">> /\ s \in {"prompt", "gone"}
    \/ o = "puts" /\ \E m \in AllCommands : q = <<"more", "body", m>> /\ s \in {"await", "gone"}

\* A worker in state p has the task of command o.
Served(p, o, s, q) ==
    /\ p = "run"   => Asking(s, q)
    /\ p = "size"  => o \in Transfers /\ Sizing(o, s, q)
    /\ p = "send"  => q = <<>> /\ s \in {"download", "gone"}
    /\ p = "body"  => (q = <<>> /\ s \in {"upload", "gone"}) \/ Last("body", s, q)
    /\ p = "clear" => Fresh(s, q)

----------------------------------------------------------------------------
(* The inductive invariant *)

\* Where the task of client c is, if it has one.
QueuedTask(c) == \E k \in Kinds : \E i \in 1 .. Len(queue[k]) : queue[k][i].client = c
MainTask(c)   == mpc = "insert" /\ cur = c
HeldTask(c)   == \E w \in Workers : task[w].client = c

Phase(c) ==
    /\ QueuedTask(c) \/ MainTask(c) => Asking(cst[c], inbox[c])
    /\ \A w \in Workers :
          task[w].client = c => Served(wpc[w], task[w].order, cst[c], inbox[c])
    /\ QueuedTask(c) \/ MainTask(c) \/ HeldTask(c) \/ Fresh(cst[c], inbox[c])
    /\ Connected(c) \/ Queued(c) \/ (cst[c] = "gone" /\ inbox[c] = <<>>)

\* An event that main has not handled, or is handling, may be out of date, for a
\* worker has received its data; but not when it announced the request to log in.
EventOf(c) == Connected(c) /\ (fdOf[c] \in ev \/ (mpc = "recv" /\ cur = c))

Announced(c) ==
    EventOf(c) => cst[c] # "menu" /\ (cst[c] = "login" => inbox[c] # <<>>)

\* Events are of open connections, and main handles each once.
EventsOpen ==
    /\ \A f \in ev \cap Fds : \E c \in Clients : fdOf[c] = f
    /\ mpc \in {"first", "recv"} => fdOf[cur] \notin ev

TalkOK ==
    /\ Running => EventsOpen /\ \A c \in Clients : Phase(c) /\ Announced(c)
    /\ ~Running => \A c \in Clients : ~Connected(c)
    /\ mpc = "insert" => msg \in AllCommands

TalkInv == RoomInv /\ TalkOK

----------------------------------------------------------------------------
(* What can become of the bytes: facts about states and messages alone *)

LEMMA AppendToOne == \A a, b : Append(<<a>>, b) = <<a, b>>
<1> TAKE a, b
<1>1. Append(<<a>>, b) \in Seq({a, b}) /\ <<a, b>> \in Seq({a, b})
  OBVIOUS
<1>2. Len(Append(<<a>>, b)) = 2 /\ Append(<<a>>, b)[1] = a /\ Append(<<a>>, b)[2] = b
  OBVIOUS
<1>3. Len(<<a, b>>) = 2 /\ \A i \in 1 .. 2 : Append(<<a>>, b)[i] = <<a, b>>[i]
  BY <1>2
<1> QED BY <1>1, <1>2, <1>3, SeqEqual

LEMMA AppendToTwo == \A a, b, m : Append(<<a, b>>, m) = <<a, b, m>>
<1> TAKE a, b, m
<1>1. Append(<<a, b>>, m) \in Seq({a, b, m}) /\ <<a, b, m>> \in Seq({a, b, m})
  OBVIOUS
<1>2. /\ Len(Append(<<a, b>>, m)) = 3 /\ Append(<<a, b>>, m)[1] = a /\ Append(<<a, b>>, m)[2] = b
      /\ Append(<<a, b>>, m)[3] = m
  OBVIOUS
<1>3. Len(<<a, b, m>>) = 3 /\ \A i \in 1 .. 3 : Append(<<a, b>>, m)[i] = <<a, b, m>>[i]
  BY <1>2
<1> QED BY <1>1, <1>2, <1>3, SeqEqual

LEMMA ShortSeqs ==
    /\ \A a : <<a>> # <<>> /\ Head(<<a>>) = a /\ Tail(<<a>>) = <<>> /\ Len(<<a>>) = 1
              /\ Append(<<>>, a) = <<a>>
    /\ \A a, b : <<a, b>> # <<>> /\ Head(<<a, b>>) = a /\ Tail(<<a, b>>) = <<b>>
                 /\ Append(<<a>>, b) = <<a, b>>
    /\ \A a, b, m : <<a, b, m>> # <<>> /\ Head(<<a, b, m>>) = a /\ Tail(<<a, b, m>>) = <<b, m>>
                    /\ Append(<<a, b>>, m) = <<a, b, m>>
<1>1. \A a : <<a>> # <<>> /\ Head(<<a>>) = a /\ Tail(<<a>>) = <<>> /\ Len(<<a>>) = 1
              /\ Append(<<>>, a) = <<a>>
  OBVIOUS
<1>2. \A a, b : <<a, b>> # <<>> /\ Head(<<a, b>>) = a /\ Tail(<<a, b>>) = <<b>>
  OBVIOUS
<1>3. \A a, b, m : <<a, b, m>> # <<>> /\ Head(<<a, b, m>>) = a /\ Tail(<<a, b, m>>) = <<b, m>>
  OBVIOUS
<1> QED BY <1>1, <1>2, <1>3, AppendToOne, AppendToTwo

\* A client program moves from state s to t, and what it has sent from q to r.
Moves(s, q, t, r) ==
    \/ s = "menu" /\ t = "login" /\ r = Append(q, "shell")
    \/ s = "prompt" /\ t = "await" /\ \E m \in AllCommands : r = Append(q, m)
    \/ s \in Transfers /\ t = "prompt" /\ r = Append(q, "done")
    \/ s = "gets" /\ t = "download" /\ r = Append(q, "more")
    \/ s = "puts" /\ t = "upload" /\ r = Append(q, "more")
    \/ s = "upload" /\ t = "prompt" /\ r = Append(q, "body")
    \/ s # "gone" /\ t = "gone" /\ r = q

LEMMA FreshMoves ==
    ASSUME NEW s, NEW q, NEW t, NEW r, Fresh(s, q), Moves(s, q, t, r) PROVE Fresh(t, r)
  BY ShortSeqs DEF Fresh, Moves, AllCommands, Transfers

LEMMA AskingMoves ==
    ASSUME NEW s, NEW q, NEW t, NEW r, Asking(s, q), Moves(s, q, t, r) PROVE Asking(t, r)
  BY DEF Asking, Moves, Transfers

LEMMA SizingMoves ==
    ASSUME NEW o \in Transfers, NEW s, NEW q, NEW t, NEW r, Sizing(o, s, q), Moves(s, q, t, r)
    PROVE  Sizing(o, t, r)
<1>1. CASE q = <<>> /\ s \in {o, "gone"}
  BY <1>1, ShortSeqs DEF Sizing, Moves, Last, Transfers
<1>2. CASE Last("done", s, q)
  BY <1>2, ShortSeqs DEF Sizing, Moves, Last, Transfers
<1>3. CASE q = <<"more">> /\ \/ o = "gets" /\ s \in {"download", "gone"}
                             \/ o = "puts" /\ s \in {"upload", "gone"}
  BY <1>3, ShortSeqs DEF Sizing, Moves, Last, Transfers
<1>4. CASE o = "puts" /\ q = <<"more", "body">> /\ s \in {"prompt", "gone"}
  BY <1>4, ShortSeqs DEF Sizing, Moves, Last, Transfers
<1>5. CASE o = "puts" /\ \E m \in AllCommands : q = <<"more", "body", m>> /\ s \in {"await", "gone"}
  BY <1>5, ShortSeqs DEF Sizing, Moves, Last, Transfers
<1> QED BY <1>1, <1>2, <1>3, <1>4, <1>5 DEF Sizing

LEMMA ServedMoves ==
    ASSUME NEW p, NEW o, NEW s, NEW q, NEW t, NEW r, Served(p, o, s, q), Moves(s, q, t, r)
    PROVE  Served(p, o, t, r)
<1>1. CASE p = "run"
  BY <1>1, AskingMoves DEF Served
<1>2. CASE p = "size"
  BY <1>2, SizingMoves DEF Served
<1>3. CASE p = "send"
  BY <1>3 DEF Served, Moves, Transfers
<1>4. CASE p = "body"
  BY <1>4, ShortSeqs DEF Served, Moves, Last, Transfers
<1>5. CASE p = "clear"
  BY <1>5, FreshMoves DEF Served
<1> QED BY <1>1, <1>2, <1>3, <1>4, <1>5 DEF Served

\* What a worker receives in a transfer is the transfer's: the size, then the file.
\* What it leaves is at most the next command, or the end of it.
LEMMA SizeTaken ==
    ASSUME NEW o \in Transfers, NEW s, NEW q, Sizing(o, s, q), q # <<>>
    PROVE  /\ Head(q) # "tail" /\ s # "login"
           /\ Head(q) = "done" => Fresh(s, Tail(q))
           /\ Head(q) # "done" /\ o = "gets" => Tail(q) = <<>> /\ s \in {"download", "gone"}
           /\ Head(q) # "done" /\ o # "gets" =>
                (Tail(q) = <<>> /\ s \in {"upload", "gone"}) \/ Last("body", s, Tail(q))
<1>1. CASE Last("done", s, q)
  <2>1. CASE q = <<"done">> /\ s \in {"prompt", "gone"}
    BY <2>1, ShortSeqs DEF Fresh
  <2>2. ASSUME NEW m \in AllCommands, q = <<"done", m>>, s \in {"await", "gone"}
        PROVE  Head(q) = "done" /\ Tail(q) = <<m>> /\ Fresh(s, Tail(q))
    BY <2>2, ShortSeqs DEF Fresh
  <2> QED BY <1>1, <2>1, <2>2 DEF Last
<1>2. CASE q = <<"more">> /\ \/ o = "gets" /\ s \in {"download", "gone"}
                             \/ o = "puts" /\ s \in {"upload", "gone"}
  BY <1>2, ShortSeqs
<1>3. CASE o = "puts" /\ q = <<"more", "body">> /\ s \in {"prompt", "gone"}
  BY <1>3, ShortSeqs DEF Last
<1>4. CASE o = "puts" /\ \E m \in AllCommands : q = <<"more", "body", m>> /\ s \in {"await", "gone"}
  BY <1>4, ShortSeqs DEF Last
<1> QED BY <1>1, <1>2, <1>3, <1>4 DEF Sizing

LEMMA BodyTaken ==
    ASSUME NEW s, NEW q, (q = <<>> /\ s \in {"upload", "gone"}) \/ Last("body", s, q), q # <<>>
    PROVE  /\ Head(q) # "tail" /\ s # "login" /\ Fresh(s, Tail(q))
           /\ Len(q) > 1 => Fresh(s, <<"tail">>)
<1>1. CASE q = <<"body">> /\ s \in {"prompt", "gone"}
  BY <1>1, ShortSeqs DEF Fresh
<1>2. ASSUME NEW m \in AllCommands, q = <<"body", m>>, s \in {"await", "gone"}
      PROVE  Head(q) # "tail" /\ Fresh(s, Tail(q)) /\ Fresh(s, <<"tail">>)
  BY <1>2, ShortSeqs DEF Fresh
<1> QED BY <1>1, <1>2 DEF Last

\* main receives from a connection that has no task, and so a command.
LEMMA CommandTaken ==
    ASSUME NEW s, NEW q, Fresh(s, q), q # <<>>, Head(q) # "tail"
    PROVE  Head(q) \in AllCommands /\ Tail(q) = <<>> /\ Asking(s, <<>>)
  BY ShortSeqs DEF Fresh, Asking

----------------------------------------------------------------------------
(* Whose task it is *)

\* A task is known by its client as well as by its descriptor.
LEMMA TaskKeys ==
    ASSUME IInv, Running, NEW c \in Clients
    PROVE  /\ QueuedTask(c) => Connected(c) /\ fdOf[c] \in Fds /\ InQueue(fdOf[c])
           /\ HeldTask(c) => Connected(c) /\ fdOf[c] \in Fds /\ Held(fdOf[c])
           /\ MainTask(c) => Connected(c) /\ fdOf[c] \in Fds /\ MainHolds(fdOf[c])
<1> USE ServerConstants
<1>1. ASSUME QueuedTask(c) PROVE Connected(c) /\ fdOf[c] \in Fds /\ InQueue(fdOf[c])
  <2>0. PICK k \in Kinds : \E i \in 1 .. Len(queue[k]) : queue[k][i].client = c
    BY <1>1 DEF QueuedTask
  <2>1. PICK i \in 1 .. Len(queue[k]) : queue[k][i].client = c
    BY <2>0
  <2>2. queue[k] \in Seq(Task \cup {ExitTask})
    BY DEF IInv, TypeInv, TypeOK
  <2>3. queue[k][i] \in Task \cup {ExitTask} /\ queue[k][i] # ExitTask
    BY <2>1, <2>2 DEF ExitTask
  <2>4. queue[k][i].fd \in Fds /\ fdOf[c] = queue[k][i].fd
    BY <2>1, <2>3 DEF Task, IInv, DispatchOK, TaskKeepsItsClient
  <2>5. TaskAt(k, i, fdOf[c]) /\ i \in Nat
    BY <2>4 DEF TaskAt
  <2> QED BY <2>4, <2>5 DEF Connected, InQueue
<1>2. ASSUME HeldTask(c) PROVE Connected(c) /\ fdOf[c] \in Fds /\ Held(fdOf[c])
  <2>1. PICK w \in Workers : task[w].client = c
    BY <1>2 DEF HeldTask
  <2>2. task[w] \in Task /\ task[w] # NoTask
    BY <2>1 DEF IInv, TypeInv, TypeOK, NoTask
  <2>3. task[w].fd \in Fds /\ fdOf[c] = task[w].fd
    BY <2>1, <2>2 DEF Task, IInv, DispatchOK, TaskKeepsItsClient
  <2> QED BY <2>3 DEF Connected, Held
<1>3. ASSUME MainTask(c) PROVE Connected(c) /\ fdOf[c] \in Fds /\ MainHolds(fdOf[c])
  BY <1>3 DEF MainTask, MainHolds, IInv, TypeInv, ServedOK, Connected
<1> QED BY <1>1, <1>2, <1>3

\* A worker alone has the task, and the connection, of its client.
LEMMA Alone ==
    ASSUME IInv, Running, NEW w \in Workers, task[w] # NoTask
    PROVE  /\ task[w].client \in Clients /\ Connected(task[w].client) /\ Peer(w) = task[w].client
           /\ ~QueuedTask(task[w].client) /\ ~MainTask(task[w].client)
           /\ \A v \in Workers : task[v].client = task[w].client => v = w
<1> USE ServerConstants
<1>1. PICK c : c = task[w].client
  OBVIOUS
<1>2. task[w] \in Task
  BY DEF IInv, TypeInv, TypeOK
<1>3. c \in Clients /\ task[w].fd \in Fds /\ fdOf[c] = task[w].fd
  BY <1>1, <1>2 DEF Task, IInv, DispatchOK, TaskKeepsItsClient
<1>4. Connected(c)
  BY <1>3 DEF Connected
<1>5. Peer(w) = c
  <2>1. \A d \in Clients : fdOf[d] = task[w].fd => d = c
    BY <1>3, <1>4 DEF IInv, SocketsOK, Connected
  <2>2. (CHOOSE d \in Clients : fdOf[d] = task[w].fd) = c
    BY <1>3, <2>1
  <2> QED BY <1>3, <2>2 DEF Peer, PeerOf
<1>6. Held(fdOf[c])
  BY <1>3 DEF Held
<1>7. ~QueuedTask(c) /\ ~MainTask(c)
  BY <1>3, <1>6, TaskKeys DEF IInv, DispatchOK, OneTask
<1>8. ASSUME NEW v \in Workers, task[v].client = c PROVE v = w
  <2>1. task[v] # NoTask
    BY <1>3, <1>8 DEF NoTask
  <2>2. task[v].fd = fdOf[c]
    BY <1>8, <2>1 DEF IInv, DispatchOK, TaskKeepsItsClient
  <2> QED BY <1>3, <2>2 DEF IInv, DispatchOK, OneTask
<1> QED BY <1>1, <1>3, <1>4, <1>5, <1>7, <1>8

\* main serves a connection only while it has no task.
LEMMA CurFree ==
    ASSUME IInv, mpc \in {"first", "recv"}
    PROVE  cur \in Clients /\ Running /\ Connected(cur)
           /\ ~QueuedTask(cur) /\ ~HeldTask(cur) /\ ~MainTask(cur)
<1>1. cur \in Clients /\ fdOf[cur] \in Fds /\ Running /\ ~MainTask(cur)
  BY DEF IInv, TypeInv, ServedOK, Running, MainTask
<1>2. ~Busy(fdOf[cur])
  <2>1. CASE mpc = "recv"
    BY <1>1, <2>1 DEF IInv, DispatchOK, TaskMeansFlag
  <2>2. CASE mpc = "first"
    <3>1. \A c \in Clients : fdOf[c] = fdOf[cur] => c = cur
      BY <1>1, ServerConstants DEF IInv, SocketsOK, Connected
    <3>2. ~InTable(fdOf[cur])
      BY <1>1, <2>2, <3>1 DEF IInv, DispatchOK, SlotPerConnection
    <3> QED BY <3>2 DEF Busy, InTable
  <2> QED BY <2>1, <2>2
<1>3. ~InQueue(fdOf[cur]) /\ ~Held(fdOf[cur])
  BY <1>1, <1>2, NotBusy DEF IInv, DispatchOK
<1> QED BY <1>1, <1>3, TaskKeys, ServerConstants DEF Connected

----------------------------------------------------------------------------
(* Steps that leave the bytes of a client alone *)

TasksSame(c) ==
    /\ (QueuedTask(c) \/ MainTask(c))' <=> QueuedTask(c) \/ MainTask(c)
    /\ \A w \in Workers : task[w].client = c \/ task'[w].client = c =>
          task'[w] = task[w] /\ wpc'[w] = wpc[w]

BytesSame(c) ==
    /\ cst'[c] = cst[c] /\ inbox'[c] = inbox[c]
    /\ Connected(c) \/ Queued(c) => (Connected(c) \/ Queued(c))'

LEMMA PhaseSame ==
    ASSUME NEW c \in Clients, Phase(c), TasksSame(c), BytesSame(c) PROVE Phase(c)'
<1>1. (QueuedTask(c) \/ MainTask(c))' => Asking(cst[c], inbox[c])
  BY DEF Phase, TasksSame
<1>2. ASSUME NEW w \in Workers, task'[w].client = c
      PROVE  Served(wpc'[w], task'[w].order, cst[c], inbox[c])
  <2>1. task'[w] = task[w] /\ wpc'[w] = wpc[w]
    BY <1>2 DEF TasksSame
  <2> QED BY <1>2, <2>1 DEF Phase
<1>3. HeldTask(c)' <=> HeldTask(c)
  BY DEF HeldTask, TasksSame
<1>4. (QueuedTask(c) \/ MainTask(c))' \/ HeldTask(c)' \/ Fresh(cst[c], inbox[c])
  BY <1>3 DEF Phase, TasksSame
<1>5. (Connected(c) \/ Queued(c))' \/ (cst[c] = "gone" /\ inbox[c] = <<>>)
  BY DEF Phase, BytesSame
<1> QED BY <1>1, <1>2, <1>4, <1>5 DEF Phase, BytesSame

LEMMA AnnouncedSame ==
    ASSUME NEW c \in Clients, Announced(c), BytesSame(c), EventOf(c)' => EventOf(c)
    PROVE  Announced(c)'
  BY DEF Announced, BytesSame

\* Only a worker without a task changes its state.
LEMMA TasksFrame ==
    ASSUME TypeInv, UNCHANGED <<queue, task>>, NEW c \in Clients, MainTask(c)' <=> MainTask(c),
           \A w \in Workers : wpc'[w] = wpc[w] \/ task[w] = NoTask
    PROVE  TasksSame(c)
<1>1. QueuedTask(c)' <=> QueuedTask(c)
  BY DEF QueuedTask
<1>2. NoTask.client # c
  BY ServerConstants DEF NoTask
<1> QED BY <1>1, <1>2 DEF TasksSame

\* Nothing happens to any client, and main handles no event that was not there.
LEMMA FrameTalk ==
    ASSUME TalkInv, Running, Running', UNCHANGED <<cst, inbox, fdOf, backlog>>,
           \A c \in Clients : TasksSame(c),
           ev' \subseteq ev, mpc' \notin {"first", "recv"} \/ (mpc' = mpc /\ cur' = cur),
           mpc' = "insert" => mpc = "insert" /\ msg' = msg
    PROVE  TalkOK'
<1>1. EventsOpen'
  BY DEF TalkInv, TalkOK, EventsOpen
<1>2. ASSUME NEW c \in Clients PROVE Phase(c)' /\ Announced(c)'
  <2>1. BytesSame(c) /\ TasksSame(c) /\ Phase(c) /\ Announced(c)
    BY DEF BytesSame, Connected, Queued, TalkInv, TalkOK
  <2>2. EventOf(c)' => EventOf(c)
    BY DEF EventOf, Connected
  <2> QED BY <2>1, <2>2, PhaseSame, AnnouncedSame
<1> QED BY <1>1, <1>2 DEF TalkInv, TalkOK

\* One client is concerned.
LEMMA OneTalk ==
    ASSUME TalkInv, Running, Running', NEW c \in Clients, Phase(c)', Announced(c)', EventsOpen',
           \A d \in Clients \ {c} : TasksSame(d) /\ BytesSame(d) /\ (EventOf(d)' => EventOf(d)),
           mpc' = "insert" => msg' \in AllCommands
    PROVE  TalkOK'
<1>1. ASSUME NEW d \in Clients \ {c} PROVE Phase(d)' /\ Announced(d)'
  BY PhaseSame, AnnouncedSame DEF TalkInv, TalkOK
<1> QED BY <1>1 DEF TalkOK

\* The end of the process leaves nobody to talk to.
LEMMA EndTalk ==
    ASSUME NEW how \in {"done", "killed"}, EndProcess(how) PROVE TalkOK'
  BY ServerConstants DEF EndProcess, TalkOK, Running, Connected

----------------------------------------------------------------------------
(* The client programs *)

LEMMA ClientMoves ==
    ASSUME TypeInv, NEW c \in Clients,
           Login(c) \/ Command(c) \/ Leave(c) \/ Transfer(c)
    PROVE  /\ Moves(cst[c], inbox[c], cst'[c], inbox'[c])
           /\ \A d \in Clients \ {c} : cst'[d] = cst[d] /\ inbox'[d] = inbox[d]
           /\ UNCHANGED <<fdOf, backlog, queue, task, wpc, mpc, ev, cur, msg>>
<1>0. cst \in [Clients -> ClientStates] /\ inbox \in [Clients -> Seq(Messages)] /\ c # NoClient
  BY ServerConstants DEF TypeInv, TypeOK
<1> USE <1>0 DEF Moves, ToServer, workerVars, mainVars, kernelVars
<1>1. CASE Login(c)
  BY <1>1 DEF Login
<1>2. CASE Command(c)
  <2>1. PICK m \in AllCommands : ToServer(c, m)
    BY <1>2, ServerConstants DEF Command
  <2> QED BY <1>2, <2>1 DEF Command
<1>3. CASE Leave(c)
  BY <1>3 DEF Leave, Hungup
<1>4. CASE AskDownload(c)
  <2>1. cst[c] = "gets" /\ \/ ToServer(c, "done") /\ cst' = [cst EXCEPT ![c] = "prompt"]
                           \/ ToServer(c, "more") /\ cst' = [cst EXCEPT ![c] = "download"]
    BY <1>4 DEF AskDownload
  <2> QED BY <1>4, <2>1 DEF AskDownload, Transfers
<1>5. CASE OfferUpload(c)
  <2>1. cst[c] = "puts" /\ \/ ToServer(c, "done") /\ cst' = [cst EXCEPT ![c] = "prompt"]
                           \/ ToServer(c, "more") /\ cst' = [cst EXCEPT ![c] = "upload"]
    BY <1>5 DEF OfferUpload
  <2> QED BY <1>5, <2>1 DEF OfferUpload, Transfers
<1>6. CASE Upload(c)
  BY <1>6 DEF Upload
<1> QED BY <1>1, <1>2, <1>3, <1>4, <1>5, <1>6 DEF Transfer

LEMMA ClientTalk ==
    ASSUME TalkInv, Running, NEW c \in Clients, Login(c) \/ Command(c) \/ Leave(c) \/ Transfer(c)
    PROVE  TalkOK'
<1>1. TypeInv /\ Phase(c) /\ Announced(c) /\ EventsOpen /\ (mpc = "insert" => msg \in AllCommands)
  BY DEF TalkInv, RoomInv, IInv, TalkOK
<1>2. /\ Moves(cst[c], inbox[c], cst'[c], inbox'[c])
      /\ \A d \in Clients \ {c} : cst'[d] = cst[d] /\ inbox'[d] = inbox[d]
      /\ UNCHANGED <<fdOf, backlog, queue, task, wpc, mpc, ev, cur, msg>>
  BY <1>1, ClientMoves
<1>3. \A d \in Clients : TasksSame(d) /\ (EventOf(d)' <=> EventOf(d))
  BY <1>1, <1>2, TasksFrame DEF MainTask, EventOf, Connected
<1>4. \A d \in Clients \ {c} : BytesSame(d)
  BY <1>2 DEF BytesSame, Connected, Queued
<1>5. Phase(c)'
  <2>1. (QueuedTask(c) \/ MainTask(c))' => Asking(cst'[c], inbox'[c])
    BY <1>1, <1>2, <1>3, AskingMoves DEF Phase, TasksSame
  <2>2. ASSUME NEW w \in Workers, task'[w].client = c
        PROVE  Served(wpc'[w], task'[w].order, cst'[c], inbox'[c])
    BY <1>1, <1>2, <2>2, ServedMoves DEF Phase
  <2>3. (QueuedTask(c) \/ MainTask(c) \/ HeldTask(c))' \/ Fresh(cst'[c], inbox'[c])
    BY <1>1, <1>2, <1>3, FreshMoves DEF Phase, TasksSame, HeldTask
  <2>4. (Connected(c) \/ Queued(c))'
    BY <1>1, <1>2 DEF Phase, Connected, Queued, Moves, Transfers
  <2> QED BY <2>1, <2>2, <2>3, <2>4 DEF Phase
<1>6. Announced(c)'
  BY <1>1, <1>2, <1>3 DEF Announced, Moves, Transfers
<1>7. EventsOpen' /\ Running'
  BY <1>1, <1>2 DEF EventsOpen, Running
<1> QED BY <1>1, <1>2, <1>3, <1>4, <1>5, <1>6, <1>7, OneTalk

\* A program that connects starts with nothing sent.
LEMMA ConnectTalk == ASSUME TalkInv, NEW c \in Clients, Connect(c) PROVE TalkOK'
<1>1. /\ Running /\ IInv /\ TypeInv /\ Phase(c) /\ EventsOpen /\ (mpc = "insert" => msg \in AllCommands)
      /\ backlog \in Seq(Clients) /\ cst \in [Clients -> ClientStates]
  BY DEF TalkInv, RoomInv, IInv, TalkOK, Connect, Listening, Running, TypeInv, TypeOK
<1>2. /\ ~Connected(c) /\ ~Queued(c) /\ cst' = [cst EXCEPT ![c] = "menu"] /\ backlog' = Append(backlog, c)
      /\ UNCHANGED <<fdOf, inbox, queue, task, wpc, mpc, ev, cur, msg>>
  BY DEF Connect, workerVars, mainVars
<1>3. \A d \in Clients : TasksSame(d) /\ (EventOf(d)' <=> EventOf(d))
  BY <1>1, <1>2, TasksFrame DEF MainTask, EventOf, Connected
<1>4. Queued(c)' /\ \A d \in Clients : Queued(d) => Queued(d)'
  <2>1. /\ Len(backlog') = Len(backlog) + 1 /\ backlog'[Len(backlog) + 1] = c /\ Len(backlog) \in Nat
        /\ \A i \in 1 .. Len(backlog) : backlog'[i] = backlog[i]
    BY <1>1, <1>2
  <2>2. Len(backlog) + 1 \in 1 .. Len(backlog') /\ \A i \in 1 .. Len(backlog) : i \in 1 .. Len(backlog')
    BY <2>1
  <2> QED BY <2>1, <2>2 DEF Queued
<1>5. \A d \in Clients \ {c} : BytesSame(d)
  BY <1>1, <1>2, <1>4 DEF BytesSame, Connected
<1>6. ~QueuedTask(c) /\ ~HeldTask(c) /\ ~MainTask(c)
  BY <1>1, <1>2, TaskKeys
<1>7. Phase(c)'
  <2>1. inbox'[c] = <<>> /\ cst'[c] = "menu"
    BY <1>1, <1>2 DEF Phase
  <2>2. ~(QueuedTask(c) \/ MainTask(c))' /\ \A w \in Workers : task'[w].client # c
    BY <1>2, <1>3, <1>6 DEF TasksSame, HeldTask
  <2>3. Fresh(cst'[c], inbox'[c])
    BY <2>1 DEF Fresh
  <2> QED BY <1>4, <2>2, <2>3 DEF Phase
<1>8. Announced(c)'
  BY <1>2 DEF Announced, EventOf, Connected
<1>9. EventsOpen' /\ Running'
  BY <1>1, <1>2 DEF EventsOpen, Running
<1> QED BY <1>1, <1>2, <1>3, <1>5, <1>7, <1>8, <1>9, OneTalk

----------------------------------------------------------------------------
(* main opens, serves and closes connections *)

\* A client asked to log in has nothing in its socket, so epoll reports it only after
\* it has sent its request.
LEMMA EpollTalk == ASSUME TalkInv, EpollWait PROVE TalkOK'
<1>1. /\ Running /\ IInv /\ TypeInv /\ ev' = Ready /\ mpc = "events"
      /\ UNCHANGED <<cst, inbox, fdOf, backlog, queue, task, wpc, mpc, cur, msg>>
  BY DEF TalkInv, RoomInv, IInv, EpollWait, Running, clientVars, kernelVars, workerVars
<1>2. ASSUME NEW c \in Clients PROVE Phase(c)' /\ Announced(c)'
  <2>1. Phase(c) /\ TasksSame(c) /\ BytesSame(c)
    BY <1>1, TasksFrame DEF TalkInv, TalkOK, MainTask, BytesSame, Connected, Queued
  <2>2. ASSUME Connected(c), fdOf[c] \in Ready PROVE inbox[c] # <<>> \/ cst[c] = "gone"
    <3>1. fdOf[c] \in Fds
      BY <1>1, <2>2 DEF Connected, TypeInv, TypeOK
    <3>2. PICK d \in Clients : fdOf[d] = fdOf[c] /\ Connected(d) /\ (inbox[d] # <<>> \/ Hungup(d))
      BY <2>2, <3>1, ServerConstants DEF Ready
    <3> QED BY <1>1, <3>2, ServerConstants DEF IInv, SocketsOK, Hungup
  <2>3. ASSUME cst[c] = "menu" PROVE inbox[c] = <<>>
    <3>1. CASE Fresh(cst[c], inbox[c])
      BY <2>3, <3>1 DEF Fresh
    <3>2. CASE QueuedTask(c) \/ MainTask(c)
      BY <2>1, <2>3, <3>2 DEF Phase, Asking
    <3>3. ASSUME NEW w \in Workers, task[w].client = c PROVE inbox[c] = <<>>
      <4>1. Served(wpc[w], task[w].order, cst[c], inbox[c]) /\ wpc[w] \in WorkerStates \ IdleStates
        BY <1>1, <2>1, <3>3, ServerConstants DEF Phase, TypeInv, TypeOK, NoTask
      <4>2. wpc[w] \in {"run", "size", "send", "body", "clear"}
        BY <4>1 DEF WorkerStates, IdleStates
      <4> QED BY <2>3, <4>1, <4>2 DEF Served, Asking, Sizing, Last, Fresh, Transfers
    <3> QED BY <2>1, <3>1, <3>2, <3>3 DEF Phase, HeldTask
  <2>4. Announced(c)'
    BY <1>1, <2>2, <2>3 DEF Announced, EventOf, Connected
  <2> QED BY <2>1, <2>4, PhaseSame
<1>3. EventsOpen'
  BY <1>1, ServerConstants DEF EventsOpen, Ready
<1> QED BY <1>1, <1>2, <1>3 DEF TalkOK, Running

\* The new descriptor is in no event.
LEMMA AcceptTalk == ASSUME TalkInv, Accept PROVE TalkOK'
<1> DEFINE h == Head(backlog)
<1>1. PICK f \in FreeFds : fdOf' = [fdOf EXCEPT ![h] = f]
  BY DEF Accept
<1>2. /\ Running /\ IInv /\ TypeInv /\ EventsOpen /\ mpc = "events" /\ mpc' = "first" /\ cur' = h
      /\ backlog' = Tail(backlog) /\ ev' = ev \ {SocketFd} /\ backlog # <<>>
      /\ UNCHANGED <<cst, inbox, queue, task, wpc, msg>>
  BY DEF TalkInv, RoomInv, IInv, TalkOK, Accept, Running, clientVars, workerVars
<1>3. /\ backlog \in Seq(Clients) /\ fdOf \in [Clients -> Fds \cup {NoFd}] /\ h \in Clients
      /\ f \in Fds /\ \A c \in Clients : fdOf[c] # f
  BY <1>2 DEF TypeInv, TypeOK, FreeFds
<1>4. fdOf[h] = NoFd /\ fdOf'[h] = f /\ \A d \in Clients \ {h} : fdOf'[d] = fdOf[d]
  <2>1. 1 \in 1 .. Len(backlog) /\ backlog[1] = h
    BY <1>2, <1>3
  <2> QED BY <1>1, <1>2, <1>3, <2>1 DEF IInv, SocketsOK, Connected
<1>5. ASSUME NEW d \in Clients, d # h, Queued(d) PROVE Queued(d)'
  <2>1. PICK i \in 1 .. Len(backlog) : backlog[i] = d
    BY <1>5 DEF Queued
  <2>2. i # 1
    BY <1>2, <1>3, <1>5, <2>1
  <2>3. i - 1 \in 1 .. Len(backlog') /\ backlog'[i - 1] = d
    BY <1>2, <1>3, <2>1, <2>2
  <2> QED BY <2>3 DEF Queued
<1> HIDE DEF h
<1>6. \A d \in Clients : TasksSame(d) /\ BytesSame(d)
  BY <1>2, <1>3, <1>4, <1>5, TasksFrame, ServerConstants DEF MainTask, BytesSame, Connected
<1>7. f \notin ev
  BY <1>2, <1>3 DEF EventsOpen
<1>8. \A d \in Clients : EventOf(d)' => EventOf(d)
  BY <1>2, <1>4, <1>7 DEF EventOf, Connected
<1>9. EventsOpen'
  <2>1. ASSUME NEW g \in ev' \cap Fds PROVE \E c \in Clients : fdOf'[c] = g
    <3>1. PICK c \in Clients : fdOf[c] = g
      BY <1>2, <2>1 DEF EventsOpen
    <3> QED BY <1>4, <3>1, ServerConstants
  <2> QED BY <1>2, <1>4, <1>7, <2>1 DEF EventsOpen
<1>10. \A c \in Clients : Phase(c)' /\ Announced(c)'
  BY <1>2, <1>6, <1>8, PhaseSame, AnnouncedSame DEF TalkInv, TalkOK
<1> QED BY <1>2, <1>9, <1>10 DEF TalkOK, Running

LEMMA RecvTalk == ASSUME TalkInv, RecvFirst \/ RecvCommand PROVE TalkOK'
<1>1. /\ mpc \in {"first", "recv"} /\ CanRecv(cur) /\ mpc' = "insert" /\ msg' = Head(inbox[cur])
      /\ inbox' = [inbox EXCEPT ![cur] = Tail(@)]
      /\ UNCHANGED <<cst, fdOf, backlog, queue, task, wpc, ev, cur>>
  BY DEF RecvFirst, RecvCommand, RecvInto, clientVars, workerVars
<1>2. IInv /\ TypeInv /\ inbox \in [Clients -> Seq(Messages)] /\ Running /\ EventsOpen
  BY <1>1 DEF TalkInv, RoomInv, IInv, TypeInv, TypeOK, TalkOK, Running
<1>3. PICK c \in Clients : c = cur
  BY <1>1, <1>2, CurFree
<1>4. Connected(c) /\ ~QueuedTask(c) /\ ~HeldTask(c) /\ ~MainTask(c)
  BY <1>1, <1>2, <1>3, CurFree
<1>5. Fresh(cst[c], inbox[c])
  BY <1>2, <1>4 DEF TalkInv, TalkOK, Phase
<1>6. inbox[c] # <<>> /\ Head(inbox[c]) # "tail"
  BY <1>1, <1>3 DEF CanRecv
<1>7. msg' \in AllCommands /\ inbox'[c] = <<>> /\ Asking(cst[c], <<>>)
  BY <1>1, <1>2, <1>3, <1>5, <1>6, CommandTaken
<1>8. Phase(c)'
  <2>1. MainTask(c)' /\ Connected(c)' /\ \A w \in Workers : task'[w].client # c
    BY <1>1, <1>3, <1>4 DEF MainTask, Connected, HeldTask
  <2> QED BY <1>1, <1>7, <2>1 DEF Phase
<1>9. Announced(c)'
  BY <1>1, <1>2, <1>3 DEF Announced, EventOf, EventsOpen
<1>10. \A d \in Clients \ {c} : TasksSame(d) /\ BytesSame(d) /\ (EventOf(d)' => EventOf(d))
  BY <1>1, <1>2, <1>3, TasksFrame DEF MainTask, BytesSame, Connected, Queued, EventOf
<1>11. EventsOpen' /\ Running'
  BY <1>1, <1>2 DEF EventsOpen, Running
<1> QED BY <1>1, <1>2, <1>7, <1>8, <1>9, <1>10, <1>11, OneTalk

\* A connection is closed when all was received and its client is gone.
LEMMA CloseTalk == ASSUME TalkInv, FirstEof \/ Disconnect PROVE TalkOK'
<1>1. /\ mpc \in {"first", "recv"} /\ AtEof(cur) /\ mpc' = "events"
      /\ CloseFd(cur)
      /\ UNCHANGED <<cst, backlog, queue, task, wpc, ev>>
  BY DEF FirstEof, Disconnect, NextEvent, clientVars, workerVars
<1>2. /\ IInv /\ TypeInv /\ inbox \in [Clients -> Seq(Messages)] /\ fdOf \in [Clients -> Fds \cup {NoFd}]
      /\ Running /\ EventsOpen
  BY <1>1 DEF TalkInv, RoomInv, IInv, TypeInv, TypeOK, TalkOK, Running
<1>3. PICK c \in Clients : c = cur
  BY <1>1, <1>2, CurFree
<1>4. Connected(c) /\ ~QueuedTask(c) /\ ~HeldTask(c) /\ ~MainTask(c)
  BY <1>1, <1>2, <1>3, CurFree
<1>5. /\ inbox'[c] = <<>> /\ cst[c] = "gone" /\ fdOf'[c] = NoFd
      /\ \A d \in Clients \ {c} : inbox'[d] = inbox[d] /\ fdOf'[d] = fdOf[d]
  BY <1>1, <1>2, <1>3, ServerConstants DEF CloseFd, AtEof, Hungup
<1>6. \A d \in Clients : TasksSame(d)
  <2>1. \A d \in Clients : ~MainTask(d) /\ ~MainTask(d)'
    BY <1>1 DEF MainTask
  <2> QED BY <1>1, <1>2, <2>1, TasksFrame
<1>7. Phase(c)'
  <2>1. ~(QueuedTask(c) \/ MainTask(c))' /\ \A w \in Workers : task'[w].client # c
    BY <1>1, <1>4, <1>6 DEF TasksSame, HeldTask
  <2>2. Fresh(cst'[c], inbox'[c])
    BY <1>1, <1>5 DEF Fresh
  <2> QED BY <1>1, <1>5, <2>1, <2>2 DEF Phase
<1>8. Announced(c)'
  BY <1>5 DEF Announced, EventOf, Connected
<1>9. \A d \in Clients \ {c} : BytesSame(d) /\ (EventOf(d)' => EventOf(d))
  BY <1>1, <1>5 DEF BytesSame, Connected, Queued, EventOf
<1>10. EventsOpen' /\ Running'
  <2>1. ASSUME NEW g \in ev \cap Fds PROVE \E d \in Clients : fdOf'[d] = g
    <3>1. PICK d \in Clients : fdOf[d] = g
      BY <1>2 DEF EventsOpen
    <3>2. d # c
      BY <1>1, <1>2, <1>3, <3>1 DEF EventsOpen
    <3> QED BY <1>5, <3>1, <3>2
  <2> QED BY <1>1, <2>1 DEF EventsOpen, Running
<1> QED BY <1>1, <1>2, <1>6, <1>7, <1>8, <1>9, <1>10, OneTalk

LEMMA ServeTalk == ASSUME TalkInv, ServeClient PROVE TalkOK'
<1>1. PICK c \in Clients : fdOf[c] \in ev \cap Fds /\ ev' = ev \ {fdOf[c]} /\ cur' = c
  BY DEF ServeClient
<1>2. /\ mpc = "events" /\ mpc' = "recv" /\ IInv /\ TypeInv /\ Running /\ EventsOpen
      /\ UNCHANGED <<cst, inbox, fdOf, backlog, queue, task, wpc>>
  BY DEF ServeClient, TalkInv, RoomInv, IInv, TalkOK, Running, clientVars, kernelVars, workerVars
<1>3. \A d \in Clients : TasksSame(d) /\ BytesSame(d)
  BY <1>2, TasksFrame DEF MainTask, BytesSame, Connected, Queued
<1>4. \A d \in Clients : EventOf(d)' => EventOf(d)
  BY <1>1, <1>2 DEF EventOf, Connected
<1>5. EventsOpen'
  BY <1>1, <1>2 DEF EventsOpen
<1>6. \A d \in Clients : Phase(d)' /\ Announced(d)'
  BY <1>2, <1>3, <1>4, PhaseSame, AnnouncedSame DEF TalkInv, TalkOK
<1> QED BY <1>2, <1>5, <1>6 DEF TalkOK, Running

\* The task goes from main's hands into the queue, which has room for it.
LEMMA GiveTalk == ASSUME QueuesFit, TalkInv, GiveChildTask PROVE TalkOK'
<1> DEFINE k == KindOf(msg)
           node == [fd |-> fdOf[cur], order |-> msg, client |-> cur]
<1>1. /\ mpc = "insert" /\ mpc' = "signal" /\ IInv /\ TypeInv /\ Running /\ Running'
      /\ k \in Kinds /\ queue \in [Kinds -> Seq(Task \cup {ExitTask})]
      /\ UNCHANGED <<cst, inbox, fdOf, backlog, task, wpc, ev, cur>>
  BY DEF GiveChildTask, TalkInv, RoomInv, IInv, TypeInv, TypeOK, Running, KindOf, Kinds,
         clientVars, kernelVars, workerVars
<1>2. queue' = [queue EXCEPT ![k] = Append(@, node)]
  <2>1. Len(queue[k]) < QueueCapacity
    BY <1>1, Room DEF TalkInv, RoomInv, QueueHasRoom
  <2>2. Len(queue[k]) # QueueCapacity
    BY <1>1, <2>1, ServerConstants
  <2> QED BY <2>2 DEF GiveChildTask, QueueInsert
<1>3. PICK q : q = queue[k]
  OBVIOUS
<1>4. /\ q \in Seq(Task \cup {ExitTask}) /\ Len(q) \in Nat
      /\ queue'[k] = Append(q, node) /\ \A j \in Kinds \ {k} : queue'[j] = queue[j]
  BY <1>1, <1>2, <1>3
<1>5. PICK c : c = cur
  OBVIOUS
<1>6. Len(queue'[k]) = Len(q) + 1 /\ queue'[k][Len(q) + 1].client = c
      /\ \A i \in 1 .. Len(q) : queue'[k][i] = q[i]
  BY <1>4, <1>5
<1>7. ASSUME NEW d \in Clients PROVE QueuedTask(d)' <=> QueuedTask(d) \/ d = c
  <2>1. ASSUME NEW j \in Kinds, NEW i \in 1 .. Len(queue[j]), queue[j][i].client = d
        PROVE  QueuedTask(d)'
    <3>1. i \in 1 .. Len(queue'[j]) /\ queue'[j][i] = queue[j][i]
      BY <1>3, <1>4, <1>6
    <3> QED BY <2>1, <3>1 DEF QueuedTask
  <2>2. ASSUME d = c PROVE QueuedTask(d)'
    <3>1. Len(q) + 1 \in 1 .. Len(queue'[k])
      BY <1>4, <1>6
    <3> QED BY <1>1, <1>6, <2>2, <3>1 DEF QueuedTask
  <2>3. ASSUME NEW j \in Kinds, NEW i \in 1 .. Len(queue'[j]), queue'[j][i].client = d, d # c
        PROVE  QueuedTask(d)
    <3>1. CASE j # k
      BY <1>4, <2>3, <3>1 DEF QueuedTask
    <3>2. CASE j = k
      <4>1. i # Len(q) + 1 /\ i \in 1 .. Len(q) + 1
        BY <1>6, <2>3, <3>2
      <4>2. i \in 1 .. Len(q)
        BY <1>4, <4>1
      <4> QED BY <1>1, <1>3, <1>6, <2>3, <3>2, <4>2 DEF QueuedTask
    <3> QED BY <3>1, <3>2
  <2> QED BY <2>1, <2>2, <2>3 DEF QueuedTask
<1>8. \A d \in Clients : TasksSame(d)
  BY <1>1, <1>5, <1>7 DEF TasksSame, MainTask
<1> QED BY <1>1, <1>8, FrameTalk

\* A queue that gets an exit node at its head, or loses one, has the same tasks.
LEMMA QueueShift ==
    ASSUME NEW s, NEW t, NEW S, s \in Seq(S), t \in Seq(S), s # <<>>, t = Tail(s), NEW c
    PROVE  (\E i \in 1 .. Len(s) : s[i].client = c)
             <=> Head(s).client = c \/ \E i \in 1 .. Len(t) : t[i].client = c
<1>1. Len(s) \in Nat \ {0} /\ Len(t) = Len(s) - 1 /\ Head(s) = s[1] /\ \A i \in 1 .. Len(t) : t[i] = s[i + 1]
  OBVIOUS
<1>2. \A i \in 1 .. Len(s) : i = 1 \/ i - 1 \in 1 .. Len(t)
  BY <1>1
<1>3. \A i \in 1 .. Len(s) : i # 1 => s[i] = t[i - 1]
  BY <1>1, <1>2
<1>4. \A i \in 1 .. Len(t) : i + 1 \in 1 .. Len(s)
  BY <1>1
<1>5. 1 \in 1 .. Len(s)
  BY <1>1
<1> QED BY <1>1, <1>2, <1>3, <1>4, <1>5

\* The connections never accepted are reset; they have no task.
LEMMA BeginExitTalk == ASSUME TalkInv, BeginExit PROVE TalkOK'
<1>1. /\ mpc = "events" /\ mpc' = "exitIO" /\ ev' \subseteq ev /\ IInv /\ TypeInv /\ Running /\ EventsOpen
      /\ UNCHANGED <<fdOf, queue, task, wpc, cur, msg>>
  BY DEF BeginExit, TalkInv, RoomInv, IInv, TalkOK, Running, workerVars
<1>2. \A c \in Clients : TasksSame(c)
  BY <1>1, TasksFrame DEF MainTask
<1>3. \A c \in Clients : EventOf(c)' => EventOf(c)
  BY <1>1 DEF EventOf, Connected
<1>4. ASSUME NEW c \in Clients, ~Queued(c) PROVE Phase(c)' /\ Announced(c)'
  <2>1. BytesSame(c)
    BY <1>1, <1>4 DEF BeginExit, BytesSame, Connected, Queued
  <2> QED BY <1>2, <1>3, <2>1, PhaseSame, AnnouncedSame, <1>1 DEF TalkInv, TalkOK
<1>5. ASSUME NEW c \in Clients, Queued(c) PROVE Phase(c)' /\ Announced(c)'
  <2>1. cst'[c] = "gone" /\ inbox'[c] = <<>>
    BY <1>5 DEF BeginExit
  <2>2. ~Connected(c)
    BY <1>1, <1>5 DEF IInv, SocketsOK, Queued
  <2>3. ~QueuedTask(c) /\ ~HeldTask(c) /\ ~MainTask(c)
    BY <1>1, <2>2, TaskKeys
  <2>4. ~(QueuedTask(c) \/ MainTask(c))' /\ \A w \in Workers : task'[w].client # c
    BY <1>1, <1>2, <2>3 DEF TasksSame, HeldTask
  <2>5. Fresh(cst'[c], inbox'[c])
    BY <2>1 DEF Fresh
  <2> QED BY <2>1, <2>4, <2>5 DEF Phase, Announced
<1>6. EventsOpen'
  BY <1>1 DEF EventsOpen
<1> QED BY <1>1, <1>4, <1>5, <1>6 DEF TalkOK, Running

LEMMA InsertExitTalk ==
    ASSUME TalkInv, NEW k \in Kinds, NEW from \in {"exitIO", "exitShell"},
           NEW next \in {"castIO", "castShell"}, InsertExit(k, from, next)
    PROVE  TalkOK'
<1>1. /\ mpc = from /\ mpc' = next /\ IInv /\ TypeInv /\ Running /\ Running'
      /\ queue' = [queue EXCEPT ![k] = <<ExitTask>> \o @]
      /\ queue \in [Kinds -> Seq(Task \cup {ExitTask})]
      /\ UNCHANGED <<cst, inbox, fdOf, backlog, task, wpc, ev, cur, msg>>
  BY DEF InsertExit, TalkInv, RoomInv, IInv, TypeInv, TypeOK, Running, clientVars, kernelVars, workerVars
<1>2. /\ queue'[k] = <<ExitTask>> \o queue[k] /\ queue[k] \in Seq(Task \cup {ExitTask})
      /\ \A j \in Kinds \ {k} : queue'[j] = queue[j]
  BY <1>1
<1>3. PICK q \in Seq(Task \cup {ExitTask}) : q = queue[k]
  BY <1>2
<1>4. PICK r \in Seq(Task \cup {ExitTask}) : r = <<ExitTask>> \o q
  <2>1. <<ExitTask>> \in Seq(Task \cup {ExitTask})
    OBVIOUS
  <2>2. <<ExitTask>> \o q \in Seq(Task \cup {ExitTask})
    BY <2>1
  <2> QED BY <2>2
<1>5. r # <<>> /\ q = Tail(r) /\ Head(r) = ExitTask
  <2>1. Len(r) = Len(q) + 1 /\ r[1] = ExitTask /\ \A i \in 1 .. Len(q) : r[i + 1] = q[i]
    BY <1>4
  <2>2. Tail(r) \in Seq(Task \cup {ExitTask}) /\ Len(Tail(r)) = Len(q)
        /\ \A i \in 1 .. Len(q) : Tail(r)[i] = q[i]
    BY <2>1
  <2>3. Tail(r) = q
    BY <2>2, SeqEqual
  <2> QED BY <2>1, <2>3
<1>6. ASSUME NEW c \in Clients PROVE TasksSame(c)
  <2>1. ExitTask.client # c
    BY ServerConstants DEF ExitTask
  <2>2. \A j \in Kinds : (\E i \in 1 .. Len(queue'[j]) : queue'[j][i].client = c)
                           <=> \E i \in 1 .. Len(queue[j]) : queue[j][i].client = c
    <3>1. (\E i \in 1 .. Len(r) : r[i].client = c) <=> \E i \in 1 .. Len(q) : q[i].client = c
      BY <1>5, <2>1, QueueShift
    <3> QED BY <1>2, <1>3, <1>4, <3>1
  <2>3. QueuedTask(c)' <=> QueuedTask(c)
    BY <2>2 DEF QueuedTask
  <2> QED BY <1>1, <2>3 DEF TasksSame, MainTask
<1> QED BY <1>1, <1>6, FrameTalk

\* Steps of main that hand nothing over.
LEMMA MainFrameTalk ==
    ASSUME TalkInv,
           \/ AcceptFails \/ SkipBusy \/ Sigint \/ SignalWorker
           \/ \E k \in Kinds : BroadcastExit(k, "castIO", "exitShell") \/ BroadcastExit(k, "castShell", "join")
    PROVE  TalkOK'
<1>1. /\ Running /\ Running' /\ UNCHANGED <<cst, inbox, fdOf, backlog, queue, task>> /\ ev' \subseteq ev
      /\ mpc' \notin {"first", "recv"} \/ (mpc' = mpc /\ cur' = cur)
      /\ mpc' = "insert" => mpc = "insert" /\ msg' = msg /\ cur' = cur
      /\ mpc = "insert" => mpc' = "insert"
  BY DEF AcceptFails, SkipBusy, Sigint, SignalWorker, BroadcastExit, NextEvent, Listening, Running,
         clientVars, kernelVars, workerVars, mainVars
<1>2. TypeInv
  BY DEF TalkInv, RoomInv, IInv
<1>3. ASSUME NEW w \in Workers PROVE wpc'[w] = wpc[w] \/ task[w] = NoTask
  <2>1. wpc'[w] = wpc[w] \/ wpc[w] = "waiting"
    <3>1. wpc \in [Workers -> WorkerStates]
      BY <1>2 DEF TypeInv, TypeOK
    <3>2. CASE AcceptFails \/ SkipBusy \/ Sigint
      BY <3>2 DEF AcceptFails, SkipBusy, Sigint, workerVars
    <3>3. CASE SignalWorker
      BY <3>1, <3>3 DEF SignalWorker, CondSignal, Waiting
    <3>4. ASSUME NEW k \in Kinds,
                 BroadcastExit(k, "castIO", "exitShell") \/ BroadcastExit(k, "castShell", "join")
          PROVE  wpc'[w] = wpc[w] \/ wpc[w] = "waiting"
      BY <3>4 DEF BroadcastExit, CondBroadcast, Waiting
    <3> QED BY <3>2, <3>3, <3>4
  <2> QED BY <1>2, <2>1 DEF TypeInv, TypeOK, IdleStates
<1>4. \A c \in Clients : TasksSame(c)
  BY <1>1, <1>2, <1>3, TasksFrame DEF MainTask
<1> QED BY <1>1, <1>4, FrameTalk

----------------------------------------------------------------------------
(* The workers *)

LEMMA IdleTalk ==
    ASSUME TalkInv, NEW w \in Workers, CondWait(w) \/ SpuriousWake(w) \/ PopNull(w) PROVE TalkOK'
<1>1. /\ Running /\ Running' /\ UNCHANGED <<cst, inbox, fdOf, backlog, queue, task, mpc, ev, cur, msg>>
      /\ TypeInv
  BY DEF CondWait, SpuriousWake, PopNull, At, Running, TalkInv, RoomInv, IInv,
         clientVars, kernelVars, mainVars
<1>2. ASSUME NEW v \in Workers PROVE wpc'[v] = wpc[v] \/ task[v] = NoTask
  BY <1>1 DEF CondWait, SpuriousWake, PopNull, At, Goto, TypeInv, TypeOK, IdleStates
<1>3. \A c \in Clients : TasksSame(c)
  BY <1>1, <1>2, TasksFrame DEF MainTask
<1> QED BY <1>1, <1>3, FrameTalk

\* A worker takes a task that its client is waiting for.
LEMMA PopTalk == ASSUME TalkInv, NEW w \in Workers, PopTask(w) PROVE TalkOK'
<1>1. /\ Running /\ Running' /\ UNCHANGED <<cst, inbox, fdOf, backlog, mpc, ev, cur, msg>>
      /\ TypeInv /\ IInv /\ queue \in [Kinds -> Seq(Task \cup {ExitTask})]
      /\ task \in [Workers -> Task \cup {NoTask}] /\ wpc \in [Workers -> WorkerStates]
  BY DEF PopTask, At, Running, TalkInv, RoomInv, IInv, TypeInv, TypeOK, clientVars, kernelVars, mainVars
<1>2. PICK k \in Kinds : k = QueueOf(w)
  BY DEF QueueOf, Kinds
<1>3. PICK q \in Seq(Task \cup {ExitTask}) : q = queue[k]
  BY <1>1
<1>4. PICK node : node = Head(q)
  OBVIOUS
<1>5. /\ wpc[w] \in {"ready", "woken"} /\ q # <<>> /\ queue' = [queue EXCEPT ![k] = Tail(@)]
      /\ IF node = ExitTask THEN Goto(w, "exited") /\ UNCHANGED task
         ELSE Goto(w, "run") /\ task' = [task EXCEPT ![w] = node]
  BY <1>2, <1>3, <1>4 DEF PopTask, At
<1>6. task[w] = NoTask /\ NoTask.client = NoClient /\ ExitTask.client = NoClient
  BY <1>1, <1>5 DEF TypeInv, TypeOK, IdleStates, NoTask, ExitTask
<1>7. ASSUME NEW c \in Clients
      PROVE  QueuedTask(c) <=> node.client = c \/ QueuedTask(c)'
  <2>1. queue'[k] = Tail(q) /\ Tail(q) \in Seq(Task \cup {ExitTask})
        /\ \A j \in Kinds \ {k} : queue'[j] = queue[j]
    BY <1>1, <1>3, <1>5
  <2>2. (\E i \in 1 .. Len(q) : q[i].client = c)
          <=> node.client = c \/ \E i \in 1 .. Len(Tail(q)) : Tail(q)[i].client = c
    BY <1>4, <1>5, <2>1, QueueShift
  <2> QED BY <1>3, <2>1, <2>2 DEF QueuedTask
<1>8. CASE node = ExitTask
  <2>1. \A c \in Clients : QueuedTask(c)' <=> QueuedTask(c)
    BY <1>6, <1>7, <1>8, ServerConstants
  <2>2. task' = task /\ \A v \in Workers : wpc'[v] = wpc[v] \/ v = w
    BY <1>1, <1>5, <1>8 DEF Goto
  <2>3. \A c \in Clients : TasksSame(c)
    BY <1>1, <1>6, <2>1, <2>2, ServerConstants DEF TasksSame, MainTask
  <2> QED BY <1>1, <2>3, FrameTalk
<1>9. CASE node # ExitTask
  <2>1. node \in Task
    BY <1>3, <1>4, <1>5, <1>9
  <2>2. PICK c \in Clients : c = node.client
    BY <2>1 DEF Task
  <2>3. /\ wpc'[w] = "run" /\ task'[w] = node
        /\ \A v \in Workers \ {w} : wpc'[v] = wpc[v] /\ task'[v] = task[v]
    BY <1>1, <1>5, <1>9 DEF Goto
  <2>4. Phase(c)'
    <3>1. QueuedTask(c) /\ Phase(c)
      BY <1>1, <1>7, <2>2 DEF TalkInv, TalkOK
    <3>2. Asking(cst[c], inbox[c])
      BY <3>1 DEF Phase
    <3>3. ASSUME NEW v \in Workers, task'[v].client = c
          PROVE  Served(wpc'[v], task'[v].order, cst[c], inbox[c])
      <4>1. CASE v = w
        BY <2>3, <3>2, <4>1 DEF Served
      <4>2. CASE v # w
        BY <2>3, <3>1, <3>3, <4>2 DEF Phase
      <4> QED BY <4>1, <4>2
    <3>4. HeldTask(c)'
      BY <2>2, <2>3 DEF HeldTask
    <3>5. (Connected(c) \/ Queued(c))' \/ (cst[c] = "gone" /\ inbox[c] = <<>>)
      BY <1>1, <3>1 DEF Phase, Connected, Queued
    <3> QED BY <1>1, <3>2, <3>3, <3>4, <3>5 DEF Phase
  <2>5. ASSUME NEW d \in Clients \ {c} PROVE TasksSame(d) /\ BytesSame(d)
    <3>1. QueuedTask(d)' <=> QueuedTask(d)
      BY <1>7, <2>2
    <3> QED BY <1>1, <1>6, <2>2, <2>3, <3>1, ServerConstants
            DEF TasksSame, MainTask, BytesSame, Connected, Queued
  <2>6. \A d \in Clients : EventOf(d)' => EventOf(d)
    BY <1>1 DEF EventOf, Connected
  <2>7. Announced(c)'
    BY <1>1, <2>6 DEF Announced, TalkInv, TalkOK
  <2>8. EventsOpen' /\ (mpc' = "insert" => msg' \in AllCommands)
    BY <1>1 DEF EventsOpen, TalkInv, TalkOK
  <2> QED BY <1>1, <2>4, <2>5, <2>6, <2>7, <2>8, OneTalk
<1> QED BY <1>8, <1>9

\* A worker does something for its client alone: the client moves to state t, and the
\* rest r of what it has sent is left.
LEMMA ServeOne ==
    ASSUME TalkInv, NEW w \in Workers, Running, Running', task[w] # NoTask, NEW c, c = task[w].client,
           cst' = [cst EXCEPT ![c] = cst'[c]], inbox' = [inbox EXCEPT ![c] = inbox'[c]],
           wpc' = [wpc EXCEPT ![w] = wpc'[w]], UNCHANGED <<fdOf, backlog, queue, task, mpc, ev, cur, msg>>,
           Served(wpc'[w], task[w].order, cst'[c], inbox'[c]),
           EventOf(c) => cst'[c] # "menu" /\ (cst'[c] = "login" => inbox'[c] # <<>>)
    PROVE  TalkOK'
<1>1. /\ TypeInv /\ IInv /\ cst \in [Clients -> ClientStates] /\ inbox \in [Clients -> Seq(Messages)]
      /\ wpc \in [Workers -> WorkerStates]
  BY DEF TalkInv, RoomInv, IInv, TypeInv, TypeOK
<1>2. /\ c \in Clients /\ Connected(c) /\ ~QueuedTask(c) /\ ~MainTask(c)
      /\ \A v \in Workers : task[v].client = c => v = w
  BY <1>1, Alone
<1>3. /\ \A d \in Clients \ {c} : cst'[d] = cst[d] /\ inbox'[d] = inbox[d]
      /\ \A v \in Workers \ {w} : wpc'[v] = wpc[v]
  BY <1>1, Zenon
<1>4. \A d \in Clients : EventOf(d)' <=> EventOf(d)
  BY DEF EventOf, Connected
<1>5. ASSUME NEW d \in Clients \ {c} PROVE TasksSame(d) /\ BytesSame(d)
  BY <1>3 DEF TasksSame, QueuedTask, MainTask, BytesSame, Connected, Queued
<1>6. Phase(c)'
  <2>1. ~(QueuedTask(c) \/ MainTask(c))'
    BY <1>2 DEF QueuedTask, MainTask
  <2>2. ASSUME NEW v \in Workers, task'[v].client = c
        PROVE  Served(wpc'[v], task'[v].order, cst'[c], inbox'[c])
    BY <1>2, <2>2
  <2>3. HeldTask(c)' /\ Connected(c)'
    BY <1>2 DEF HeldTask, Connected
  <2> QED BY <2>1, <2>2, <2>3 DEF Phase
<1>7. Announced(c)'
  BY <1>2, <1>4 DEF Announced, TalkInv, TalkOK
<1>8. EventsOpen' /\ (mpc' = "insert" => msg' \in AllCommands)
  BY DEF EventsOpen, TalkInv, TalkOK
<1> QED BY <1>2, <1>4, <1>5, <1>6, <1>7, <1>8, OneTalk

\* What is known of the client of a worker that serves it.
LEMMA ServedClient ==
    ASSUME TalkInv, NEW w \in Workers, At(w, "run") \/ At(w, "size") \/ At(w, "send") \/ At(w, "body")
    PROVE  /\ Running /\ task[w] # NoTask /\ Peer(w) = task[w].client /\ task[w].client \in Clients
           /\ Served(wpc[w], task[w].order, cst[task[w].client], inbox[task[w].client])
           /\ Announced(task[w].client)
           /\ cst \in [Clients -> ClientStates] /\ inbox \in [Clients -> Seq(Messages)]
           /\ wpc \in [Workers -> WorkerStates] /\ NoClient \notin Clients
<1>1. Running /\ IInv /\ TypeInv /\ wpc[w] \in {"run", "size", "send", "body"}
  BY DEF At, TalkInv, RoomInv, IInv
<1>2. task[w] # NoTask
  BY <1>1 DEF TypeInv, TypeOK, IdleStates
<1>3. task[w].client \in Clients /\ Peer(w) = task[w].client
  BY <1>1, <1>2, Alone
<1>4. Served(wpc[w], task[w].order, cst[task[w].client], inbox[task[w].client]) /\ Announced(task[w].client)
  BY <1>1, <1>3 DEF TalkInv, TalkOK, Phase
<1> QED BY <1>1, <1>2, <1>3, <1>4, ServerConstants DEF TypeInv, TypeOK

\* What ToClient does to the client of a task: it may have left.
LEMMA ToClientMoves ==
    ASSUME NEW w \in Workers, NEW c \in Clients, Peer(w) = c, NEW states, ToClient(w, states),
           cst \in [Clients -> ClientStates]
    PROVE  /\ cst' = [cst EXCEPT ![c] = cst'[c]]
           /\ IF cst[c] = "gone" THEN cst'[c] = "gone" ELSE cst'[c] \in states
<1>1. c # NoClient
  BY ServerConstants
<1>2. CASE cst[c] = "gone"
  BY <1>1, <1>2 DEF ToClient, Hungup
<1>3. CASE cst[c] # "gone"
  <2>1. PICK s \in states : cst' = [cst EXCEPT ![c] = s]
    BY <1>1, <1>3 DEF ToClient, Hungup
  <2> QED BY <1>3, <2>1
<1> QED BY <1>2, <1>3

LEMMA ReplyTalk == ASSUME TalkInv, NEW w \in Workers, Reply(w) PROVE TalkOK'
<1>1. PICK c : c = task[w].client
  OBVIOUS
<1>2. /\ At(w, "run") /\ wpc[w] = "run" /\ ToClient(w, Answered(Peer(w))) /\ Goto(w, "clear")
      /\ UNCHANGED <<inbox, fdOf, backlog, queue, task, mpc, ev, cur, msg>>
  BY DEF Reply, At, kernelVars, mainVars
<1>3. /\ Running /\ Running' /\ task[w] # NoTask /\ Peer(w) = c /\ c \in Clients
      /\ Asking(cst[c], inbox[c]) /\ Announced(c)
      /\ cst \in [Clients -> ClientStates] /\ inbox \in [Clients -> Seq(Messages)]
      /\ wpc \in [Workers -> WorkerStates]
  BY <1>1, <1>2, ServedClient DEF Served, Running
<1>4. /\ cst' = [cst EXCEPT ![c] = cst'[c]]
      /\ IF cst[c] = "gone" THEN cst'[c] = "gone" ELSE cst'[c] \in Answered(c)
  BY <1>2, <1>3, ToClientMoves
<1>5. inbox' = [inbox EXCEPT ![c] = inbox'[c]] /\ wpc' = [wpc EXCEPT ![w] = wpc'[w]] /\ wpc'[w] = "clear"
  BY <1>2, <1>3 DEF Goto
<1>6. Fresh(cst'[c], inbox'[c]) /\ cst'[c] # "login"
  BY <1>2, <1>3, <1>4 DEF Answered, Fresh, Asking
<1>7. EventOf(c) => cst'[c] # "menu"
  BY <1>3, <1>4 DEF Answered, Announced, Asking
<1>8. Served(wpc'[w], task[w].order, cst'[c], inbox'[c])
  BY <1>5, <1>6 DEF Served
<1> QED BY <1>1, <1>2, <1>3, <1>4, <1>5, <1>6, <1>7, <1>8, ServeOne

LEMMA HeaderTalk == ASSUME TalkInv, NEW w \in Workers, SendHeader(w) PROVE TalkOK'
<1>1. PICK c : c = task[w].client
  OBVIOUS
<1>2. PICK o : o = task[w].order
  OBVIOUS
<1>3. /\ At(w, "run") /\ wpc[w] = "run" /\ o \in Transfers /\ ToClient(w, {o}) /\ Goto(w, "size")
      /\ UNCHANGED <<inbox, fdOf, backlog, queue, task, mpc, ev, cur, msg>>
  BY <1>2 DEF SendHeader, At, kernelVars, mainVars
<1>4. /\ Running /\ Running' /\ task[w] # NoTask /\ Peer(w) = c /\ c \in Clients
      /\ Asking(cst[c], inbox[c])
      /\ cst \in [Clients -> ClientStates] /\ inbox \in [Clients -> Seq(Messages)]
      /\ wpc \in [Workers -> WorkerStates]
  BY <1>1, <1>3, ServedClient DEF Served, Running
<1>5. cst' = [cst EXCEPT ![c] = cst'[c]] /\ cst'[c] \in {o, "gone"}
  BY <1>3, <1>4, ToClientMoves
<1>6. inbox' = [inbox EXCEPT ![c] = inbox'[c]] /\ wpc' = [wpc EXCEPT ![w] = wpc'[w]] /\ wpc'[w] = "size"
  BY <1>3, <1>4 DEF Goto
<1>7. Sizing(o, cst'[c], inbox'[c]) /\ cst'[c] \notin {"login", "menu"}
  BY <1>3, <1>4, <1>5 DEF Sizing, Asking, Transfers
<1>8. Served(wpc'[w], o, cst'[c], inbox'[c])
  BY <1>3, <1>6, <1>7 DEF Served
<1> QED BY <1>1, <1>2, <1>3, <1>4, <1>5, <1>6, <1>7, <1>8, ServeOne

\* The size message decides what the worker does next.
LEMMA SizeTalk == ASSUME TalkInv, NEW w \in Workers, RecvSize(w) PROVE TalkOK'
<1>1. PICK c : c = task[w].client
  OBVIOUS
<1>2. PICK o : o = task[w].order
  OBVIOUS
<1>3. At(w, "size") /\ wpc[w] = "size"
  BY DEF RecvSize, At
<1>4. /\ Running /\ task[w] # NoTask /\ Peer(w) = c /\ c \in Clients
      /\ o \in Transfers /\ Sizing(o, cst[c], inbox[c]) /\ Announced(c)
      /\ cst \in [Clients -> ClientStates] /\ inbox \in [Clients -> Seq(Messages)]
      /\ wpc \in [Workers -> WorkerStates]
  BY <1>1, <1>2, <1>3, ServedClient DEF Served
<1>5. /\ inbox[c] # <<>> /\ inbox' = [inbox EXCEPT ![c] = Tail(@)]
      /\ Goto(w, IF Head(inbox[c]) = "done" THEN "clear" ELSE IF o = "gets" THEN "send" ELSE "body")
      /\ UNCHANGED <<cst, fdOf, backlog, queue, task, mpc, ev, cur, msg>> /\ Running'
  BY <1>2, <1>4 DEF RecvSize, CanRecv, clientVars, mainVars, Running
<1>6. /\ cst' = [cst EXCEPT ![c] = cst'[c]] /\ inbox' = [inbox EXCEPT ![c] = inbox'[c]]
      /\ wpc' = [wpc EXCEPT ![w] = wpc'[w]]
      /\ cst'[c] = cst[c] /\ inbox'[c] = Tail(inbox[c])
      /\ wpc'[w] = IF Head(inbox[c]) = "done" THEN "clear" ELSE IF o = "gets" THEN "send" ELSE "body"
  BY <1>4, <1>5 DEF Goto
<1>7. Served(wpc'[w], o, cst'[c], inbox'[c]) /\ cst'[c] # "login"
  BY <1>4, <1>5, <1>6, SizeTaken DEF Served
<1>8. EventOf(c) => cst'[c] # "menu"
  BY <1>4, <1>6 DEF Announced
<1> QED BY <1>1, <1>2, <1>4, <1>5, <1>6, <1>7, <1>8, ServeOne

LEMMA BodyTalk == ASSUME TalkInv, NEW w \in Workers, RecvBody(w) PROVE TalkOK'
<1>1. PICK c : c = task[w].client
  OBVIOUS
<1>2. At(w, "body") /\ wpc[w] = "body"
  BY DEF RecvBody, At
<1>3. /\ Running /\ task[w] # NoTask /\ Peer(w) = c /\ c \in Clients
      /\ (inbox[c] = <<>> /\ cst[c] \in {"upload", "gone"}) \/ Last("body", cst[c], inbox[c])
      /\ Announced(c)
      /\ cst \in [Clients -> ClientStates] /\ inbox \in [Clients -> Seq(Messages)]
      /\ wpc \in [Workers -> WorkerStates]
  BY <1>1, <1>2, ServedClient DEF Served
<1>4. /\ inbox[c] # <<>> /\ Goto(w, "clear") /\ Running'
      /\ \/ inbox' = [inbox EXCEPT ![c] = Tail(@)]
         \/ Len(inbox[c]) > 1 /\ inbox' = [inbox EXCEPT ![c] = <<"tail">>]
      /\ UNCHANGED <<cst, fdOf, backlog, queue, task, mpc, ev, cur, msg>>
  BY <1>3 DEF RecvBody, CanRecv, clientVars, mainVars, Running
<1>5. /\ cst' = [cst EXCEPT ![c] = cst'[c]] /\ inbox' = [inbox EXCEPT ![c] = inbox'[c]]
      /\ cst'[c] = cst[c]
      /\ inbox'[c] = Tail(inbox[c]) \/ (Len(inbox[c]) > 1 /\ inbox'[c] = <<"tail">>)
  BY <1>3, <1>4
<1>6. wpc' = [wpc EXCEPT ![w] = wpc'[w]] /\ wpc'[w] = "clear"
  BY <1>3, <1>4 DEF Goto
<1>7. Fresh(cst'[c], inbox'[c]) /\ cst'[c] # "login"
  <2>1. PICK s, q : s = cst[c] /\ q = inbox[c]
    OBVIOUS
  <2>2. (q = <<>> /\ s \in {"upload", "gone"}) \/ Last("body", s, q)
    BY <1>3, <2>1
  <2>3. q # <<>>
    BY <1>4, <2>1
  <2>4. s # "login" /\ Fresh(s, Tail(q)) /\ (Len(q) > 1 => Fresh(s, <<"tail">>))
    BY <2>2, <2>3, BodyTaken
  <2>5. cst'[c] = s /\ (inbox'[c] = Tail(q) \/ (Len(q) > 1 /\ inbox'[c] = <<"tail">>))
    BY <1>5, <2>1
  <2> QED BY <2>4, <2>5
<1>8. Served(wpc'[w], task[w].order, cst'[c], inbox'[c])
  BY <1>6, <1>7 DEF Served
<1>9. EventOf(c) => cst'[c] # "menu"
  BY <1>3, <1>5 DEF Announced
<1> QED BY <1>1, <1>3, <1>4, <1>5, <1>6, <1>7, <1>8, <1>9, ServeOne

\* sendfile, to a client that reads or to one that has left; and a transfer that the
\* client broke off.
LEMMA LastTalk ==
    ASSUME TalkInv, NEW w \in Workers, SendBody(w) \/ SendBodyFails(w) \/ PeerGone(w) PROVE TalkOK'
<1>1. PICK c : c = task[w].client
  OBVIOUS
<1>2. At(w, "send") \/ At(w, "size") \/ At(w, "body")
  BY DEF SendBody, SendBodyFails, PeerGone
<1>3. /\ Running /\ task[w] # NoTask /\ Peer(w) = c /\ c \in Clients /\ NoClient \notin Clients
      /\ Served(wpc[w], task[w].order, cst[c], inbox[c]) /\ Announced(c)
      /\ cst \in [Clients -> ClientStates] /\ inbox \in [Clients -> Seq(Messages)]
      /\ wpc \in [Workers -> WorkerStates]
  BY <1>1, <1>2, ServedClient
<1>4. /\ Goto(w, "clear") /\ Running'
      /\ UNCHANGED <<inbox, fdOf, backlog, queue, task, mpc, ev, cur, msg>>
  BY <1>3 DEF SendBody, SendBodyFails, PeerGone, clientVars, kernelVars, mainVars, Running
<1>5. /\ inbox' = [inbox EXCEPT ![c] = inbox'[c]]
      /\ wpc' = [wpc EXCEPT ![w] = wpc'[w]] /\ wpc'[w] = "clear"
  BY <1>3, <1>4 DEF Goto
<1>6. cst' = [cst EXCEPT ![c] = cst'[c]] /\ inbox[c] = <<>> /\ cst'[c] \in {"prompt", "gone"}
  <2>1. CASE SendBody(w)
    <3>1. ToClient(w, {"prompt"}) /\ wpc[w] = "send"
      BY <2>1 DEF SendBody, At
    <3>2. cst' = [cst EXCEPT ![c] = cst'[c]] /\ cst'[c] \in {"prompt", "gone"}
      BY <1>3, <3>1, ToClientMoves
    <3> QED BY <1>3, <3>1, <3>2 DEF Served
  <2>2. CASE SendBodyFails(w)
    <3>1. wpc[w] = "send" /\ cst[c] = "gone" /\ cst' = cst
      BY <1>3, <2>2 DEF SendBodyFails, At, Hungup, clientVars
    <3> QED BY <1>3, <3>1 DEF Served
  <2>3. CASE PeerGone(w)
    <3>1. wpc[w] \in {"size", "body"} /\ cst[c] = "gone" /\ cst' = cst /\ ~CanRecv(c)
      BY <1>3, <2>3 DEF PeerGone, At, AtEof, Hungup, clientVars
    <3>2. inbox[c] = <<>> \/ Head(inbox[c]) = "tail"
      BY <1>3, <3>1 DEF CanRecv
    <3>3. inbox[c] = <<>>
      BY <1>3, <3>1, <3>2, SizeTaken, BodyTaken DEF Served
    <3> QED BY <1>3, <3>1, <3>3
  <2> QED BY <2>1, <2>2, <2>3
<1>7. Fresh(cst'[c], inbox'[c]) /\ cst'[c] \notin {"login", "menu"}
  BY <1>4, <1>6 DEF Fresh
<1>8. Served(wpc'[w], task[w].order, cst'[c], inbox'[c])
  BY <1>5, <1>7 DEF Served
<1> QED BY <1>1, <1>3, <1>4, <1>5, <1>6, <1>7, <1>8, ServeOne

\* A finished task leaves its client with nothing for the server but a command.
LEMMA ClearTalk == ASSUME TalkInv, NEW w \in Workers, ClearWorkFlag(w) PROVE TalkOK'
<1>1. PICK c : c = task[w].client
  OBVIOUS
<1>2. /\ Running /\ Running' /\ wpc[w] = "clear" /\ IInv /\ TypeInv
      /\ task' = [task EXCEPT ![w] = NoTask] /\ Goto(w, "ready")
      /\ UNCHANGED <<cst, inbox, fdOf, backlog, queue, mpc, ev, cur, msg>>
  BY DEF ClearWorkFlag, At, Running, TalkInv, RoomInv, IInv, clientVars, kernelVars, mainVars
<1>3. task \in [Workers -> Task \cup {NoTask}] /\ wpc \in [Workers -> WorkerStates] /\ task[w] # NoTask
  BY <1>2 DEF TypeInv, TypeOK, IdleStates
<1>4. /\ c \in Clients /\ Connected(c) /\ ~QueuedTask(c) /\ ~MainTask(c)
      /\ \A v \in Workers : task[v].client = c => v = w
  BY <1>1, <1>2, <1>3, Alone
<1>5. /\ \A v \in Workers \ {w} : task'[v] = task[v] /\ wpc'[v] = wpc[v]
      /\ task'[w] = NoTask /\ \A d \in Clients : NoTask.client # d
  BY <1>2, <1>3, ServerConstants DEF Goto, NoTask
<1>6. \A d \in Clients : EventOf(d)' <=> EventOf(d)
  BY <1>2 DEF EventOf, Connected
<1>7. ASSUME NEW d \in Clients \ {c} PROVE TasksSame(d) /\ BytesSame(d)
  BY <1>1, <1>2, <1>5 DEF TasksSame, QueuedTask, MainTask, BytesSame, Connected, Queued
<1>8. Phase(c)'
  <2>1. ~(QueuedTask(c) \/ MainTask(c))' /\ Connected(c)'
    BY <1>2, <1>4 DEF QueuedTask, MainTask, Connected
  <2>2. \A v \in Workers : task'[v].client # c
    BY <1>4, <1>5
  <2>3. Phase(c)
    BY <1>2, <1>4 DEF TalkInv, TalkOK
  <2>4. Served("clear", task[w].order, cst[c], inbox[c])
    BY <1>1, <1>2, <2>3 DEF Phase
  <2>5. Fresh(cst'[c], inbox'[c])
    BY <1>2, <2>4 DEF Served
  <2> QED BY <2>1, <2>2, <2>5 DEF Phase
<1>9. Announced(c)'
  BY <1>2, <1>4, <1>6 DEF Announced, TalkInv, TalkOK
<1>10. EventsOpen' /\ (mpc' = "insert" => msg' \in AllCommands)
  BY <1>2 DEF EventsOpen, TalkInv, TalkOK
<1> QED BY <1>2, <1>4, <1>6, <1>7, <1>8, <1>9, <1>10, OneTalk

----------------------------------------------------------------------------
(* The invariant and the theorems *)

LEMMA InitTalk == Init => TalkInv
<1> SUFFICES ASSUME Init PROVE TalkOK
  BY InitRoom DEF TalkInv
<1>1. /\ mpc = "events" /\ ev = {} /\ Running
      /\ \A c \in Clients : cst[c] = "gone" /\ inbox[c] = <<>> /\ ~Connected(c)
      /\ \A k \in Kinds : queue[k] = <<>>
      /\ \A w \in Workers : task[w] = NoTask
  BY DEF Init, Running, Connected
<1>2. ASSUME NEW c \in Clients PROVE Phase(c) /\ Announced(c)
  <2>1. ~QueuedTask(c) /\ ~MainTask(c) /\ \A w \in Workers : task[w].client # c
    BY <1>1, ServerConstants DEF QueuedTask, MainTask, NoTask
  <2> QED BY <1>1, <2>1 DEF Phase, Announced, EventOf, Fresh
<1>3. EventsOpen
  BY <1>1 DEF EventsOpen
<1> QED BY <1>1, <1>2, <1>3 DEF TalkOK

\* After the end of the process there is nobody left.
LEMMA StoppedTalk ==
    ASSUME TalkInv, ~Running, UNCHANGED <<fdOf, mpc>> PROVE TalkOK'
  BY DEF TalkInv, TalkOK, Running, Connected

LEMMA NextTalk == QueuesFit /\ TalkInv /\ [Next]_vars => TalkInv'
<1> SUFFICES ASSUME QueuesFit, TalkInv, [Next]_vars PROVE TalkOK'
  BY NextRoom DEF TalkInv
<1>1. ASSUME NEW c \in Clients, UserStep(c) \/ Transfer(c) PROVE TalkOK'
  <2>1. CASE Connect(c)
    BY <2>1, ConnectTalk
  <2>2. CASE Login(c) \/ Command(c) \/ Leave(c) \/ Transfer(c)
    <3>1. TypeInv
      BY DEF TalkInv, RoomInv, IInv
    <3>2. UNCHANGED <<fdOf, mpc>>
      BY <2>2, <3>1, ClientMoves
    <3> QED BY <2>2, <3>2, ClientTalk, StoppedTalk
  <2> QED BY <1>1, <2>1, <2>2 DEF UserStep
<1>2. ASSUME NEW w \in Workers, WorkerStep(w) \/ SpuriousWake(w) PROVE TalkOK'
  <2>1. CASE Sigpipe(w)
    BY <2>1, EndTalk DEF Sigpipe
  <2> QED BY <1>2, <2>1, IdleTalk, PopTalk, ReplyTalk, HeaderTalk, SizeTalk, BodyTalk, LastTalk, ClearTalk
          DEF WorkerStep
<1>3. ASSUME MainStep \/ Sigint PROVE TalkOK'
  <2>1. CASE ExitQueues
    BY <2>1, InsertExitTalk, MainFrameTalk DEF ExitQueues, Kinds
  <2>2. CASE Finish
    BY <2>2, EndTalk DEF Finish
  <2> QED BY <1>3, <2>1, <2>2, EpollTalk, AcceptTalk, RecvTalk, CloseTalk, ServeTalk, GiveTalk,
             BeginExitTalk, MainFrameTalk DEF MainStep
<1>4. CASE UNCHANGED vars
  <2>1. UNCHANGED <<cst, inbox, fdOf, backlog, queue, task, wpc, mpc, ev, cur, msg>>
    BY <1>4 DEF vars, clientVars, kernelVars, workerVars, mainVars
  <2>2. CASE Running
    <3>1. TypeInv
      BY DEF TalkInv, RoomInv, IInv
    <3>2. \A c \in Clients : TasksSame(c)
      BY <2>1, <3>1, TasksFrame DEF MainTask
    <3> QED BY <2>1, <2>2, <3>2, FrameTalk DEF Running
  <2> QED BY <2>1, <2>2, StoppedTalk
<1> QED BY <1>1, <1>2, <1>3, <1>4 DEF Next

LEMMA Talk == QueuesFit /\ Spec => []TalkInv
<1> SUFFICES ASSUME QueuesFit PROVE Spec => []TalkInv
  OBVIOUS
<1>1. TalkInv /\ [Next]_vars => TalkInv'
  BY NextTalk
<1> QED BY InitTalk, <1>1, PTL DEF Spec

\* What the server has not received from a client without a task.
LEMMA CurFresh ==
    ASSUME TalkInv, mpc \in {"first", "recv"}
    PROVE  cur \in Clients /\ Fresh(cst[cur], inbox[cur]) /\ Announced(cur) /\ Connected(cur)
<1>1. cur \in Clients /\ Running /\ Connected(cur) /\ ~QueuedTask(cur) /\ ~HeldTask(cur) /\ ~MainTask(cur)
  BY CurFree DEF TalkInv, RoomInv
<1> QED BY <1>1 DEF TalkInv, TalkOK, Phase

\* main takes for commands only commands: it never reads the bytes of a transfer that a
\* worker is in, whatever the clients, the workers and their speeds.
THEOREM MainReadsCommands == QueuesFit /\ Spec => []TransferDataKept
<1>1. TalkInv => TransferDataKept
  <2> SUFFICES ASSUME TalkInv, mpc \in {"first", "recv"}, CanRecv(cur)
               PROVE  Head(inbox[cur]) \in AllCommands
    BY DEF TransferDataKept, TalkInv, TalkOK
  <2>1. Fresh(cst[cur], inbox[cur])
    BY CurFresh
  <2> QED BY <2>1, CommandTaken DEF CanRecv
<1> QED BY Talk, <1>1, PTL

\* A queued task of a client is at a position of QueuedAt of its descriptor.
LEMMA QueuedIsAt ==
    ASSUME TalkInv, Running, NEW c \in Clients, QueuedTask(c) PROVE QueuedAt(fdOf[c]) # {}
<1>1. InQueue(fdOf[c])
  BY TaskKeys DEF TalkInv, RoomInv
<1>2. PICK k \in Kinds : \E i \in Nat : TaskAt(k, i, fdOf[c])
  BY <1>1 DEF InQueue
<1>3. PICK i \in 1 .. Len(queue[k]) : queue[k][i].fd = fdOf[c]
  BY <1>2 DEF TaskAt
<1>4. <<k, i>> \in {k} \X (1 .. Len(queue[k])) /\ <<k, i>>[1] = k /\ <<k, i>>[2] = i
  OBVIOUS
<1>5. <<k, i>> \in QueuedAt(fdOf[c])
  BY <1>3, <1>4 DEF QueuedAt
<1> QED BY <1>5

\* A request that has no answer yet is in its socket, in main's hands, in a queue, or with
\* a worker that has not answered it: the server forgets none.
THEOREM NoRequestForgotten == QueuesFit /\ Spec => []RequestNotLost
<1>1. TalkInv => RequestNotLost
  <2> SUFFICES ASSUME TalkInv, NEW c \in Clients, Connected(c), cst[c] \in {"login", "await"},
                      inbox[c] = <<>>, ~(mpc = "insert" /\ cur = c), QueuedAt(fdOf[c]) = {}
               PROVE  \E w \in HeldBy(fdOf[c]) : wpc[w] = "run"
    BY DEF RequestNotLost
  <2>1. Running /\ Phase(c)
    BY DEF TalkInv, TalkOK
  <2>2. ~QueuedTask(c) /\ ~MainTask(c) /\ ~Fresh(cst[c], inbox[c])
    BY <2>1, QueuedIsAt DEF MainTask, Fresh
  <2>3. PICK w \in Workers : task[w].client = c
    BY <2>1, <2>2 DEF Phase, HeldTask
  <2>4. task[w] # NoTask /\ task[w].fd = fdOf[c]
    BY <2>1, <2>3, ServerConstants
       DEF NoTask, TalkInv, RoomInv, IInv, DispatchOK, TaskKeepsItsClient
  <2>5. wpc[w] \in WorkerStates \ IdleStates
    BY <2>4 DEF TalkInv, RoomInv, IInv, TypeInv, TypeOK
  <2>6. Served(wpc[w], task[w].order, cst[c], inbox[c])
    BY <2>1, <2>3 DEF Phase
  <2>7. wpc[w] = "run"
    BY <2>2, <2>5, <2>6 DEF Served, Sizing, Last, Transfers, WorkerStates, IdleStates
  <2> QED BY <2>4, <2>7 DEF HeldBy
<1> QED BY Talk, <1>1, PTL

\* main blocks in recv_n only on a client that waits for its own user, or on one whose
\* command a worker has taken in part for file content.
THEOREM BlocksOnUserOnly == QueuesFit /\ Spec => []RecvBlocksOnUser
<1>1. TalkInv => RecvBlocksOnUser
  <2> SUFFICES ASSUME TalkInv, mpc = "recv", ~CanRecv(cur), ~Hungup(cur)
               PROVE  cst[cur] = "prompt" \/ inbox[cur] = <<"tail">>
    BY DEF RecvBlocksOnUser, MainBlocked
  <2>1. cur \in Clients /\ Fresh(cst[cur], inbox[cur]) /\ cst[cur] # "menu"
    BY CurFresh DEF Announced, EventOf
  <2>2. cst[cur] # "gone" /\ (inbox[cur] = <<>> \/ Head(inbox[cur]) = "tail")
    BY <2>1 DEF CanRecv, Hungup
  <2>3. \A m \in AllCommands : <<m>> # <<>> /\ Head(<<m>>) = m /\ m # "tail"
    BY ShortSeqs DEF AllCommands
  <2> QED BY <2>1, <2>2, <2>3 DEF Fresh
<1> QED BY Talk, <1>1, PTL

\* The orderly exit waits for the workers, so no client is in a transfer then, and a
\* command that gets no answer is one that no worker had begun.
THEOREM ExitCutsNothing == QueuesFit /\ Spec => ExitKeepsRunningTasks
<1>1. TalkInv /\ [Next]_vars =>
        [mpc' = "done" /\ mpc # "done" =>
           \A c \in Clients : Connected(c) =>
              \/ cst[c] \in {"menu", "prompt", "gone"}
              \/ inbox[c] # <<>> \/ QueuedAt(fdOf[c]) # {}]_vars
  <2> SUFFICES ASSUME TalkInv, [Next]_vars, mpc' = "done", mpc # "done", NEW c \in Clients, Connected(c),
                      QueuedAt(fdOf[c]) = {}
               PROVE  cst[c] \in {"menu", "prompt", "gone"} \/ inbox[c] # <<>>
    OBVIOUS
  <2>1. Finish
    <3>1. ASSUME NEW d \in Clients, UserStep(d) \/ Transfer(d) PROVE mpc' = mpc
      BY <3>1 DEF UserStep, Transfer, Connect, Login, Command, Leave, AskDownload, OfferUpload, Upload, mainVars
    <3>2. ASSUME NEW w \in Workers, WorkerStep(w) \/ SpuriousWake(w) PROVE mpc' \in {mpc, "killed"}
      BY <3>2 DEF WorkerStep, SpuriousWake, CondWait, PopTask, PopNull, Reply, SendHeader, RecvSize, SendBody,
         SendBodyFails, Sigpipe, EndProcess, RecvBody, PeerGone, ClearWorkFlag, mainVars
    <3>3. ASSUME Sigint PROVE mpc' = mpc
      BY <3>3 DEF Sigint, mainVars
    <3>4. ASSUME MainStep PROVE Finish
      BY <3>4 DEF MainStep, EpollWait, Accept, AcceptFails, RecvFirst, FirstEof, SkipBusy, ServeClient,
         RecvCommand, RecvInto, Disconnect, GiveChildTask, SignalWorker, BeginExit, ExitQueues, NextEvent,
         InsertExit, BroadcastExit
    <3>5. CASE UNCHANGED vars
      BY <3>5 DEF vars, mainVars
    <3> QED BY <3>1, <3>2, <3>3, <3>4, <3>5 DEF Next
  <2>2. mpc = "join" /\ \A w \in Workers : wpc[w] = "exited"
    BY <2>1 DEF Finish
  <2>3. Running /\ Phase(c)
    BY <2>2 DEF TalkInv, TalkOK, Running
  <2>4. ~QueuedTask(c) /\ ~MainTask(c)
    BY <2>2, <2>3, QueuedIsAt DEF MainTask
  <2>5. \A w \in Workers : task[w] = NoTask
    BY <2>2 DEF TalkInv, RoomInv, IInv, TypeInv, TypeOK, IdleStates
  <2>6. ~HeldTask(c)
    BY <2>5, ServerConstants DEF HeldTask, NoTask
  <2>7. Fresh(cst[c], inbox[c])
    BY <2>3, <2>4, <2>6 DEF Phase
  <2>8. \A m : <<m>> # <<>>
    BY ShortSeqs
  <2> QED BY <2>7, <2>8 DEF Fresh
<1>2. QueuesFit /\ Spec => []TalkInv
  BY Talk
<1> QED BY <1>1, <1>2, PTL DEF Spec, ExitKeepsRunningTasks

==============================================================================
