----------------------------- MODULE ThreadPool -----------------------------
(***************************************************************************)
(* The file servers of thread_poll_task: main accepts connections and puts *)
(* them into a queue, the threads of a factory take them out and send the  *)
(* file.  The three programs differ in how they stop:                      *)
(*   "NoWait"   SERVER_QUIT_NO_WAIT: a signal for every thread;            *)
(*   "Wait"     SERVER_QUIT_WAIT_TASK: a wakeup for every thread, which    *)
(*              answers with its id through the pipe of the SIGINT handler;*)
(*   "Sendfile" SERVER_SENDFILE_QUIT_WAIT: one broadcast, the same answer; *)
(*              its threads wait under an if, not in a while.              *)
(*                                                                         *)
(* One step is what happens between two accesses of work_flag, which is    *)
(* read under the mutex and written without it.  epoll_wait reports one    *)
(* event at a time.  A pthread_t has IdBytes bytes, none of them 'e'.      *)
(***************************************************************************)
EXTENDS Naturals, Sequences

CONSTANTS
    NumThreads,  \* thread_num
    NumConns,    \* connections of clients
    Versions,    \* the programs that are checked
    IdBytes,     \* sizeof(pthread_t)
    Parts,       \* messages of a transfer: name, size, content
    MaxSigints,  \* bounds the SIGINTs
    MaxSpurious  \* bounds the wakeups without a signal

\* Threads by their index in factory.th_id, connections in the order of accept.
Threads == 1 .. NumThreads
Conns   == 1 .. NumConns

ASSUME ThreadPoolConstants ==
    /\ NumThreads \in Nat \ {0} /\ NumConns \in Nat
    /\ Versions \subseteq {"NoWait", "Wait", "Sendfile"}
    /\ IdBytes \in Nat \ {0} /\ Parts \in Nat \ {0}
    /\ MaxSigints \in Nat /\ MaxSpurious \in Nat

VARIABLES
    version,    \* the program
    main,       \* where main is
    joined,     \* threads main has counted in its loop at the exit
    joining,    \* what the last read of a thread id gave
    workFlag,   \* factory.work_flag
    taskQ,      \* factory.task_q
    mutex,      \* factory.mutex: its owner, or Nobody
    thread,     \* where each thread is
    current,    \* current_task of each thread
    pipe,       \* exit_fd: the bytes written and not yet read
    socketOpen, \* is socket_fd open?
    conn,       \* the state of each connection
    parts,      \* messages sent on it
    sigints, spurious,
    early,      \* history: a thread ran before work_flag was set
    missed      \* history: work_flag was cleared between a test and its wait

mainVars   == <<main, joined, joining, socketOpen>>
threadVars == <<thread, current>>
connVars   == <<conn, parts>>
bounds     == <<sigints, spurious>>
vars == <<version, mainVars, workFlag, taskQ, mutex, threadVars, pipe, connVars,
          bounds, early, missed>>

\* No task; and one that a thread still has after it has freed it, or never had.
Nobody == 0
NoTask == 0
Stale  == NumConns + 1

ThreadStates == {"new", "ready", "test", "toWait", "waiting", "woken", "tested",
                 "run", "answer", "ended"}
MainStates   == {"create", "start", "loop", "signal", "stop", "wake", "read", "join",
                 "returned", "dead"}
ConnStates   == {"connecting", "accepted", "gone", "closed"}

\* The bytes in the pipe: 'e' of a SIGINT, and those of the ids.
ExitByte == <<0, 0>>
Byte     == {ExitByte} \cup (Threads \X (1 .. IdBytes))
Id(t)  == [i \in 1 .. IdBytes |-> <<t, i>>]

Init ==
    /\ version \in Versions
    /\ main = "create" /\ joined = 0 /\ joining = <<>>
    /\ workFlag = FALSE /\ taskQ = <<>> /\ mutex = Nobody
    /\ thread = [t \in Threads |-> "new"] /\ current = [t \in Threads |-> NoTask]
    /\ pipe = <<>> /\ socketOpen = TRUE
    /\ conn = [c \in Conns |-> "connecting"] /\ parts = [c \in Conns |-> 0]
    /\ sigints = 0 /\ spurious = 0 /\ early = FALSE /\ missed = FALSE

\* The process exists: its threads can take a step.
Running == main \notin {"returned", "dead"}

Enter(s)   == main' = s
Goto(t, s) == thread' = [thread EXCEPT ![t] = s]

----------------------------------------------------------------------------
(* Clients and signals *)

ClientLeaves(c) ==
    /\ Running /\ conn[c] = "accepted"
    /\ conn' = [conn EXCEPT ![c] = "gone"]
    /\ UNCHANGED <<version, mainVars, workFlag, taskQ, mutex, threadVars, pipe, parts,
                   bounds, early, missed>>

\* SIGINT: signal_exit writes its byte into the pipe.
SignalExit ==
    /\ Running /\ sigints < MaxSigints
    /\ sigints' = sigints + 1
    /\ pipe' = Append(pipe, ExitByte)
    /\ UNCHANGED <<version, mainVars, workFlag, taskQ, mutex, threadVars, connVars,
                   spurious, early, missed>>

----------------------------------------------------------------------------
(* factory_start and the event loop of main *)

\* factory_start: pthread_create, for one thread after the other.
CreateThread ==
    /\ main = "create"
    /\ \E t \in Threads :
         /\ \A u \in Threads : thread[u] = "new" <=> u >= t
         /\ Goto(t, "ready")
         /\ Enter(IF t = NumThreads THEN "start" ELSE "create")
    /\ UNCHANGED <<version, joined, joining, socketOpen, workFlag, taskQ, mutex, current,
                   pipe, connVars, bounds, early, missed>>

\* factory_start: work_flag is set when all threads exist.
SetWorkFlag ==
    /\ main = "start"
    /\ workFlag' = TRUE
    /\ Enter("loop")
    /\ UNCHANGED <<version, joined, joining, socketOpen, taskQ, mutex, threadVars, pipe,
                   connVars, bounds, early, missed>>

\* Mutant: the new task replaces what is queued.
QueueInsertOver(c) == taskQ' = <<c>>

QueueInsert(c) == taskQ' = Append(taskQ, c)

\* The oldest connection of the backlog.
IsNext(c) == \A d \in Conns : conn[d] = "connecting" <=> d >= c

\* accept, lock, queue_insert, unlock.
Accept(c) ==
    /\ main = "loop" /\ socketOpen /\ IsNext(c) /\ mutex = Nobody
    /\ conn' = [conn EXCEPT ![c] = "accepted"]
    /\ QueueInsert(c)
    /\ Enter("signal")
    /\ UNCHANGED <<version, joined, joining, socketOpen, workFlag, mutex, threadVars, pipe,
                   parts, bounds, early, missed>>

\* pthread_cond_signal wakes a waiting thread, if there is one.
Waiting == {t \in Threads : thread[t] = "waiting"}

CondSignal == IF Waiting = {} THEN UNCHANGED thread
              ELSE \E t \in Waiting : Goto(t, "woken")

CondBroadcast == thread' = [t \in Threads |-> IF t \in Waiting THEN "woken" ELSE thread[t]]

\* Mutant: nobody is told of the task.
SignalNobody ==
    /\ main = "signal"
    /\ Enter("loop")
    /\ UNCHANGED <<version, joined, joining, socketOpen, workFlag, taskQ, mutex, threadVars,
                   pipe, connVars, bounds, early, missed>>

SignalTask ==
    /\ main = "signal"
    /\ CondSignal
    /\ Enter("loop")
    /\ UNCHANGED <<version, joined, joining, socketOpen, workFlag, taskQ, mutex, current,
                   pipe, connVars, bounds, early, missed>>

\* The pipe is readable: the socket is closed whatever is in it; one byte is
\* read, and anything but 'e' is dropped.
ReadExit ==
    /\ main = "loop" /\ pipe # <<>>
    /\ socketOpen' = FALSE
    /\ pipe' = Tail(pipe)
    /\ Enter(IF Head(pipe) = ExitByte THEN "stop" ELSE "loop")
    /\ UNCHANGED <<version, joined, joining, workFlag, taskQ, mutex, threadVars, connVars,
                   bounds, early, missed>>

MainLoop == SignalTask \/ ReadExit \/ \E c \in Conns : Accept(c)

----------------------------------------------------------------------------
(* How main stops *)

\* work_flag is cleared without the mutex.
ClearWorkFlag ==
    /\ main = "stop"
    /\ workFlag' = FALSE
    /\ missed' = \E t \in Threads : thread[t] = "toWait"
    /\ Enter("wake")
    /\ UNCHANGED <<version, joined, joining, socketOpen, taskQ, mutex, threadVars, pipe,
                   connVars, bounds, early>>

\* "NoWait": pthread_kill for the next thread.  Nobody handles SIGUSR1, so it ends
\* the process, unless the thread has ended; pthread_join then returns.
KillThread ==
    /\ version = "NoWait" /\ main = "wake"
    /\ LET t == joined + 1 IN
       IF thread[t] = "ended" THEN Enter("join") /\ joining' = Id(t)
                              ELSE Enter("dead") /\ UNCHANGED joining
    /\ UNCHANGED <<version, joined, socketOpen, workFlag, taskQ, mutex, threadVars, pipe,
                   connVars, bounds, early, missed>>

\* Mutant: no thread is woken.
WakeNobody ==
    /\ version # "NoWait" /\ main = "wake"
    /\ Enter("read")
    /\ UNCHANGED <<version, joined, joining, socketOpen, workFlag, taskQ, mutex, threadVars,
                   pipe, connVars, bounds, early, missed>>

\* "Wait": a signal before every read; "Sendfile": a broadcast before the first.
WakeThreads ==
    /\ version # "NoWait" /\ main = "wake"
    /\ CASE version = "Wait" -> CondSignal
         [] version = "Sendfile" -> IF joined = 0 THEN CondBroadcast ELSE UNCHANGED thread
    /\ Enter("read")
    /\ UNCHANGED <<version, joined, joining, socketOpen, workFlag, taskQ, mutex, current,
                   pipe, connVars, bounds, early, missed>>

\* Mutant: main does not wait for an id.
ReadNothing ==
    /\ main = "read"
    /\ Enter("join")
    /\ UNCHANGED <<version, joined, joining, socketOpen, workFlag, taskQ, mutex, threadVars,
                   pipe, connVars, bounds, early, missed>>

\* read of sizeof(pthread_t) bytes returns what there is.
ReadId ==
    /\ main = "read" /\ pipe # <<>>
    /\ LET n == IF Len(pipe) < IdBytes THEN Len(pipe) ELSE IdBytes IN
       /\ joining' = SubSeq(pipe, 1, n)
       /\ pipe' = SubSeq(pipe, n + 1, Len(pipe))
    /\ Enter("join")
    /\ UNCHANGED <<version, joined, socketOpen, workFlag, taskQ, mutex, threadVars, connVars,
                   bounds, early, missed>>

\* pthread_join returns when the thread has ended; with bytes that are no id it
\* fails at once or the process dies.  After the last one main returns.
JoinThread ==
    /\ main = "join"
    /\ \A t \in Threads : joining = Id(t) => thread[t] = "ended"
    /\ joined' = joined + 1 /\ joining' = <<>>
    /\ \/ Enter(IF joined + 1 = NumThreads THEN "returned" ELSE "wake")
       \/ (\A t \in Threads : joining # Id(t)) /\ Enter("dead")
    /\ UNCHANGED <<version, socketOpen, workFlag, taskQ, mutex, threadVars, pipe,
                   connVars, bounds, early, missed>>

MainExit == ClearWorkFlag \/ KillThread \/ WakeThreads \/ ReadId \/ JoinThread

MainStep == CreateThread \/ SetWorkFlag \/ MainLoop \/ MainExit

----------------------------------------------------------------------------
(* download_file: the threads *)

\* Mutant: no thread tests the queue again after its wait.
LockIf(t) ==
    /\ thread[t] \in {"ready", "woken"} /\ mutex = Nobody
    /\ mutex' = t
    /\ Goto(t, IF thread[t] = "woken" THEN "tested" ELSE "test")
    /\ UNCHANGED <<version, mainVars, workFlag, taskQ, current, pipe, connVars, bounds,
                   early, missed>>

\* The mutex is taken, at the top of the loop or when pthread_cond_wait returns.
Lock(t) ==
    /\ thread[t] \in {"ready", "woken"} /\ mutex = Nobody
    /\ mutex' = t
    /\ Goto(t, IF thread[t] = "woken" /\ version = "Sendfile" THEN "tested" ELSE "test")
    /\ UNCHANGED <<version, mainVars, workFlag, taskQ, current, pipe, connVars, bounds,
                   early, missed>>

\* The condition of the while, or of the if.
TestQueue(t) ==
    /\ thread[t] = "test"
    /\ Goto(t, IF taskQ = <<>> /\ workFlag THEN "toWait" ELSE "tested")
    /\ early' = (early \/ (main \in {"create", "start"} /\ ~workFlag))
    /\ UNCHANGED <<version, mainVars, workFlag, taskQ, mutex, current, pipe, connVars,
                   bounds, missed>>

CondWait(t) ==
    /\ thread[t] = "toWait"
    /\ mutex' = Nobody
    /\ Goto(t, "waiting")
    /\ UNCHANGED <<version, mainVars, workFlag, taskQ, current, pipe, connVars, bounds,
                   early, missed>>

\* pthread_cond_wait may return without a signal.
SpuriousWake(t) ==
    /\ thread[t] = "waiting" /\ spurious < MaxSpurious
    /\ spurious' = spurious + 1
    /\ Goto(t, "woken")
    /\ UNCHANGED <<version, mainVars, workFlag, taskQ, mutex, current, pipe, connVars,
                   sigints, early, missed>>

\* work_flag is 0: unlock, and in two of the programs tell main the id.
StopWorking(t) ==
    /\ thread[t] = "tested" /\ ~workFlag
    /\ mutex' = Nobody
    /\ Goto(t, IF version = "NoWait" THEN "ended" ELSE "answer")
    /\ UNCHANGED <<version, mainVars, workFlag, taskQ, current, pipe, connVars, bounds,
                   early, missed>>

\* queue_pop takes a task; with an empty queue it leaves current_task alone, which
\* then has no value or one that was freed.
QueuePop(t) ==
    /\ thread[t] = "tested" /\ workFlag
    /\ mutex' = Nobody
    /\ IF taskQ = <<>>
         THEN current' = [current EXCEPT ![t] = Stale] /\ UNCHANGED taskQ
         ELSE current' = [current EXCEPT ![t] = Head(taskQ)] /\ taskQ' = Tail(taskQ)
    /\ Goto(t, "run")
    /\ UNCHANGED <<version, mainVars, workFlag, pipe, connVars, bounds, early, missed>>

\* tran_file: the next message of the transfer.
SendPart(t) ==
    /\ thread[t] = "run" /\ current[t] # Stale
    /\ LET c == current[t] IN
       /\ parts[c] < Parts
       /\ parts' = [parts EXCEPT ![c] = @ + 1]
    /\ UNCHANGED <<version, mainVars, workFlag, taskQ, mutex, threadVars, pipe, conn,
                   bounds, early, missed>>

\* A message to a client that has left: SIGPIPE ends the process.
Sigpipe(t) ==
    /\ thread[t] = "run" /\ current[t] # Stale /\ conn[current[t]] = "gone"
    /\ Enter("dead")
    /\ UNCHANGED <<version, joined, joining, socketOpen, workFlag, taskQ, mutex, threadVars,
                   pipe, connVars, bounds, early, missed>>

\* tran_file closes the connection, and the task is freed.
FinishTask(t) ==
    /\ thread[t] = "run" /\ current[t] # Stale /\ parts[current[t]] = Parts
    /\ conn' = [conn EXCEPT ![current[t]] = "closed"]
    /\ current' = [current EXCEPT ![t] = NoTask]
    /\ Goto(t, "ready")
    /\ UNCHANGED <<version, mainVars, workFlag, taskQ, mutex, pipe, parts, bounds, early,
                   missed>>

\* A value that is no task is used as one: the thread carries on, if the memory
\* allows it, or the process dies.
RunStale(t) ==
    /\ thread[t] = "run" /\ current[t] = Stale
    /\ \/ Goto(t, "ready") /\ current' = [current EXCEPT ![t] = NoTask] /\ UNCHANGED main
       \/ Enter("dead") /\ UNCHANGED threadVars
    /\ UNCHANGED <<version, joined, joining, socketOpen, workFlag, taskQ, mutex, pipe,
                   connVars, bounds, early, missed>>

\* write of the id, and pthread_exit.
AnswerId(t) ==
    /\ thread[t] = "answer"
    /\ pipe' = pipe \o Id(t)
    /\ Goto(t, "ended")
    /\ UNCHANGED <<version, mainVars, workFlag, taskQ, mutex, current, connVars, bounds,
                   early, missed>>

DownloadFile(t) ==
    /\ Running
    /\ \/ Lock(t) \/ TestQueue(t) \/ CondWait(t) \/ StopWorking(t) \/ QueuePop(t)
       \/ SendPart(t) \/ Sigpipe(t) \/ FinishTask(t) \/ RunStale(t) \/ AnswerId(t)

----------------------------------------------------------------------------
Next ==
    \/ \E c \in Conns : ClientLeaves(c)
    \/ SignalExit \/ MainStep
    \/ \E t \in Threads : DownloadFile(t) \/ (Running /\ SpuriousWake(t))

Spec == Init /\ [][Next]_vars

\* main and the threads keep running.
FairSpec ==
    Spec /\ WF_vars(MainStep) /\ \A t \in Threads : WF_vars(DownloadFile(t))

----------------------------------------------------------------------------
(* Properties *)

\* Type invariant; whoever has the mutex is inside its critical section.
TypeOK ==
    /\ version \in Versions /\ main \in MainStates
    /\ joined \in 0 .. NumThreads /\ joining \in Seq(Byte)
    /\ workFlag \in BOOLEAN /\ socketOpen \in BOOLEAN
    /\ taskQ \in Seq(Conns) /\ pipe \in Seq(Byte)
    /\ mutex \in Threads \cup {Nobody}
    /\ thread \in [Threads -> ThreadStates]
    /\ current \in [Threads -> Conns \cup {NoTask, Stale}]
    /\ conn \in [Conns -> ConnStates] /\ parts \in [Conns -> 0 .. Parts]
    /\ sigints \in Nat /\ spurious \in Nat /\ early \in BOOLEAN /\ missed \in BOOLEAN
    /\ \A t \in Threads : thread[t] \in {"test", "toWait", "tested"} <=> mutex = t

Queued(c)  == \E i \in 1 .. Len(taskQ) : taskQ[i] = c
RunBy(t, c) == thread[t] = "run" /\ current[t] = c

\* A connection that was accepted waits in the queue, is served by one thread, or
\* was served: none is lost, and no two threads write to one.  The state has its type.
TaskKept == TypeOK /\
    \A c \in Conns : conn[c] \in {"accepted", "gone"} =>
        /\ Queued(c) \/ \E t \in Threads : RunBy(t, c)
        /\ \A t, u \in Threads : RunBy(t, c) /\ RunBy(u, c) => t = u
        /\ ~(Queued(c) /\ \E t \in Threads : RunBy(t, c))

\* The threads that wait in a while never use a value of current_task that is not a
\* task, unless they ran before work_flag was set: the flag may then change
\* between its two tests.
NoStaleTask ==
    version # "Sendfile" /\ ~early => \A t \in Threads : current[t] # Stale

\* The servers that wait return from main when all threads have ended: no transfer
\* is cut off.  A second SIGINT puts its byte between the ids, and a thread that
\* ran before work_flag was set leaves its id to be read byte by byte.
ExitWaits ==
    main = "returned" /\ sigints <= 1 /\ ~early =>
        \A t \in Threads : thread[t] = "ended"

\* Once main has begun to stop, the process ends, unless a thread tested
\* work_flag before it was cleared and waited afterwards.
ExitCompletes == main = "stop" ~> (~Running \/ missed \/ early)

\* A connection that was accepted is served, unless the server stops first; in
\* "Sendfile" too, where a wakeup may find the task gone, and though main signals
\* after it has released the mutex.
TaskServed ==
    \A c \in Conns : conn[c] = "accepted" ~>
        (conn[c] # "accepted" \/ main \notin {"loop", "signal"} \/ early)
============================================================================
