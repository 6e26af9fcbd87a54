-------------------------- MODULE ThreadPoolProofs --------------------------
(***************************************************************************)
(* The thread pool servers, for any number of threads, connections and     *)
(* signals: no accepted connection is lost or served twice, the threads    *)
(* that wait in a while run tasks only, and main returns after its         *)
(* threads.                                                                *)
(***************************************************************************)
EXTENDS ThreadPool, FiniteSetTheorems, TLAPS

----------------------------------------------------------------------------
(* Types *)

\* main joins one thread after the other.
JoinsInOrder ==
    /\ main \in {"create", "start", "loop", "signal", "stop"} => joined = 0
    /\ main \in {"wake", "read", "join"} => joined < NumThreads
    /\ main = "returned" => joined = NumThreads

\* A thread that runs has a value for its task.
RunHasTask == \A t \in Threads : thread[t] = "run" => current[t] # NoTask

TypeInv == TypeOK /\ JoinsInOrder /\ RunHasTask

\* The numbers in the way of constants.
LEMMA PoolTypes ==
    /\ NumThreads \in Nat \ {0} /\ NumConns \in Nat /\ Parts \in Nat \ {0}
    /\ Nobody \notin Threads /\ NoTask \notin Conns /\ Stale \notin Conns
    /\ ExitByte \in Byte /\ NoTask # Stale
    /\ Threads \subseteq Nat /\ Conns \subseteq Nat
  BY ThreadPoolConstants DEF Nobody, Threads, NoTask, Conns, Stale, Byte

LEMMA IdType == ASSUME NEW t \in Threads PROVE Id(t) \in Seq(Byte) /\ Len(Id(t)) = IdBytes
<1>1. \A i \in 1 .. IdBytes : <<t, i>> \in Byte
  BY DEF Byte
<1> QED BY <1>1, ThreadPoolConstants DEF Id

\* A part of a sequence of bytes.
LEMMA PartType ==
    ASSUME NEW s \in Seq(Byte), NEW m \in 1 .. Len(s) + 1, NEW n \in 0 .. Len(s)
    PROVE  SubSeq(s, m, n) \in Seq(Byte) /\ Len(SubSeq(s, m, n)) = IF m <= n THEN n - m + 1 ELSE 0
  OBVIOUS

LEMMA InitTyped == ASSUME Init PROVE TypeInv
<1> USE PoolTypes DEF Init
<1>1. thread \in [Threads -> ThreadStates] /\ \A t \in Threads : thread[t] = "new"
  BY DEF ThreadStates
<1>2. current \in [Threads -> Conns \cup {NoTask, Stale}]
  OBVIOUS
<1>3. conn \in [Conns -> ConnStates] /\ parts \in [Conns -> 0 .. Parts]
  BY DEF ConnStates
<1>4. taskQ \in Seq(Conns) /\ pipe \in Seq(Byte) /\ joining \in Seq(Byte)
  OBVIOUS
<1>5. \A t \in Threads : thread[t] \in {"test", "toWait", "tested"} <=> mutex = t
  BY <1>1
<1>6. main \in MainStates /\ joined \in 0 .. NumThreads /\ mutex \in Threads \cup {Nobody}
  BY DEF MainStates
<1>7. workFlag \in BOOLEAN /\ socketOpen \in BOOLEAN /\ early \in BOOLEAN /\ missed \in BOOLEAN
  OBVIOUS
<1>8. version \in Versions /\ sigints \in Nat /\ spurious \in Nat
  OBVIOUS
<1>9. TypeOK
  BY <1>1, <1>2, <1>3, <1>4, <1>5, <1>6, <1>7, <1>8 DEF TypeOK
<1> QED BY <1>1, <1>9 DEF TypeInv, JoinsInOrder, RunHasTask

\* Clients, signals and main before it stops.
LEMMA ServeTyped ==
    ASSUME TypeInv,
           (\E c \in Conns : ClientLeaves(c)) \/ SignalExit \/ CreateThread \/ SetWorkFlag \/ MainLoop
    PROVE  TypeInv'
<1> USE PoolTypes DEF TypeInv, TypeOK, JoinsInOrder, RunHasTask, mainVars, threadVars, connVars, bounds
<1>1. ASSUME NEW c \in Conns, ClientLeaves(c) PROVE TypeInv'
  BY <1>1 DEF ClientLeaves, ConnStates
<1>2. CASE SignalExit
  BY <1>2 DEF SignalExit
<1>3. CASE CreateThread
  <2>1. PICK t \in Threads : /\ thread[t] = "new" /\ thread' = [thread EXCEPT ![t] = "ready"]
                             /\ main' = IF t = NumThreads THEN "start" ELSE "create"
    <3>1. \A t \in Threads : t >= t
      OBVIOUS
    <3> QED BY <1>3, <3>1 DEF CreateThread, Goto, Enter
  <2>2. thread' \in [Threads -> ThreadStates]
    BY <2>1 DEF ThreadStates
  <2>3. \A u \in Threads : thread'[u] \in {"test", "toWait", "tested"} <=> mutex' = u
    BY <1>3, <2>1 DEF CreateThread
  <2> QED BY <1>3, <2>1, <2>2, <2>3 DEF CreateThread, MainStates
<1>4. CASE SetWorkFlag
  BY <1>4 DEF SetWorkFlag, Enter, MainStates
<1>5. CASE SignalTask
  <2>1. thread' = thread \/ \E t \in Threads : thread[t] = "waiting" /\ thread' = [thread EXCEPT ![t] = "woken"]
    BY <1>5 DEF SignalTask, CondSignal, Waiting, Goto
  <2>2. CASE thread' = thread
    BY <1>5, <2>2 DEF SignalTask, Enter, MainStates
  <2>3. ASSUME NEW t \in Threads, thread[t] = "waiting", thread' = [thread EXCEPT ![t] = "woken"]
        PROVE  TypeInv'
    BY <1>5, <2>3 DEF SignalTask, Enter, MainStates, ThreadStates
  <2> QED BY <2>1, <2>2, <2>3
<1>6. CASE ReadExit
  <2>1. pipe' \in Seq(Byte)
    BY <1>6 DEF ReadExit
  <2> QED BY <1>6, <2>1 DEF ReadExit, Enter, MainStates
<1>7. ASSUME NEW c \in Conns, Accept(c) PROVE TypeInv'
  BY <1>7 DEF Accept, QueueInsert, Enter, MainStates, ConnStates
<1> QED BY <1>1, <1>2, <1>3, <1>4, <1>5, <1>6, <1>7 DEF MainLoop

\* main when it stops.
LEMMA StopTyped == ASSUME TypeInv, MainExit PROVE TypeInv'
<1> USE PoolTypes DEF TypeInv, TypeOK, JoinsInOrder, RunHasTask, mainVars, threadVars, connVars, bounds
<1>1. CASE ClearWorkFlag
  <2>1. missed' \in BOOLEAN
    BY <1>1 DEF ClearWorkFlag
  <2>2. main' = "wake" /\ joined' = 0 /\ 0 < NumThreads
    BY <1>1 DEF ClearWorkFlag, Enter
  <2> QED BY <1>1, <2>1, <2>2 DEF ClearWorkFlag, MainStates
<1>2. CASE KillThread
  <2>1. joined + 1 \in Threads
    BY <1>2 DEF KillThread, Threads
  <2>2. joining' \in Seq(Byte)
    BY <1>2, <2>1, IdType DEF KillThread
  <2> QED BY <1>2, <2>2 DEF KillThread, Enter, MainStates
<1>3. CASE WakeThreads
  <2>1. /\ thread' \in [Threads -> ThreadStates]
        /\ \A t \in Threads : thread'[t] = thread[t] \/ (thread[t] = "waiting" /\ thread'[t] = "woken")
    <3>1. CASE CondSignal
      BY <3>1 DEF CondSignal, Waiting, Goto, ThreadStates
    <3>2. CASE CondBroadcast
      BY <3>2 DEF CondBroadcast, Waiting, ThreadStates
    <3> QED BY <1>3, <3>1, <3>2, ThreadPoolConstants DEF WakeThreads
  <2> QED BY <1>3, <2>1 DEF WakeThreads, Enter, MainStates
<1>4. CASE ReadId
  <2>1. PICK n \in 1 .. Len(pipe) : /\ joining' = SubSeq(pipe, 1, n)
                                    /\ pipe' = SubSeq(pipe, n + 1, Len(pipe))
    <3>1. Len(pipe) \in Nat \ {0}
      BY <1>4 DEF ReadId
    <3>2. (IF Len(pipe) < IdBytes THEN Len(pipe) ELSE IdBytes) \in 1 .. Len(pipe)
      BY <3>1, ThreadPoolConstants
    <3> QED BY <1>4, <3>2 DEF ReadId
  <2>2. joining' \in Seq(Byte) /\ pipe' \in Seq(Byte)
    BY <2>1, PartType
  <2> QED BY <1>4, <2>2 DEF ReadId, Enter, MainStates
<1>5. CASE JoinThread
  BY <1>5 DEF JoinThread, Enter, MainStates
<1> QED BY <1>1, <1>2, <1>3, <1>4, <1>5 DEF MainExit

LEMMA ThreadTyped ==
    ASSUME TypeInv, NEW t \in Threads, DownloadFile(t) \/ SpuriousWake(t)
    PROVE  TypeInv'
<1> USE PoolTypes DEF TypeInv, TypeOK, JoinsInOrder, RunHasTask, mainVars, threadVars, connVars, bounds, Goto
<1>1. CASE Lock(t)
  BY <1>1 DEF Lock, ThreadStates
<1>2. CASE TestQueue(t)
  BY <1>2 DEF TestQueue, ThreadStates
<1>3. CASE CondWait(t)
  BY <1>3 DEF CondWait, ThreadStates
<1>4. CASE StopWorking(t)
  BY <1>4 DEF StopWorking, ThreadStates
<1>5. CASE QueuePop(t)
  <2>1. /\ current' \in [Threads -> Conns \cup {NoTask, Stale}] /\ current'[t] # NoTask
        /\ \A u \in Threads \ {t} : current'[u] = current[u]
        /\ taskQ' \in Seq(Conns)
    <3>1. taskQ # <<>> => Head(taskQ) \in Conns /\ Tail(taskQ) \in Seq(Conns)
      OBVIOUS
    <3> QED BY <1>5, <3>1 DEF QueuePop
  <2> QED BY <1>5, <2>1 DEF QueuePop, ThreadStates
<1>6. CASE SendPart(t)
  <2>1. current[t] \in Conns
    BY <1>6 DEF SendPart
  <2>2. parts[current[t]] + 1 \in 0 .. Parts
    <3>1. parts[current[t]] \in 0 .. Parts /\ parts[current[t]] < Parts
      BY <1>6, <2>1 DEF SendPart
    <3> HIDE DEF TypeInv
    <3> QED BY <3>1, ThreadPoolConstants
  <2>3. parts' \in [Conns -> 0 .. Parts]
    BY <1>6, <2>1, <2>2 DEF SendPart
  <2> QED BY <1>6, <2>3 DEF SendPart
<1>7. CASE Sigpipe(t)
  BY <1>7 DEF Sigpipe, Enter, MainStates
<1>8. CASE FinishTask(t)
  BY <1>8 DEF FinishTask, ThreadStates, ConnStates
<1>9. CASE RunStale(t)
  BY <1>9 DEF RunStale, ThreadStates, Enter, MainStates
<1>10. CASE AnswerId(t)
  <2>1. pipe' \in Seq(Byte)
    BY <1>10, IdType DEF AnswerId
  <2> QED BY <1>10, <2>1 DEF AnswerId, ThreadStates
<1>11. CASE SpuriousWake(t)
  BY <1>11 DEF SpuriousWake, ThreadStates
<1> QED BY <1>1, <1>2, <1>3, <1>4, <1>5, <1>6, <1>7, <1>8, <1>9, <1>10, <1>11 DEF DownloadFile

LEMMA StepTyped == ASSUME TypeInv, [Next]_vars PROVE TypeInv'
<1>1. CASE UNCHANGED vars
  BY <1>1 DEF vars, TypeInv, TypeOK, JoinsInOrder, RunHasTask, mainVars, threadVars, connVars, bounds
<1> QED BY <1>1, ServeTyped, StopTyped, ThreadTyped DEF Next, MainStep

LEMMA PoolTypeCorrect == Spec => []TypeInv
<1> QED BY InitTyped, StepTyped, PTL DEF Spec

----------------------------------------------------------------------------
(* TaskKept *)

\* A connection is open as long as it waits in the queue or a thread serves it.
OpenIsTaken ==
    \A c \in Conns :
        conn[c] \in {"accepted", "gone"} <=> Queued(c) \/ \E t \in Threads : RunBy(t, c)

\* It is in one place.
TakenOnce ==
    /\ \A i, j \in 1 .. Len(taskQ) : taskQ[i] = taskQ[j] => i = j
    /\ \A c \in Conns : \A t, u \in Threads : RunBy(t, c) /\ RunBy(u, c) => t = u
    /\ \A c \in Conns : \A t \in Threads : ~(Queued(c) /\ RunBy(t, c))

TaskInv == TypeInv /\ OpenIsTaken /\ TakenOnce

\* Most steps leave the connections, the queue and the tasks of the threads alone.
TasksSame ==
    /\ taskQ' = taskQ /\ conn' = conn
    /\ \A t \in Threads, c \in Conns : RunBy(t, c)' <=> RunBy(t, c)

LEMMA TasksSameKeeps ==
    ASSUME TaskInv, TypeInv', TasksSame PROVE TaskInv'
<1>1. \A c \in Conns : Queued(c)' <=> Queued(c)
  BY DEF TasksSame, Queued
<1>2. OpenIsTaken'
  BY <1>1 DEF TaskInv, OpenIsTaken, TasksSame
<1>3. TakenOnce'
  BY <1>1 DEF TaskInv, TakenOnce, TasksSame
<1> QED BY <1>2, <1>3 DEF TaskInv

\* The steps of main and of the signal handler, but for Accept.
LEMMA MainKeepsTasks ==
    ASSUME TypeInv,
           SignalExit \/ CreateThread \/ SetWorkFlag \/ SignalTask \/ ReadExit \/ MainExit
    PROVE  TasksSame
<1> USE DEF TypeInv, TypeOK, mainVars, threadVars, connVars, RunBy
<1>1. /\ taskQ' = taskQ /\ conn' = conn /\ current' = current
  BY DEF SignalExit, CreateThread, SetWorkFlag, SignalTask, ReadExit, MainExit, ClearWorkFlag,
         KillThread, WakeThreads, ReadId, JoinThread
<1>2. ASSUME CondSignal PROVE \A t \in Threads : thread'[t] = "run" <=> thread[t] = "run"
  BY <1>2 DEF CondSignal, Waiting, Goto
<1>3. ASSUME CondBroadcast PROVE \A t \in Threads : thread'[t] = "run" <=> thread[t] = "run"
  BY <1>3 DEF CondBroadcast, Waiting
<1>4. \A t \in Threads : thread'[t] = "run" <=> thread[t] = "run"
  <2>1. CASE CreateThread
    <3>1. PICK t \in Threads : thread[t] = "new" /\ thread' = [thread EXCEPT ![t] = "ready"]
      <4>1. \A t \in Threads : t >= t
        BY PoolTypes
      <4> QED BY <2>1, <4>1 DEF CreateThread, Goto
    <3> QED BY <3>1
  <2>2. CASE SignalTask
    BY <2>2, <1>2 DEF SignalTask
  <2>3. CASE WakeThreads
    <3>1. thread' = thread \/ CondSignal \/ CondBroadcast
      BY <2>3, ThreadPoolConstants DEF WakeThreads
    <3> QED BY <3>1, <1>2, <1>3
  <2>4. CASE SignalExit \/ SetWorkFlag \/ ReadExit \/ ClearWorkFlag \/ KillThread \/ ReadId \/ JoinThread
    BY <2>4 DEF SignalExit, SetWorkFlag, ReadExit, ClearWorkFlag, KillThread, ReadId, JoinThread
  <2> QED BY <2>1, <2>2, <2>3, <2>4 DEF MainExit
<1> QED BY <1>1, <1>4 DEF TasksSame

\* The steps of a thread that take no task and finish none.
LEMMA ThreadKeepsTasks ==
    ASSUME TypeInv, NEW t \in Threads,
           \/ Lock(t) \/ TestQueue(t) \/ CondWait(t) \/ StopWorking(t)
           \/ SendPart(t) \/ Sigpipe(t) \/ RunStale(t) \/ AnswerId(t) \/ SpuriousWake(t)
    PROVE  TasksSame
<1> USE DEF TypeInv, TypeOK, mainVars, threadVars, connVars, RunBy, Goto
<1>1. CASE RunStale(t)
  BY <1>1, PoolTypes DEF RunStale, TasksSame
<1>2. CASE SendPart(t) \/ Sigpipe(t)
  BY <1>2 DEF SendPart, Sigpipe, TasksSame
<1>3. CASE Lock(t) \/ TestQueue(t) \/ CondWait(t) \/ StopWorking(t) \/ AnswerId(t) \/ SpuriousWake(t)
  <2>1. taskQ' = taskQ /\ conn' = conn /\ current' = current
    BY <1>3 DEF Lock, TestQueue, CondWait, StopWorking, AnswerId, SpuriousWake
  <2>2. \E s \in ThreadStates \ {"run"} : thread' = [thread EXCEPT ![t] = s]
    BY <1>3 DEF Lock, TestQueue, CondWait, StopWorking, AnswerId, SpuriousWake, ThreadStates
  <2>3. thread[t] # "run"
    BY <1>3 DEF Lock, TestQueue, CondWait, StopWorking, AnswerId, SpuriousWake
  <2> QED BY <2>1, <2>2, <2>3 DEF TasksSame
<1> QED BY <1>1, <1>2, <1>3

\* A client that leaves stays open for the server.
LEMMA LeaveKeepsTasks ==
    ASSUME TaskInv, TypeInv', NEW c \in Conns, ClientLeaves(c) PROVE TaskInv'
<1>1. /\ \A d \in Conns : Queued(d)' <=> Queued(d)
      /\ \A t \in Threads, d \in Conns : RunBy(t, d)' <=> RunBy(t, d)
      /\ taskQ' = taskQ
  BY DEF ClientLeaves, Queued, RunBy, threadVars
<1>2. \A d \in Conns : conn'[d] \in {"accepted", "gone"} <=> conn[d] \in {"accepted", "gone"}
  BY DEF ClientLeaves, TaskInv, TypeInv, TypeOK
<1>3. OpenIsTaken'
  BY <1>1, <1>2 DEF TaskInv, OpenIsTaken
<1>4. TakenOnce'
  BY <1>1 DEF TaskInv, TakenOnce
<1> QED BY <1>3, <1>4 DEF TaskInv

\* What a queue holds, and that it holds each once.
Holds(q, x) == \E i \in 1 .. Len(q) : q[i] = x
Distinct(q) == \A i, j \in 1 .. Len(q) : q[i] = q[j] => i = j

LEMMA AppendHolds ==
    ASSUME NEW S, NEW q \in Seq(S), NEW x \in S, Distinct(q), ~Holds(q, x)
    PROVE  /\ Distinct(Append(q, x))
           /\ \A y : Holds(Append(q, x), y) <=> Holds(q, y) \/ y = x
<1> DEFINE r == Append(q, x)  n == Len(q)
<1>1. /\ n \in Nat /\ Len(r) = n + 1 /\ r[n + 1] = x
      /\ \A i \in 1 .. n : r[i] = q[i]
  OBVIOUS
<1>2. \A i \in 1 .. n : q[i] # x
  BY DEF Holds
<1> HIDE DEF r, n
<1>3. \A i \in 1 .. Len(r) : i \in 1 .. n \/ i = n + 1
  BY <1>1
<1>4. (\A i \in 1 .. n : i \in 1 .. Len(r)) /\ n + 1 \in 1 .. Len(r)
  BY <1>1
<1>5. \A i, j \in 1 .. n : q[i] = q[j] => i = j
  BY DEF Distinct, n
<1>6. Distinct(r)
  BY <1>1, <1>2, <1>3, <1>5 DEF Distinct
<1>7. ASSUME NEW y PROVE Holds(r, y) <=> (\E i \in 1 .. n : q[i] = y) \/ y = x
  BY <1>1, <1>3, <1>4 DEF Holds
<1> QED BY <1>6, <1>7 DEF r, n, Holds

LEMMA TailHolds ==
    ASSUME NEW S, NEW q \in Seq(S), q # <<>>, Distinct(q)
    PROVE  /\ Head(q) \in S /\ Tail(q) \in Seq(S)
           /\ Holds(q, Head(q)) /\ Distinct(Tail(q))
           /\ \A y : Holds(Tail(q), y) <=> Holds(q, y) /\ y # Head(q)
<1> DEFINE r == Tail(q)  n == Len(q)
<1>1. /\ n \in Nat \ {0} /\ Len(r) = n - 1 /\ Head(q) = q[1]
      /\ \A i \in 1 .. n - 1 : r[i] = q[i + 1]
      /\ q[1] \in S /\ r \in Seq(S)
  OBVIOUS
<1>2. \A i, j \in 1 .. n : q[i] = q[j] => i = j
  BY DEF Distinct, n
<1> HIDE DEF r, n
<1>3. \A i \in 1 .. n - 1 : i + 1 \in 1 .. n /\ i + 1 # 1
  BY <1>1
<1>4. 1 \in 1 .. n /\ \A i \in 1 .. n : i = 1 \/ (i - 1 \in 1 .. n - 1 /\ (i - 1) + 1 = i)
  BY <1>1
<1>5. Distinct(r)
  <2>1. ASSUME NEW i \in 1 .. n - 1, NEW j \in 1 .. n - 1, r[i] = r[j] PROVE i = j
    <3>1. i + 1 = j + 1
      BY <2>1, <1>1, <1>2, <1>3
    <3> QED BY <3>1
  <2> QED BY <2>1, <1>1 DEF Distinct
<1>6. ASSUME NEW y PROVE Holds(r, y) <=> (\E i \in 1 .. n : q[i] = y) /\ y # q[1]
  <2>1. Holds(r, y) => (\E i \in 1 .. n : q[i] = y) /\ y # q[1]
    <3>1. ASSUME NEW i \in 1 .. n - 1, r[i] = y PROVE (\E j \in 1 .. n : q[j] = y) /\ y # q[1]
      BY <3>1, <1>1, <1>2, <1>3, <1>4
    <3> QED BY <3>1, <1>1 DEF Holds
  <2>2. ASSUME NEW i \in 1 .. n, q[i] = y, y # q[1] PROVE Holds(r, y)
    <3>1. i - 1 \in 1 .. n - 1 /\ (i - 1) + 1 = i
      BY <2>2, <1>4
    <3>2. r[i - 1] = y
      BY <3>1, <2>2, <1>1
    <3> QED BY <3>1, <3>2, <1>1 DEF Holds
  <2> QED BY <2>1, <2>2
<1>7. Holds(q, Head(q))
  BY <1>1, <1>4 DEF Holds, n
<1> QED BY <1>1, <1>5, <1>6, <1>7 DEF r, n, Holds

\* The accepted connection was nowhere, and is at the end of the queue now.
LEMMA AcceptKeepsTasks ==
    ASSUME TaskInv, TypeInv', NEW c \in Conns, Accept(c) PROVE TaskInv'
<1>1. /\ conn[c] = "connecting" /\ conn' = [conn EXCEPT ![c] = "accepted"]
      /\ taskQ' = Append(taskQ, c) /\ thread' = thread /\ current' = current
  <2>1. c >= c
    BY PoolTypes
  <2> QED BY <2>1 DEF Accept, QueueInsert, IsNext, threadVars
<1>2. taskQ \in Seq(Conns) /\ conn \in [Conns -> ConnStates]
  BY DEF TaskInv, TypeInv, TypeOK
<1>3. ~Holds(taskQ, c) /\ Distinct(taskQ) /\ \A t \in Threads : ~RunBy(t, c)
  BY <1>1 DEF TaskInv, OpenIsTaken, TakenOnce, Queued, Holds, Distinct
<1>4. Distinct(taskQ') /\ \A d \in Conns : Queued(d)' <=> Queued(d) \/ d = c
  BY <1>1, <1>2, <1>3, AppendHolds DEF Queued, Holds
<1>5. \A t \in Threads, d \in Conns : RunBy(t, d)' <=> RunBy(t, d)
  BY <1>1 DEF RunBy
<1>6. \A d \in Conns : conn'[d] = IF d = c THEN "accepted" ELSE conn[d]
  BY <1>1, <1>2
<1>7. OpenIsTaken'
  BY <1>4, <1>5, <1>6 DEF TaskInv, OpenIsTaken
<1>8. TakenOnce'
  BY <1>3, <1>4, <1>5 DEF TaskInv, TakenOnce, Distinct
<1> QED BY <1>7, <1>8 DEF TaskInv

\* The head of the queue goes from there to the thread.
LEMMA PopKeepsTasks ==
    ASSUME TaskInv, TypeInv', NEW t \in Threads, QueuePop(t) PROVE TaskInv'
<1>1. /\ thread[t] = "tested" /\ thread' = [thread EXCEPT ![t] = "run"] /\ conn' = conn
  BY DEF QueuePop, Goto, connVars
<1>2. /\ taskQ \in Seq(Conns) /\ thread \in [Threads -> ThreadStates]
      /\ current \in [Threads -> Conns \cup {NoTask, Stale}]
  BY DEF TaskInv, TypeInv, TypeOK
<1>3. CASE taskQ = <<>>
  <2>1. taskQ' = taskQ /\ current' = [current EXCEPT ![t] = Stale]
    BY <1>3 DEF QueuePop
  <2>2. TasksSame
    BY <1>1, <1>2, <2>1, PoolTypes DEF TasksSame, RunBy
  <2> QED BY <2>2, TasksSameKeeps DEF TaskInv
<1>4. CASE taskQ # <<>>
  <2> DEFINE h == Head(taskQ)
  <2>1. taskQ' = Tail(taskQ) /\ current' = [current EXCEPT ![t] = h]
    BY <1>4 DEF QueuePop
  <2>2. /\ h \in Conns /\ Queued(h) /\ Distinct(taskQ')
        /\ \A d \in Conns : Queued(d)' <=> Queued(d) /\ d # h
    <3>1. Distinct(taskQ)
      BY DEF TaskInv, TakenOnce, Distinct
    <3> QED BY <1>2, <1>4, <2>1, <3>1, TailHolds DEF Queued, Holds
  <2> HIDE DEF h
  <2>3. \A u \in Threads : ~RunBy(u, h)
    BY <2>2 DEF TaskInv, TakenOnce
  <2>4. \A u \in Threads, d \in Conns : RunBy(u, d)' <=> RunBy(u, d) \/ (u = t /\ d = h)
    BY <1>1, <1>2, <2>1, <2>2 DEF RunBy
  <2>5. OpenIsTaken'
    BY <1>1, <2>2, <2>4 DEF TaskInv, OpenIsTaken
  <2>6. \A d \in Conns : \A u, v \in Threads : RunBy(u, d)' /\ RunBy(v, d)' => u = v
    BY <2>3, <2>4 DEF TaskInv, TakenOnce
  <2>7. \A d \in Conns : \A u \in Threads : ~(Queued(d)' /\ RunBy(u, d)')
    BY <2>2, <2>4 DEF TaskInv, TakenOnce
  <2> QED BY <2>2, <2>5, <2>6, <2>7 DEF TaskInv, TakenOnce, Distinct
<1> QED BY <1>3, <1>4

\* The connection is closed, and the thread has no task.
LEMMA FinishKeepsTasks ==
    ASSUME TaskInv, TypeInv', NEW t \in Threads, FinishTask(t) PROVE TaskInv'
<1>1. /\ thread \in [Threads -> ThreadStates] /\ conn \in [Conns -> ConnStates]
      /\ current \in [Threads -> Conns \cup {NoTask, Stale}]
  BY DEF TaskInv, TypeInv, TypeOK
<1>2. PICK c \in Conns :
         /\ RunBy(t, c)
         /\ thread' = [thread EXCEPT ![t] = "ready"] /\ taskQ' = taskQ
         /\ conn' = [conn EXCEPT ![c] = "closed"] /\ current' = [current EXCEPT ![t] = NoTask]
  BY <1>1 DEF FinishTask, TaskInv, TypeInv, RunHasTask, RunBy, Goto
<1>3. \A d \in Conns : Queued(d)' <=> Queued(d)
  BY <1>2 DEF Queued
<1>4. \A d \in Conns : RunBy(t, d) => d = c
  BY <1>2 DEF RunBy
<1>5. \A u \in Threads, d \in Conns : RunBy(u, d)' <=> RunBy(u, d) /\ u # t
  BY <1>1, <1>2 DEF RunBy
<1>6. ~Queued(c) /\ \A u \in Threads : RunBy(u, c) => u = t
  BY <1>2 DEF TaskInv, TakenOnce
<1>7. \A d \in Conns : conn'[d] = IF d = c THEN "closed" ELSE conn[d]
  BY <1>1, <1>2
<1>8. OpenIsTaken'
  <2>1. ~Queued(c)' /\ \A u \in Threads : ~RunBy(u, c)'
    BY <1>2, <1>3, <1>5, <1>6
  <2>2. ASSUME NEW d \in Conns, d # c
        PROVE (\E u \in Threads : RunBy(u, d)') <=> (\E u \in Threads : RunBy(u, d))
    BY <2>2, <1>5, <1>4
  <2>3. ASSUME NEW d \in Conns
        PROVE  conn'[d] \in {"accepted", "gone"} <=> Queued(d)' \/ \E u \in Threads : RunBy(u, d)'
    <3>1. CASE d = c
      BY <3>1, <2>1, <1>7
    <3>2. CASE d # c
      BY <3>2, <2>2, <1>3, <1>7 DEF TaskInv, OpenIsTaken
    <3> QED BY <3>1, <3>2
  <2> QED BY <2>3 DEF OpenIsTaken
<1>9. TakenOnce'
  BY <1>2, <1>3, <1>5 DEF TaskInv, TakenOnce
<1> QED BY <1>8, <1>9 DEF TaskInv

LEMMA TaskStep == ASSUME TaskInv, [Next]_vars PROVE TaskInv'
<1>1. TypeInv /\ TypeInv'
  BY StepTyped DEF TaskInv
<1>2. CASE UNCHANGED vars
  <2>1. TasksSame
    BY <1>2 DEF vars, threadVars, connVars, TasksSame, RunBy
  <2> QED BY <1>1, <2>1, TasksSameKeeps
<1>3. ASSUME NEW c \in Conns, ClientLeaves(c) \/ Accept(c) PROVE TaskInv'
  BY <1>1, <1>3, LeaveKeepsTasks, AcceptKeepsTasks
<1>4. CASE SignalExit \/ CreateThread \/ SetWorkFlag \/ SignalTask \/ ReadExit \/ MainExit
  BY <1>1, <1>4, MainKeepsTasks, TasksSameKeeps
<1>5. ASSUME NEW t \in Threads, DownloadFile(t) \/ SpuriousWake(t) PROVE TaskInv'
  BY <1>1, <1>5, ThreadKeepsTasks, TasksSameKeeps, PopKeepsTasks, FinishKeepsTasks DEF DownloadFile
<1> QED BY <1>2, <1>3, <1>4, <1>5 DEF Next, MainStep, MainLoop

LEMMA InitTasks == ASSUME Init PROVE TaskInv
<1>1. TypeInv /\ taskQ = <<>>
  BY InitTyped DEF Init
<1>2. \A c \in Conns : ~Queued(c) /\ conn[c] = "connecting"
  BY <1>1 DEF Init, Queued
<1>3. \A t \in Threads, c \in Conns : ~RunBy(t, c)
  BY DEF Init, RunBy
<1> QED BY <1>1, <1>2, <1>3 DEF TaskInv, OpenIsTaken, TakenOnce

LEMMA TasksTaken == Spec => []TaskInv
<1> QED BY InitTasks, TaskStep, PTL DEF Spec

\* In all three programs an accepted connection is kept until it was served, and no
\* two threads serve it.
THEOREM AcceptedIsKept == Spec => []TaskKept
<1>1. TaskInv => TaskKept
  BY DEF TaskInv, TypeInv, OpenIsTaken, TakenOnce, TaskKept
<1> QED BY <1>1, TasksTaken, PTL

----------------------------------------------------------------------------
(* NoStaleTask *)

\* work_flag is set while main serves.
FlagIsSet ==
    /\ main \in {"create", "start"} => ~workFlag
    /\ main \in {"loop", "signal", "stop"} => workFlag
    /\ main \in {"wake", "read", "join", "returned"} => ~workFlag

\* Before that no thread has tested it.
NobodyTested ==
    ~early /\ main \in {"create", "start"} =>
        \A t \in Threads : thread[t] \in {"new", "ready", "test"}

\* A thread that has left its while finds a task, or the flag cleared.
TestHolds ==
    ~early /\ version # "Sendfile" =>
        \A t \in Threads : thread[t] = "tested" => ~workFlag \/ taskQ # <<>>

StaleInv == TypeInv /\ FlagIsSet /\ NobodyTested /\ TestHolds /\ NoStaleTask

LEMMA InitStale == ASSUME Init PROVE StaleInv
<1>1. TypeInv
  BY InitTyped
<1>2. \A t \in Threads : thread[t] = "new" /\ current[t] # Stale
  BY PoolTypes DEF Init
<1> QED BY <1>1, <1>2 DEF Init, StaleInv, FlagIsSet, NobodyTested, TestHolds, NoStaleTask

\* Clients, signals and main before it stops.
LEMMA ServeStale ==
    ASSUME StaleInv, TypeInv',
           (\E c \in Conns : ClientLeaves(c)) \/ SignalExit \/ CreateThread \/ SetWorkFlag \/ MainLoop
    PROVE  StaleInv'
<1> USE DEF StaleInv, FlagIsSet, NobodyTested, TestHolds, NoStaleTask, mainVars, threadVars, connVars, bounds
<1>1. thread \in [Threads -> ThreadStates]
  BY DEF TypeInv, TypeOK
<1>2. ASSUME NEW c \in Conns, ClientLeaves(c) PROVE StaleInv'
  BY <1>2 DEF ClientLeaves
<1>3. CASE SignalExit
  BY <1>3 DEF SignalExit
<1>4. CASE CreateThread
  <2>1. PICK t \in Threads : /\ thread' = [thread EXCEPT ![t] = "ready"]
                             /\ main' \in {"create", "start"}
    BY <1>4 DEF CreateThread, Goto, Enter
  <2> QED BY <1>1, <1>4, <2>1 DEF CreateThread
<1>5. CASE SetWorkFlag
  BY <1>5 DEF SetWorkFlag, Enter
<1>6. CASE SignalTask
  <2>1. \A t \in Threads : thread'[t] = thread[t] \/ thread'[t] = "woken"
    BY <1>1, <1>6 DEF SignalTask, CondSignal, Waiting, Goto
  <2> QED BY <1>6, <2>1 DEF SignalTask, Enter
<1>7. CASE ReadExit
  BY <1>7 DEF ReadExit, Enter
<1>8. ASSUME NEW c \in Conns, Accept(c) PROVE StaleInv'
  <2>1. taskQ' # <<>>
    BY <1>8 DEF Accept, QueueInsert, TypeInv, TypeOK
  <2> QED BY <1>8, <2>1 DEF Accept, Enter
<1> QED BY <1>2, <1>3, <1>4, <1>5, <1>6, <1>7, <1>8 DEF MainLoop

\* main when it stops: work_flag stays cleared.
LEMMA StopStale == ASSUME StaleInv, TypeInv', MainExit PROVE StaleInv'
<1> USE DEF StaleInv, FlagIsSet, NobodyTested, TestHolds, NoStaleTask, mainVars, threadVars, connVars, bounds
<1>1. thread \in [Threads -> ThreadStates]
  BY DEF TypeInv, TypeOK
<1>2. CASE ClearWorkFlag
  BY <1>2 DEF ClearWorkFlag, Enter
<1>3. CASE KillThread
  BY <1>3 DEF KillThread, Enter
<1>4. CASE WakeThreads
  <2>1. ASSUME CondSignal \/ CondBroadcast
        PROVE  \A t \in Threads : thread'[t] = thread[t] \/ thread'[t] = "woken"
    BY <1>1, <2>1 DEF CondSignal, CondBroadcast, Waiting, Goto
  <2>2. \A t \in Threads : thread'[t] = thread[t] \/ thread'[t] = "woken"
    BY <1>4, <2>1, ThreadPoolConstants DEF WakeThreads, TypeInv, TypeOK
  <2> QED BY <1>4, <2>2 DEF WakeThreads, Enter
<1>5. CASE ReadId
  BY <1>5 DEF ReadId, Enter
<1>6. CASE JoinThread
  BY <1>6 DEF JoinThread, Enter
<1> QED BY <1>2, <1>3, <1>4, <1>5, <1>6 DEF MainExit

\* The threads: the one that has tested the queue holds the mutex, so no other
\* takes the task it found.
LEMMA ThreadStale ==
    ASSUME StaleInv, TypeInv', NEW t \in Threads, DownloadFile(t) \/ (Running /\ SpuriousWake(t))
    PROVE  StaleInv'
<1> USE DEF StaleInv, FlagIsSet, NobodyTested, TestHolds, NoStaleTask, mainVars, threadVars, connVars,
            bounds, Goto
<1>1. /\ thread \in [Threads -> ThreadStates] /\ taskQ \in Seq(Conns)
      /\ current \in [Threads -> Conns \cup {NoTask, Stale}]
      /\ \A u \in Threads : thread[u] \in {"test", "toWait", "tested"} <=> mutex = u
  BY DEF TypeInv, TypeOK
<1>2. CASE Lock(t)
  <2>1. version # "Sendfile" \/ thread[t] = "ready" => thread' = [thread EXCEPT ![t] = "test"]
    BY <1>2 DEF Lock
  <2> QED BY <1>1, <1>2, <2>1 DEF Lock
<1>3. CASE TestQueue(t)
  BY <1>1, <1>3 DEF TestQueue
<1>4. CASE CondWait(t)
  BY <1>1, <1>4 DEF CondWait
<1>5. CASE StopWorking(t)
  <2>1. early \/ main \notin {"create", "start"}
    BY <1>5 DEF StopWorking
  <2> QED BY <1>1, <1>5, <2>1 DEF StopWorking
<1>6. CASE QueuePop(t)
  <2>1. /\ thread' = [thread EXCEPT ![t] = "run"]
        /\ version' = version /\ main' = main /\ workFlag' = workFlag /\ early' = early
    BY <1>6 DEF QueuePop
  <2>2. ASSUME NEW u \in Threads PROVE thread'[u] # "tested"
    BY <1>1, <1>6, <2>1 DEF QueuePop
  <2>3. version # "Sendfile" /\ ~early => taskQ # <<>>
    BY <1>6 DEF QueuePop
  <2>4. taskQ # <<>> => Head(taskQ) # Stale
    BY <1>1, PoolTypes
  <2>5. NoStaleTask'
    BY <1>1, <1>6, <2>1, <2>3, <2>4 DEF QueuePop
  <2>6. NobodyTested'
    BY <1>1, <1>6, <2>1 DEF QueuePop
  <2> QED BY <2>1, <2>2, <2>5, <2>6
<1>7. CASE SendPart(t)
  BY <1>7 DEF SendPart
<1>8. CASE Sigpipe(t)
  BY <1>8 DEF Sigpipe, Enter
<1>9. CASE FinishTask(t)
  BY <1>1, <1>9, PoolTypes DEF FinishTask
<1>10. CASE RunStale(t)
  BY <1>1, <1>10, PoolTypes DEF RunStale, Enter
<1>11. CASE AnswerId(t)
  BY <1>1, <1>11 DEF AnswerId
<1>12. CASE SpuriousWake(t)
  BY <1>1, <1>12 DEF SpuriousWake
<1> QED BY <1>2, <1>3, <1>4, <1>5, <1>6, <1>7, <1>8, <1>9, <1>10, <1>11, <1>12 DEF DownloadFile

LEMMA StaleStep == ASSUME StaleInv, [Next]_vars PROVE StaleInv'
<1>1. TypeInv'
  BY StepTyped DEF StaleInv
<1>2. CASE UNCHANGED vars
  BY <1>1, <1>2 DEF vars, StaleInv, FlagIsSet, NobodyTested, TestHolds, NoStaleTask, mainVars, threadVars
<1> QED BY <1>1, <1>2, ServeStale, StopStale, ThreadStale DEF Next, MainStep

LEMMA FlagAndTasks == Spec => []StaleInv
<1> QED BY InitStale, StaleStep, PTL DEF Spec

\* In the two servers that wait in a while, and whose threads ran no test before
\* work_flag was set, every task that a thread uses is a connection.
THEOREM TasksAreConnections == Spec => []NoStaleTask
<1> QED BY FlagAndTasks, PTL DEF StaleInv

----------------------------------------------------------------------------
(* ExitWaits *)

Ended    == {t \in Threads : thread[t] = "ended"}
Leaving  == {t \in Threads : thread[t] \in {"answer", "ended"}}
Stopping == {"wake", "read", "join", "returned"}

\* Threads that main has heard of.
Heard == joined + (IF main = "join" THEN 1 ELSE 0)

\* While main serves, the pipe holds the bytes of the SIGINTs, and no thread leaves.
PipeOfSigints ==
    /\ main \in {"create", "start", "loop", "signal"} =>
         /\ Len(pipe) = sigints /\ \A i \in 1 .. Len(pipe) : pipe[i] = ExitByte
         /\ Leaving = {}
    /\ main = "stop" => sigints = 1 /\ pipe = <<>> /\ Leaving = {}

\* Afterwards it holds the ids of the threads that have ended and were not heard of.
PipeOfIds ==
    main \in Stopping /\ version # "NoWait" =>
        /\ sigints >= 1 /\ Heard <= Cardinality(Ended)
        /\ Len(pipe) = IdBytes * (Cardinality(Ended) - Heard)

\* SERVER_QUIT_NO_WAIT joins threads that have ended, or dies.
JoinedEnded ==
    version = "NoWait" =>
        /\ main # "read"
        /\ main \in Stopping => \A t \in Threads : t <= Heard => thread[t] = "ended"

ExitInv ==
    /\ StaleInv /\ JoinedEnded
    /\ ~early /\ sigints <= 1 => PipeOfSigints /\ PipeOfIds


LEMMA InitExit == ASSUME Init PROVE ExitInv
<1>1. StaleInv
  BY InitStale
<1>2. Leaving = {}
  BY DEF Init, Leaving
<1> QED BY <1>1, <1>2 DEF Init, ExitInv, JoinedEnded, PipeOfSigints, PipeOfIds, Stopping

LEMMA EndedType == IsFiniteSet(Threads) /\ Cardinality(Threads) = NumThreads
                   /\ IsFiniteSet(Ended) /\ Cardinality(Ended) \in Nat
<1>1. IsFiniteSet(Threads) /\ Cardinality(Threads) = NumThreads
  BY FS_Interval, ThreadPoolConstants DEF Threads
<1>2. Ended \in SUBSET Threads
  BY DEF Ended
<1> QED BY <1>1, <1>2, FS_Subset, FS_CardinalityType

\* A step that main, the pipe and the threads that leave have no part in.
LEMMA ExitSameKeeps ==
    ASSUME ExitInv, StaleInv', UNCHANGED <<version, main, joined, pipe, sigints>>,
           early => early', Leaving' = Leaving, Ended' = Ended
    PROVE  ExitInv'
<1>1. JoinedEnded'
  BY DEF ExitInv, JoinedEnded, Stopping, Heard, Ended
<1>2. PipeOfSigints => PipeOfSigints'
  BY DEF PipeOfSigints
<1>3. PipeOfIds => PipeOfIds'
  BY DEF PipeOfIds, Stopping, Heard
<1> QED BY <1>1, <1>2, <1>3 DEF ExitInv, StaleInv, TypeInv, TypeOK

\* Nothing is promised of a process that died.
LEMMA DeadKeeps == ASSUME StaleInv', main' = "dead" PROVE ExitInv'
  BY DEF ExitInv, JoinedEnded, PipeOfSigints, PipeOfIds, Stopping

\* Clients, signals and main before it stops.
LEMMA ServeExit ==
    ASSUME ExitInv, StaleInv',
           (\E c \in Conns : ClientLeaves(c)) \/ SignalExit \/ CreateThread \/ SetWorkFlag \/ MainLoop
    PROVE  ExitInv'
<1> USE DEF mainVars, threadVars, connVars, bounds, Stopping
<1>1. /\ thread \in [Threads -> ThreadStates] /\ pipe \in Seq(Byte) /\ sigints \in Nat
      /\ main \in MainStates
  BY DEF ExitInv, StaleInv, TypeInv, TypeOK
<1>2. ASSUME NEW c \in Conns, ClientLeaves(c) PROVE ExitInv'
  BY <1>2, ExitSameKeeps DEF ClientLeaves, Leaving, Ended
<1>3. CASE SignalExit
  <2>1. /\ UNCHANGED <<version, main, joined, thread, early>>
        /\ sigints' = sigints + 1 /\ pipe' = Append(pipe, ExitByte)
    BY <1>3 DEF SignalExit
  <2>2. JoinedEnded'
    BY <2>1 DEF ExitInv, JoinedEnded, Heard
  <2>3. Leaving' = Leaving
    BY <2>1 DEF Leaving
  <2>4. ASSUME ~early', sigints' <= 1 PROVE PipeOfSigints' /\ PipeOfIds'
    <3>1. sigints = 0 /\ PipeOfSigints /\ PipeOfIds
      BY <1>1, <2>1, <2>4 DEF ExitInv
    <3>2. main \notin {"stop"} \cup Stopping \/ version = "NoWait"
      BY <3>1 DEF PipeOfSigints, PipeOfIds
    <3>3. main \notin {"stop"}
      BY <3>1 DEF PipeOfSigints
    <3>4. ASSUME main \in {"create", "start", "loop", "signal"}
          PROVE  Len(pipe') = sigints' /\ \A i \in 1 .. Len(pipe') : pipe'[i] = ExitByte
      BY <1>1, <2>1, <3>1, <3>4 DEF PipeOfSigints
    <3>5. PipeOfSigints'
      BY <2>1, <2>3, <3>1, <3>3, <3>4 DEF PipeOfSigints
    <3> QED BY <2>1, <3>2, <3>5 DEF PipeOfIds
  <2> QED BY <2>2, <2>4 DEF ExitInv
<1>4. CASE CreateThread
  <2>1. PICK t \in Threads : /\ thread[t] = "new" /\ thread' = [thread EXCEPT ![t] = "ready"]
                             /\ main' \in {"create", "start"}
    <3>1. \A t \in Threads : t >= t
      BY PoolTypes
    <3> QED BY <1>4, <3>1 DEF CreateThread, Goto, Enter
  <2>2. Leaving' = Leaving
    BY <1>1, <2>1 DEF Leaving
  <2>3. UNCHANGED <<version, pipe, sigints, early>> /\ main = "create"
    BY <1>4 DEF CreateThread
  <2> QED BY <2>1, <2>2, <2>3 DEF ExitInv, JoinedEnded, PipeOfSigints, PipeOfIds
<1>5. CASE SetWorkFlag
  BY <1>5 DEF SetWorkFlag, Enter, ExitInv, JoinedEnded, PipeOfSigints, PipeOfIds, Leaving
<1>6. CASE SignalTask
  <2>1. \A t \in Threads : thread'[t] = thread[t] \/ (thread[t] = "waiting" /\ thread'[t] = "woken")
    BY <1>1, <1>6 DEF SignalTask, CondSignal, Waiting, Goto
  <2>2. Leaving' = Leaving
    BY <2>1 DEF Leaving
  <2> QED BY <1>6, <2>2 DEF SignalTask, Enter, ExitInv, JoinedEnded, PipeOfSigints, PipeOfIds
<1>7. CASE ReadExit
  <2>1. /\ UNCHANGED <<version, joined, thread, early, sigints>>
        /\ main = "loop" /\ pipe # <<>> /\ pipe' = Tail(pipe)
        /\ main' = IF Head(pipe) = ExitByte THEN "stop" ELSE "loop"
    BY <1>7 DEF ReadExit, Enter
  <2>2. JoinedEnded'
    BY <2>1 DEF JoinedEnded
  <2>3. Leaving' = Leaving
    BY <2>1 DEF Leaving
  <2>4. ASSUME ~early', sigints' <= 1 PROVE PipeOfSigints' /\ PipeOfIds'
    <3>1. Len(pipe) = sigints /\ sigints <= 1 /\ pipe[1] = ExitByte /\ Leaving = {}
      BY <1>1, <2>1, <2>4 DEF ExitInv, PipeOfSigints
    <3>2. sigints = 1 /\ pipe' = <<>> /\ main' = "stop"
      BY <1>1, <2>1, <3>1
    <3> QED BY <2>1, <2>3, <3>1, <3>2 DEF PipeOfSigints, PipeOfIds
  <2> QED BY <2>2, <2>4 DEF ExitInv
<1>8. ASSUME NEW c \in Conns, Accept(c) PROVE ExitInv'
  BY <1>8 DEF Accept, Enter, ExitInv, JoinedEnded, PipeOfSigints, PipeOfIds, Leaving
<1> QED BY <1>2, <1>3, <1>4, <1>5, <1>6, <1>7, <1>8 DEF MainLoop

\* main when it stops.
LEMMA StopExit == ASSUME ExitInv, StaleInv', MainExit PROVE ExitInv'
<1> USE DEF mainVars, threadVars, connVars, bounds, Stopping
<1>1. /\ thread \in [Threads -> ThreadStates] /\ pipe \in Seq(Byte) /\ sigints \in Nat
      /\ main \in MainStates /\ joined \in Nat /\ IdBytes \in Nat \ {0}
      /\ version \in {"NoWait", "Wait", "Sendfile"}
  BY ThreadPoolConstants DEF ExitInv, StaleInv, TypeInv, TypeOK
<1>2. CASE ClearWorkFlag
  <2>1. /\ UNCHANGED <<version, joined, thread, early, sigints, pipe>>
        /\ main = "stop" /\ main' = "wake" /\ joined = 0
    BY <1>2 DEF ClearWorkFlag, Enter, ExitInv, StaleInv, TypeInv, JoinsInOrder
  <2>2. JoinedEnded'
    <3>1. \A t \in Threads : ~(t <= 0)
      BY DEF Threads
    <3>2. Heard' = 0 /\ main' # "read"
      BY <2>1 DEF Heard
    <3> QED BY <3>1, <3>2 DEF JoinedEnded
  <2>3. ASSUME ~early', sigints' <= 1 PROVE PipeOfSigints' /\ PipeOfIds'
    <3>1. sigints = 1 /\ pipe = <<>> /\ Leaving = {}
      BY <2>1, <2>3 DEF ExitInv, PipeOfSigints
    <3>2. Ended' = {}
      BY <2>1, <3>1 DEF Ended, Leaving
    <3>3. Cardinality(Ended') = 0 /\ Heard' = 0 /\ Len(pipe') = 0 /\ sigints' = 1
      BY <2>1, <3>1, <3>2, FS_EmptySet DEF Heard
    <3> QED BY <1>1, <2>1, <3>3 DEF PipeOfSigints, PipeOfIds
  <2> QED BY <2>2, <2>3 DEF ExitInv
<1>3. CASE KillThread
  <2>1. CASE main' = "dead"
    BY <2>1, DeadKeeps
  <2>2. CASE main' # "dead"
    <3>1. /\ UNCHANGED <<version, joined, thread>>
          /\ main = "wake" /\ main' = "join" /\ version = "NoWait"
          /\ thread[joined + 1] = "ended"
      BY <1>3, <2>2 DEF KillThread, Enter
    <3>2. JoinedEnded'
      <4>1. \A t \in Threads : t <= joined => thread[t] = "ended"
        BY <1>1, <3>1 DEF ExitInv, JoinedEnded, Heard
      <4>2. \A t \in Threads : t <= joined + 1 => t <= joined \/ t = joined + 1
        BY <1>1, PoolTypes
      <4> QED BY <3>1, <4>1, <4>2 DEF JoinedEnded, Heard
    <3> QED BY <3>1, <3>2 DEF ExitInv, PipeOfSigints, PipeOfIds
  <2> QED BY <2>1, <2>2
<1>4. CASE WakeThreads
  <2>1. /\ UNCHANGED <<version, joined, early, sigints, pipe>>
        /\ main = "wake" /\ main' = "read" /\ version # "NoWait"
    BY <1>4 DEF WakeThreads, Enter
  <2>2. ASSUME CondSignal \/ CondBroadcast
        PROVE  \A t \in Threads : thread'[t] = thread[t] \/ (thread[t] = "waiting" /\ thread'[t] = "woken")
    BY <1>1, <2>2 DEF CondSignal, CondBroadcast, Waiting, Goto
  <2>3. Ended' = Ended
    <3>1. \A t \in Threads : thread'[t] = thread[t] \/ (thread[t] = "waiting" /\ thread'[t] = "woken")
      BY <1>1, <1>4, <2>2 DEF WakeThreads
    <3> QED BY <3>1 DEF Ended
  <2> QED BY <2>1, <2>3 DEF ExitInv, JoinedEnded, PipeOfSigints, PipeOfIds, Heard
<1>5. CASE ReadId
  <2> DEFINE n == IF Len(pipe) < IdBytes THEN Len(pipe) ELSE IdBytes
             unread == Cardinality(Ended) - joined
  <2>1. /\ UNCHANGED <<version, joined, thread, early, sigints>>
        /\ main = "read" /\ main' = "join" /\ pipe # <<>>
        /\ pipe' = SubSeq(pipe, n + 1, Len(pipe))
    BY <1>5 DEF ReadId, Enter
  <2>2. version # "NoWait"
    BY <2>1 DEF ExitInv, JoinedEnded
  <2>3. ASSUME ~early', sigints' <= 1 PROVE PipeOfSigints' /\ PipeOfIds'
    <3>1. sigints >= 1 /\ joined <= Cardinality(Ended) /\ Len(pipe) = IdBytes * unread
      BY <1>1, <2>1, <2>2, <2>3 DEF ExitInv, PipeOfIds, Heard
    <3>2. unread \in Nat /\ Len(pipe) \in Nat \ {0}
      BY <1>1, <2>1, <3>1, EndedType
    <3> HIDE DEF unread
    <3>3. unread >= 1
      BY <1>1, <3>1, <3>2
    <3>4. PICK k \in Nat : unread = k + 1
      <4>1. unread - 1 \in Nat /\ unread = (unread - 1) + 1
        BY <3>2, <3>3
      <4> QED BY <4>1
    <3>5. Len(pipe) = IdBytes * k + IdBytes /\ IdBytes * k \in Nat
      BY <1>1, <3>1, <3>4
    <3>6. n = IdBytes
      BY <1>1, <3>5
    <3>7. Len(pipe') = IdBytes * k
      BY <1>1, <2>1, <3>5, <3>6
    <3>8. Ended' = Ended /\ Heard' = joined + 1
      BY <2>1 DEF Ended, Heard
    <3>9. Cardinality(Ended) - (joined + 1) = k /\ joined + 1 <= Cardinality(Ended)
      BY <1>1, <3>4, EndedType DEF unread
    <3> QED BY <2>1, <2>2, <3>1, <3>7, <3>8, <3>9 DEF PipeOfSigints, PipeOfIds
  <2> QED BY <2>1, <2>2, <2>3 DEF ExitInv, JoinedEnded
<1>6. CASE JoinThread
  <2>1. CASE main' = "dead"
    BY <2>1, DeadKeeps
  <2>2. CASE main' # "dead"
    <3>1. /\ UNCHANGED <<version, thread, early, sigints, pipe>>
          /\ main = "join" /\ main' \in {"returned", "wake"} /\ joined' = joined + 1
      BY <1>6, <2>2 DEF JoinThread, Enter
    <3>2. Heard' = Heard /\ Ended' = Ended
      BY <1>1, <3>1 DEF Heard, Ended
    <3> QED BY <3>1, <3>2 DEF ExitInv, JoinedEnded, PipeOfSigints, PipeOfIds
  <2> QED BY <2>1, <2>2
<1> QED BY <1>2, <1>3, <1>4, <1>5, <1>6 DEF MainExit

\* A thread leaves when the flag is cleared, and writes its id once.
LEMMA ThreadExit ==
    ASSUME ExitInv, StaleInv', NEW t \in Threads, DownloadFile(t) \/ (Running /\ SpuriousWake(t))
    PROVE  ExitInv'
<1> USE DEF mainVars, threadVars, connVars, bounds, Goto
<1>1. /\ thread \in [Threads -> ThreadStates] /\ pipe \in Seq(Byte) /\ main \in MainStates
      /\ IdBytes \in Nat \ {0} /\ joined \in Nat /\ StaleInv
  BY ThreadPoolConstants DEF ExitInv, StaleInv, TypeInv, TypeOK
<1>2. CASE main' = "dead"
  BY <1>2, DeadKeeps
<1>3. CASE StopWorking(t)
  <2>1. /\ UNCHANGED <<version, main, joined, pipe, sigints, early>>
        /\ thread[t] = "tested" /\ ~workFlag
        /\ thread' = [thread EXCEPT ![t] = IF version = "NoWait" THEN "ended" ELSE "answer"]
    BY <1>3 DEF StopWorking
  <2>2. early \/ main \notin {"create", "start", "loop", "signal", "stop"}
    BY <1>1, <2>1 DEF StaleInv, FlagIsSet, NobodyTested
  <2>3. version # "NoWait" => Ended' = Ended
    BY <1>1, <2>1 DEF Ended
  <2>4. \A u \in Threads : thread[u] = "ended" => thread'[u] = "ended"
    BY <1>1, <2>1
  <2>5. JoinedEnded'
    BY <2>1, <2>4 DEF ExitInv, JoinedEnded, Heard, Stopping
  <2> QED BY <2>1, <2>2, <2>3, <2>5 DEF ExitInv, PipeOfSigints, PipeOfIds, Heard, Stopping
<1>4. CASE AnswerId(t)
  <2>1. /\ UNCHANGED <<version, main, joined, sigints, early>>
        /\ thread[t] = "answer" /\ thread' = [thread EXCEPT ![t] = "ended"]
        /\ pipe' = pipe \o Id(t)
    BY <1>4 DEF AnswerId
  <2>2. t \in Leaving /\ t \notin Ended
    BY <2>1 DEF Leaving, Ended
  <2>3. Ended' = Ended \cup {t}
    BY <1>1, <2>1 DEF Ended
  <2>4. JoinedEnded'
    <3>1. \A u \in Threads : thread[u] = "ended" => thread'[u] = "ended"
      BY <1>1, <2>1
    <3> QED BY <2>1, <3>1 DEF ExitInv, JoinedEnded, Heard, Stopping
  <2>5. ASSUME ~early', sigints' <= 1 PROVE PipeOfSigints' /\ PipeOfIds'
    <3>1. PipeOfSigints /\ PipeOfIds
      BY <2>1, <2>5 DEF ExitInv
    <3>2. PipeOfSigints'
      BY <2>1, <2>2, <3>1 DEF PipeOfSigints
    <3>3. Cardinality(Ended') = Cardinality(Ended) + 1
      BY <2>2, <2>3, EndedType, FS_AddElement
    <3>4. Len(pipe') = Len(pipe) + IdBytes /\ Len(pipe) \in Nat
      <4>1. Id(t) \in Seq(Byte) /\ Len(Id(t)) = IdBytes
        BY IdType
      <4>2. \A a, b \in Seq(Byte) : Len(a \o b) = Len(a) + Len(b) /\ Len(a) \in Nat
        OBVIOUS
      <4> QED BY <1>1, <2>1, <4>1, <4>2
    <3>5. ASSUME main \in Stopping, version # "NoWait" PROVE PipeOfIds'
      <4> DEFINE k == Cardinality(Ended) - Heard
      <4>1. /\ sigints >= 1 /\ Heard <= Cardinality(Ended) /\ Len(pipe) = IdBytes * k
        BY <3>1, <3>5 DEF PipeOfIds
      <4>2. Heard \in Nat /\ Heard' = Heard
        BY <1>1, <2>1 DEF Heard
      <4>3. k \in Nat /\ Cardinality(Ended') - Heard = k + 1 /\ Heard <= Cardinality(Ended')
        BY <3>3, <4>1, <4>2, EndedType
      <4> HIDE DEF k
      <4>4. IdBytes * (k + 1) = IdBytes * k + IdBytes
        BY <1>1, <4>3
      <4> QED BY <2>1, <3>4, <4>1, <4>2, <4>3, <4>4 DEF PipeOfIds
    <3> QED BY <2>1, <3>2, <3>5 DEF PipeOfIds, Stopping
  <2> QED BY <2>4, <2>5 DEF ExitInv
<1>5. CASE /\ main' # "dead"
           /\ \/ Lock(t) \/ TestQueue(t) \/ CondWait(t) \/ QueuePop(t) \/ SendPart(t)
              \/ Sigpipe(t) \/ FinishTask(t) \/ RunStale(t) \/ SpuriousWake(t)
  <2>1. UNCHANGED <<version, main, joined, pipe, sigints>>
    BY <1>5 DEF Lock, TestQueue, CondWait, QueuePop, SendPart, Sigpipe, FinishTask, RunStale,
                SpuriousWake, Enter
  <2>2. early => early'
    BY <1>5 DEF Lock, TestQueue, CondWait, QueuePop, SendPart, Sigpipe, FinishTask, RunStale,
                SpuriousWake
  <2>3. \/ thread' = thread
        \/ /\ thread[t] \notin {"answer", "ended"}
           /\ \E s \in ThreadStates \ {"answer", "ended"} : thread' = [thread EXCEPT ![t] = s]
    BY <1>5 DEF Lock, TestQueue, CondWait, QueuePop, SendPart, Sigpipe, FinishTask, RunStale,
                SpuriousWake, Enter, ThreadStates
  <2>4. Leaving' = Leaving /\ Ended' = Ended
    BY <1>1, <2>3 DEF Leaving, Ended
  <2> QED BY <2>1, <2>2, <2>4, ExitSameKeeps
<1> QED BY <1>2, <1>3, <1>4, <1>5 DEF DownloadFile

LEMMA ExitStep == ASSUME ExitInv, [Next]_vars PROVE ExitInv'
<1>1. StaleInv'
  BY StaleStep DEF ExitInv
<1>2. CASE UNCHANGED vars
  BY <1>1, <1>2, ExitSameKeeps DEF vars, mainVars, threadVars, bounds, Leaving, Ended
<1> QED BY <1>1, <1>2, ServeExit, StopExit, ThreadExit DEF Next, MainStep

LEMMA ExitCounts == Spec => []ExitInv
<1> QED BY InitExit, ExitStep, PTL DEF Spec

\* When main returns, as many threads have ended as it counted, and that is all of
\* them: one id in the pipe for each that ended, one id read for each that was joined.
THEOREM MainReturnsLast == Spec => []ExitWaits
<1>1. ASSUME ExitInv PROVE ExitWaits
  <2>1. SUFFICES ASSUME main = "returned", sigints <= 1, ~early
                 PROVE  \A t \in Threads : thread[t] = "ended"
    BY DEF ExitWaits
  <2>2. joined = NumThreads /\ Heard = NumThreads
    BY <1>1, <2>1, ThreadPoolConstants DEF ExitInv, StaleInv, TypeInv, JoinsInOrder, Heard
  <2>3. CASE version = "NoWait"
    BY <1>1, <2>1, <2>2, <2>3 DEF ExitInv, JoinedEnded, Stopping, Threads
  <2>4. CASE version # "NoWait"
    <3>1. NumThreads <= Cardinality(Ended)
      BY <1>1, <2>1, <2>2, <2>4 DEF ExitInv, PipeOfIds, Stopping
    <3>2. Ended \in SUBSET Threads
      BY DEF Ended
    <3>3. Cardinality(Ended) <= Cardinality(Threads)
      BY <3>2, EndedType, FS_Subset
    <3>4. Cardinality(Threads) = Cardinality(Ended)
      BY <3>1, <3>3, EndedType, ThreadPoolConstants
    <3>5. Threads = Ended
      BY <3>2, <3>4, EndedType, FS_Subset
    <3> QED BY <3>5 DEF Ended
  <2> QED BY <2>3, <2>4
<1> QED BY <1>1, ExitCounts, PTL
============================================================================
