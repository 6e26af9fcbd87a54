-------------------------- MODULE SmallServerProofs --------------------------
(***************************************************************************)
(* The servers that stand alone.  The process pool, for any number of      *)
(* children and clients: busy_flag is exact as long as the parent serves,  *)
(* and descriptor 0, with which the send would fail or never end, comes    *)
(* only after the parent has stopped serving.  The chat rooms, for any     *)
(* number of users: everyone is told what the others say from when it      *)
(* joins on, in order and once.  The chat for two, for any number of       *)
(* clients: the server watches the last accepted one.                      *)
(***************************************************************************)
EXTENDS ProcessPool, GroupChat, ChatPair, FiniteSetTheorems,
        WellFoundedInduction, TLAPS

----------------------------------------------------------------------------
(* The process pool *)

PoolMessage == [fd : Clients \cup {NoConn}, flag : {-1, 0}]

\* The types, with the queues as sequences.  No child ends by the exit flag, which
\* none of them recognises.
TypeInv ==
    /\ version \in {"20180706", "20180707"}
    /\ parent \in ParentStates /\ exitByte \in BOOLEAN
    /\ busy \in [Children -> BOOLEAN]
    /\ child \in [Children -> ChildStates \ {"exited"}]
    /\ toChild \in [Children -> Seq(PoolMessage)] /\ toParent \in [Children -> Nat]
    /\ conn \in [Children -> Clients \cup {NoConn}]
    /\ client \in [Clients -> ClientStates]
    /\ backlog \in Seq(Clients)

\* While the parent serves, what a child is given are connections of clients.
GivenClients ==
    parent = "events" => \A j \in Children :
        /\ \A i \in 1 .. Len(toChild[j]) : toChild[j][i].fd \in Clients
        /\ child[j] = "send" => conn[j] \in Clients
        /\ child[j] # "spinning"

BusyInv == TypeInv /\ GivenClients /\ BusyIsExact

\* No value of the flag that a child receives is -1.
LEMMA FlagLost == ASSUME NEW flag PROVE FlagReceived(flag) # -1
  BY DEF FlagReceived

LEMMA InitBusy == ASSUME PoolInit PROVE BusyInv
<1>1. TypeInv
  <2>1. backlog \in Seq(Clients) /\ \A j \in Children : toChild[j] \in Seq(PoolMessage)
    BY DEF PoolInit
  <2>2. toChild \in [Children -> Seq(PoolMessage)] /\ client \in [Clients -> ClientStates]
    BY <2>1 DEF PoolInit, ClientStates
  <2>3. child \in [Children -> ChildStates \ {"exited"}] /\ conn \in [Children -> Clients \cup {NoConn}]
    BY DEF PoolInit, ChildStates
  <2> QED BY <2>1, <2>2, <2>3 DEF PoolInit, TypeInv, ParentStates
<1>2. GivenClients
  BY DEF PoolInit, GivenClients
<1>3. BusyIsExact
  BY DEF PoolInit, BusyIsExact, Sum
<1> QED BY <1>1, <1>2, <1>3 DEF BusyInv

----------------------------------------------------------------------------
(* Steps of one child that leave the parent and the other children alone *)

ChildVars(i) == <<busy[i], child[i], toChild[i], toParent[i], conn[i]>>

\* Such a step keeps the invariant if what it does to j does.
LEMMA OneChild ==
    ASSUME BusyInv, TypeInv', parent' = parent, NEW j \in Children,
           \A i \in Children \ {j} : UNCHANGED ChildVars(i),
           parent = "events" =>
               /\ \A i \in 1 .. Len(toChild'[j]) : toChild'[j][i].fd \in Clients
               /\ child'[j] = "send" => conn'[j] \in Clients
               /\ child'[j] # "spinning"
               /\ ~Gone(j)' => Sum(j)' = IF busy'[j] THEN 1 ELSE 0
    PROVE  BusyInv'
<1>1. \A i \in Children \ {j} :
         /\ busy'[i] = busy[i] /\ child'[i] = child[i] /\ toChild'[i] = toChild[i]
         /\ toParent'[i] = toParent[i] /\ conn'[i] = conn[i]
  BY DEF ChildVars
<1>2. GivenClients'
  BY <1>1 DEF BusyInv, GivenClients
<1>3. \A i \in Children \ {j} : Sum(i)' = Sum(i) /\ Gone(i)' = Gone(i)
  BY <1>1 DEF Sum, Gone
<1>4. BusyIsExact'
  BY <1>1, <1>3 DEF BusyInv, BusyIsExact
<1> QED BY <1>2, <1>4 DEF BusyInv

\* A child that is gone is dead, and a message is taken from the head of a queue.
LEMMA HeadTaken ==
    ASSUME NEW q \in Seq(PoolMessage), q # <<>>
    PROVE  /\ Head(q) \in PoolMessage /\ Tail(q) \in Seq(PoolMessage) /\ Head(q) = q[1]
           /\ Len(Tail(q)) = Len(q) - 1 /\ Len(q) >= 1
           /\ \A i \in 1 .. Len(Tail(q)) : Tail(q)[i] = q[i + 1]
  OBVIOUS

LEMMA RecvFdKeeps == ASSUME BusyInv, NEW j \in Children, RecvFd(j) PROVE BusyInv'
<1> DEFINE msg == Head(toChild[j])
<1>1. /\ child[j] = "recv" /\ toChild[j] \in Seq(PoolMessage) /\ toChild[j] # <<>>
      /\ conn' = [conn EXCEPT ![j] = msg.fd]
      /\ child' = [child EXCEPT ![j] = "send"]
      /\ toChild' = [toChild EXCEPT ![j] = Tail(toChild[j])]
      /\ UNCHANGED <<version, parent, busy, toParent, client, backlog, exitByte>>
  BY FlagLost DEF RecvFd, Goto, BusyInv, TypeInv
<1>2. /\ msg \in PoolMessage /\ Tail(toChild[j]) \in Seq(PoolMessage) /\ msg = toChild[j][1]
      /\ Len(Tail(toChild[j])) = Len(toChild[j]) - 1 /\ Len(toChild[j]) >= 1
      /\ \A i \in 1 .. Len(Tail(toChild[j])) : Tail(toChild[j])[i] = toChild[j][i + 1]
  BY <1>1, HeadTaken
<1>3. TypeInv'
  BY <1>1, <1>2 DEF BusyInv, TypeInv, ChildStates, PoolMessage
<1>4. /\ child'[j] = "send" /\ conn'[j] = msg.fd /\ toChild'[j] = Tail(toChild[j])
      /\ busy'[j] = busy[j] /\ toParent'[j] = toParent[j]
  BY <1>1 DEF BusyInv, TypeInv
<1>5. \A i \in Children \ {j} : UNCHANGED ChildVars(i)
  BY <1>1 DEF ChildVars, BusyInv, TypeInv
<1>6. ASSUME parent = "events"
      PROVE  /\ \A i \in 1 .. Len(toChild'[j]) : toChild'[j][i].fd \in Clients
             /\ conn'[j] \in Clients
  <2>1. \A i \in 1 .. Len(toChild[j]) : toChild[j][i].fd \in Clients
    BY <1>6 DEF BusyInv, GivenClients
  <2>2. \A i \in 1 .. Len(Tail(toChild[j])) : i + 1 \in 1 .. Len(toChild[j])
    BY <1>1, <1>2
  <2> QED BY <2>1, <2>2, <1>2, <1>4
<1>7. Sum(j)' = Sum(j)
  BY <1>1, <1>2, <1>4 DEF Sum, BusyInv, TypeInv
<1>8. parent = "events" => Sum(j)' = IF busy'[j] THEN 1 ELSE 0
  BY <1>1, <1>4, <1>7 DEF BusyInv, BusyIsExact, Gone
<1> QED BY <1>1, <1>3, <1>4, <1>5, <1>6, <1>8, OneChild

\* While the parent serves, no child sees the end of its stream.
LEMMA RecvEofKeeps == ASSUME BusyInv, NEW j \in Children, RecvEof(j) PROVE BusyInv'
<1>1. /\ parent # "events" /\ parent' = parent
      /\ conn' = [conn EXCEPT ![j] = NoConn] /\ child' = [child EXCEPT ![j] = "send"]
      /\ UNCHANGED <<version, parent, busy, toChild, toParent, client, backlog, exitByte>>
  BY DEF RecvEof, ParentEndOpen, Goto
<1>2. TypeInv'
  BY <1>1 DEF BusyInv, TypeInv, ChildStates
<1> QED BY <1>1, <1>2 DEF BusyInv, GivenClients, BusyIsExact

LEMMA SendKeeps ==
    ASSUME BusyInv, NEW j \in Children,
           TranFile(j) \/ TranFileLeft(j) \/ TranFileNoSocket(j)
    PROVE  BusyInv'
<1>1. /\ child[j] = "send"
      /\ UNCHANGED <<version, parent, busy, toChild, toParent, conn, backlog, exitByte>>
  BY DEF TranFile, TranFileLeft, TranFileNoSocket
<1>2. PICK s \in {"report", "spinning", "dead"} :
         child' = [child EXCEPT ![j] = s] /\ (s = "spinning" => conn[j] = NoConn)
  BY DEF TranFile, TranFileLeft, TranFileNoSocket, Goto
<1>3. client' \in [Clients -> ClientStates]
  BY DEF TranFile, TranFileLeft, TranFileNoSocket, BusyInv, TypeInv, ClientStates
<1>4. TypeInv'
  BY <1>1, <1>2, <1>3 DEF BusyInv, TypeInv, ChildStates
<1>5. child'[j] = s /\ \A i \in Children \ {j} : UNCHANGED ChildVars(i)
  BY <1>1, <1>2 DEF ChildVars, BusyInv, TypeInv
<1>6. parent = "events" => s # "spinning"
  BY <1>1, <1>2, PoolConstants DEF BusyInv, GivenClients
<1>7. s = "report" => Sum(j)' = Sum(j)
  BY <1>1, <1>5 DEF Sum
<1>8. parent = "events" => (~Gone(j)' => Sum(j)' = IF busy'[j] THEN 1 ELSE 0)
  BY <1>1, <1>5, <1>6, <1>7 DEF Gone, BusyInv, BusyIsExact
<1>9. parent = "events" => \A i \in 1 .. Len(toChild'[j]) : toChild'[j][i].fd \in Clients
  BY <1>1 DEF BusyInv, GivenClients
<1> QED BY <1>1, <1>4, <1>5, <1>6, <1>8, <1>9, OneChild

LEMMA ReportKeeps == ASSUME BusyInv, NEW j \in Children, Report(j) PROVE BusyInv'
<1>1. child[j] = "report" /\ UNCHANGED <<version, parent, busy, toChild, conn, client, backlog, exitByte>>
  BY DEF Report
<1>2. CASE ParentEndOpen(j)
  <2>1. toParent' = [toParent EXCEPT ![j] = @ + 1] /\ child' = [child EXCEPT ![j] = "recv"]
    BY <1>2 DEF Report, Goto
  <2>2. TypeInv'
    BY <1>1, <2>1 DEF BusyInv, TypeInv, ChildStates
  <2>3. /\ child'[j] = "recv" /\ toParent'[j] = toParent[j] + 1 /\ toParent[j] \in Nat
        /\ \A i \in Children \ {j} : UNCHANGED ChildVars(i)
    BY <1>1, <2>1 DEF ChildVars, BusyInv, TypeInv
  <2>4. toChild[j] \in Seq(PoolMessage)
    BY DEF BusyInv, TypeInv
  <2>5. Sum(j)' = Sum(j)
    BY <1>1, <2>3, <2>4 DEF Sum
  <2>6. parent = "events" => Sum(j)' = IF busy'[j] THEN 1 ELSE 0
    BY <1>1, <2>5 DEF Gone, BusyInv, BusyIsExact
  <2>7. parent = "events" => \A i \in 1 .. Len(toChild'[j]) : toChild'[j][i].fd \in Clients
    BY <1>1 DEF BusyInv, GivenClients
  <2> QED BY <1>1, <2>2, <2>3, <2>6, <2>7, OneChild
<1>3. CASE ~ParentEndOpen(j)
  <2>1. child' = [child EXCEPT ![j] = "dead"] /\ UNCHANGED toParent /\ parent # "events"
    BY <1>3 DEF Report, Goto, ParentEndOpen
  <2>2. TypeInv'
    BY <1>1, <2>1 DEF BusyInv, TypeInv, ChildStates
  <2> QED BY <1>1, <2>1, <2>2 DEF BusyInv, GivenClients, BusyIsExact
<1> QED BY <1>2, <1>3

----------------------------------------------------------------------------
(* Steps of the parent *)

\* Refusing connections changes no more than client.
LEMMA RefuseTyped == ASSUME BusyInv, NEW cs, Refuse(cs) PROVE client' \in [Clients -> ClientStates]
  BY DEF BusyInv, TypeInv, Refuse, ClientStates

\* Once the parent has stopped serving there is nothing to keep but the types.
LEMMA StoppedKeeps ==
    ASSUME BusyInv, parent' # "events", TypeInv'
    PROVE  BusyInv'
  BY DEF BusyInv, GivenClients, BusyIsExact

\* The search for the first child finds it.
LEMMA FirstIsOne ==
    ASSUME NEW js \in SUBSET Children, js # {}
    PROVE  FirstOf(js) \in js
<1> DEFINE Lt == {p \in Nat \X Nat : p[1] < p[2]}
<1>1. IsWellFoundedOn(Lt, Nat)
  BY NatLessThanWellFounded, Zenon DEF OpToRel
<1> HIDE DEF Lt
<1>2. js \in SUBSET Nat
  BY PoolConstants DEF Children
<1>3. PICK m \in js : \A n \in js : ~(<<n, m>> \in Lt)
  BY <1>1, <1>2, WFMin
<1>4. \A x, y \in Nat : x < y => <<x, y>> \in Lt
  BY DEF Lt
<1>5. \A x, y \in Nat : ~(x < y) => y <= x
  OBVIOUS
<1>6. \A n \in js : m <= n
  BY <1>2, <1>3, <1>4, <1>5
<1> QED BY <1>6 DEF FirstOf

LEMMA AcceptKeeps == ASSUME BusyInv, Accept PROVE BusyInv'
<1>1. /\ parent = "events" /\ backlog \in Seq(Clients) /\ backlog # <<>>
      /\ UNCHANGED <<version, child, toParent, conn, exitByte>>
  BY DEF Accept, BusyInv, TypeInv
<1>2. Head(backlog) \in Clients /\ Tail(backlog) \in Seq(Clients)
  BY <1>1
<1>3. CASE NoChild
  <2>1. backlog' = Tail(backlog) /\ UNCHANGED <<parent, busy, toChild>>
    BY <1>3 DEF NoChild
  <2>2. client' \in [Clients -> ClientStates]
    BY <1>3, RefuseTyped DEF NoChild
  <2>3. TypeInv'
    BY <1>1, <1>2, <2>1, <2>2 DEF BusyInv, TypeInv
  <2> QED BY <1>1, <2>1, <2>3 DEF BusyInv, GivenClients, BusyIsExact, Sum, Gone
<1>4. CASE Dispatch
  <2>1. PICK j \in Children : j = FirstOf(Free) /\ ~busy[j]
    <3>1. FirstOf(Free) \in Free
      BY <1>4, FirstIsOne DEF Dispatch, Free
    <3> QED BY <3>1 DEF Free
  <2>0. PICK msg \in PoolMessage : msg = [fd |-> Head(backlog), flag |-> 0]
    BY <1>2 DEF PoolMessage
  <2>2. CASE Gone(j)
    <3>1. ParentKilled /\ UNCHANGED <<busy, toChild>>
      BY <1>4, <2>1, <2>2 DEF Dispatch
    <3>2. parent' = "dead" /\ backlog' = <<>> /\ client' \in [Clients -> ClientStates]
      BY <3>1, RefuseTyped DEF ParentKilled
    <3>3. TypeInv'
      BY <1>1, <3>1, <3>2 DEF BusyInv, TypeInv, ParentStates
    <3> QED BY <3>2, <3>3, StoppedKeeps
  <2>3. CASE ~Gone(j)
    <3>1. /\ toChild' = [toChild EXCEPT ![j] = Append(@, msg)]
          /\ busy' = [busy EXCEPT ![j] = TRUE]
          /\ backlog' = Tail(backlog) /\ UNCHANGED <<parent, client>>
      BY <1>4, <2>0, <2>1, <2>3 DEF Dispatch
    <3>2. msg \in PoolMessage /\ msg.fd \in Clients /\ toChild[j] \in Seq(PoolMessage)
      BY <1>2, <2>0, <2>1 DEF BusyInv, TypeInv
    <3>3. TypeInv'
      BY <1>1, <1>2, <2>1, <3>1, <3>2 DEF BusyInv, TypeInv
    <3>4. /\ busy'[j] = TRUE /\ toChild'[j] = Append(toChild[j], msg)
          /\ \A i \in Children \ {j} : UNCHANGED ChildVars(i)
      BY <1>1, <2>1, <3>1 DEF ChildVars, BusyInv, TypeInv
    <3>5. Sum(j) = 0
      BY <1>1, <2>1, <2>3 DEF BusyInv, BusyIsExact
    <3>6. Len(toChild'[j]) = Len(toChild[j]) + 1 /\ Len(toChild[j]) \in Nat
      BY <3>2, <3>4
    <3>7. toParent[j] \in Nat /\ toParent'[j] = toParent[j] /\ child'[j] = child[j]
      BY <1>1, <2>1 DEF BusyInv, TypeInv
    <3>8. Sum(j)' = 1
      BY <3>5, <3>6, <3>7 DEF Sum
    <3>9. \A i \in 1 .. Len(toChild[j]) : toChild[j][i].fd \in Clients
      BY <1>1, <2>1 DEF BusyInv, GivenClients
    <3>10. \A i \in 1 .. Len(toChild'[j]) : toChild'[j][i].fd \in Clients
      BY <3>2, <3>4, <3>6, <3>9
    <3>11. (child'[j] = "send" => conn'[j] \in Clients) /\ child'[j] # "spinning"
      BY <1>1, <2>1 DEF BusyInv, GivenClients
    <3> QED BY <1>1, <2>1, <3>1, <3>3, <3>4, <3>8, <3>10, <3>11, OneChild
  <2> QED BY <2>2, <2>3
<1> QED BY <1>3, <1>4 DEF Accept

\* A byte of a child that lives is the only thing that is due from it.
LEMMA NotBusyKeeps == ASSUME BusyInv, NEW j \in Children, NotBusy(j) PROVE BusyInv'
<1>1. /\ parent = "events"
      /\ toParent[j] > 0 \/ Gone(j)
      /\ toParent' = [toParent EXCEPT ![j] = IF @ > 0 THEN @ - 1 ELSE @]
      /\ busy' = [busy EXCEPT ![j] = FALSE]
      /\ UNCHANGED <<version, parent, child, toChild, conn, client, backlog, exitByte>>
  BY DEF NotBusy
<1>2. toParent[j] \in Nat /\ toChild[j] \in Seq(PoolMessage)
  BY DEF BusyInv, TypeInv
<1>3. TypeInv'
  BY <1>1, <1>2 DEF BusyInv, TypeInv
<1>4. /\ busy'[j] = FALSE /\ toParent'[j] = (IF toParent[j] > 0 THEN toParent[j] - 1 ELSE toParent[j])
      /\ \A i \in Children \ {j} : UNCHANGED ChildVars(i)
  BY <1>1 DEF ChildVars, BusyInv, TypeInv
<1>5. ~Gone(j) => Sum(j) <= 1 /\ toParent[j] > 0
  BY <1>1 DEF BusyInv, BusyIsExact
<1>6. Len(toChild[j]) \in Nat
  BY <1>2
<1>7. ~Gone(j) => Sum(j)' = 0
  BY <1>1, <1>2, <1>4, <1>5, <1>6 DEF Sum
<1>8. /\ \A i \in 1 .. Len(toChild'[j]) : toChild'[j][i].fd \in Clients
      /\ child'[j] = "send" => conn'[j] \in Clients
      /\ child'[j] # "spinning"
  BY <1>1 DEF BusyInv, GivenClients
<1>9. Gone(j)' = Gone(j)
  BY <1>1 DEF Gone
<1> QED BY <1>1, <1>3, <1>4, <1>7, <1>8, <1>9, OneChild

LEMMA BeginExitKeeps == ASSUME BusyInv, BeginExit PROVE BusyInv'
<1> DEFINE gone == {j \in Children : Gone(j)}
           told == IF gone = {} THEN Children ELSE 1 .. FirstOf(gone) - 1
           msg  == [fd |-> NoConn, flag |-> -1]
<1>1. /\ toChild' = [j \in Children |-> IF j \in told THEN Append(toChild[j], msg) ELSE toChild[j]]
      /\ parent' \in {"wait", "dead"} /\ exitByte' = FALSE
      /\ backlog' = <<>> /\ Refuse(Waiting)
      /\ UNCHANGED <<version, busy, child, toParent, conn>>
  BY DEF BeginExit
<1>2. msg \in PoolMessage
  BY DEF PoolMessage
<1>3. \A j \in Children : toChild[j] \in Seq(PoolMessage) /\ Append(toChild[j], msg) \in Seq(PoolMessage)
  BY <1>2 DEF BusyInv, TypeInv
<1> HIDE DEF told, msg
<1>4. toChild' \in [Children -> Seq(PoolMessage)]
  BY <1>1, <1>3
<1>5. client' \in [Clients -> ClientStates] /\ <<>> \in Seq(Clients)
  BY <1>1, RefuseTyped
<1>6. TypeInv'
  BY <1>1, <1>4, <1>5 DEF BusyInv, TypeInv, ParentStates
<1> QED BY <1>1, <1>6, StoppedKeeps

LEMMA ConnectKeeps == ASSUME BusyInv, NEW c \in Clients, Connect(c) \/ Leave(c) PROVE BusyInv'
<1>1. UNCHANGED <<version, parent, busy, child, toChild, toParent, conn, exitByte>>
  BY DEF Connect, Leave
<1>2. client' \in [Clients -> ClientStates]
  <2>1. PICK s \in ClientStates : client' = [client EXCEPT ![c] = s]
    BY DEF Connect, Leave, ClientStates
  <2> QED BY <2>1 DEF BusyInv, TypeInv
<1>3. backlog' \in Seq(Clients)
  <2>1. backlog \in Seq(Clients) /\ Append(backlog, c) \in Seq(Clients)
    BY DEF BusyInv, TypeInv
  <2> QED BY <2>1 DEF Connect, Leave
<1>4. TypeInv'
  BY <1>1, <1>2, <1>3 DEF BusyInv, TypeInv
<1> QED BY <1>1, <1>4 DEF BusyInv, GivenClients, BusyIsExact, Sum, Gone

\* Signals, wait, and steps that change nothing.
LEMMA OtherKeeps == ASSUME BusyInv, Sigusr1 \/ Exit \/ UNCHANGED poolVars PROVE BusyInv'
<1>1. UNCHANGED <<version, busy, child, toChild, toParent, conn, client, backlog>>
  BY DEF Sigusr1, Exit, poolVars
<1>2. exitByte' \in BOOLEAN /\ (parent' = parent \/ parent' = "exited")
  BY DEF Sigusr1, Exit, poolVars, BusyInv, TypeInv
<1>3. TypeInv'
  BY <1>1, <1>2 DEF BusyInv, TypeInv, ParentStates
<1> QED BY <1>1, <1>2, <1>3 DEF BusyInv, GivenClients, BusyIsExact, Sum, Gone

LEMMA PoolStep == ASSUME BusyInv, [PoolNext]_poolVars PROVE BusyInv'
<1>1. CASE Accept
  BY <1>1, AcceptKeeps
<1>2. ASSUME NEW j \in Children, NotBusy(j) PROVE BusyInv'
  BY <1>2, NotBusyKeeps
<1>3. CASE BeginExit
  BY <1>3, BeginExitKeeps
<1>4. ASSUME NEW j \in Children, ChildStep(j) PROVE BusyInv'
  BY <1>4, RecvFdKeeps, RecvEofKeeps, SendKeeps, ReportKeeps DEF ChildStep
<1>5. ASSUME NEW c \in Clients, Connect(c) \/ Leave(c) PROVE BusyInv'
  BY <1>5, ConnectKeeps
<1>6. CASE Sigusr1 \/ Exit \/ UNCHANGED poolVars
  BY <1>6, OtherKeeps
<1> QED BY <1>1, <1>2, <1>3, <1>4, <1>5, <1>6 DEF PoolNext, ParentStep

LEMMA PoolInv == PoolSpec => []BusyInv
<1>1. PoolInit => BusyInv
  BY InitBusy
<1>2. BusyInv /\ [PoolNext]_poolVars => BusyInv'
  BY PoolStep
<1> QED BY <1>1, <1>2, PTL DEF PoolSpec

\* busy_flag of a child is set exactly while a connection is on its way to it, in its
\* hands, or its byte on the way back: the epoll loops of 20180706 and 20180707 give no
\* child a second connection and take none for free that works.
THEOREM BusyFlagIsExact == PoolSpec => []BusyIsExact
<1>1. BusyInv => BusyIsExact
  BY DEF BusyInv
<1> QED BY <1>1, PoolInv, PTL

\* The variables of the pool keep their types.
THEOREM PoolTypeCorrect == PoolSpec => []PoolTypeOK
<1>1. TypeInv => PoolTypeOK
  <2> SUFFICES ASSUME TypeInv PROVE PoolTypeOK
    OBVIOUS
  <2>1. \A j \in Children : \A i \in 1 .. Len(toChild[j]) :
           toChild[j][i].fd \in Clients \cup {NoConn} /\ toChild[j][i].flag \in {-1, 0}
    <3>1. \A j \in Children : \A i \in 1 .. Len(toChild[j]) : toChild[j][i] \in PoolMessage
      BY DEF TypeInv
    <3> QED BY <3>1 DEF PoolMessage
  <2>2. Waiting \subseteq Clients
    BY DEF TypeInv, Waiting
  <2> QED BY <2>1, <2>2 DEF TypeInv, PoolTypeOK
<1>2. BusyInv => PoolTypeOK
  BY <1>1 DEF BusyInv
<1> QED BY <1>2, PoolInv, PTL

----------------------------------------------------------------------------
(* The chat rooms: lines and their numbers *)

\* The positions of s behind k that are not c's, and their rank.
LinesAfter(s, k, c) == {i \in k + 1 .. Len(s) : s[i] # c}
Upto(A, i) == {j \in A : j <= i}

\* n numbers behind a set of numbers.
LEMMA MoreNumbers ==
    ASSUME NEW l \in Nat, NEW A \in SUBSET (1 .. l), NEW n \in Nat
    PROVE  /\ IsFiniteSet(A) /\ Cardinality(A) \in Nat
           /\ Cardinality(A \cup (l + 1 .. l + n)) = Cardinality(A) + n
<1> DEFINE B == l + 1 .. l + n
<1>1. IsFiniteSet(1 .. l) /\ IsFiniteSet(B) /\ Cardinality(B) = n
  BY FS_Interval
<1>2. IsFiniteSet(A)
  BY <1>1, FS_Subset
<1>3. A \cap B = {}
  OBVIOUS
<1>4. Cardinality(A) \in Nat
  BY <1>2, FS_CardinalityType
<1>5. Cardinality(A \cup B) = Cardinality(A) + Cardinality(B) - Cardinality(A \cap B)
  BY <1>1, <1>2, FS_Union
<1>6. Cardinality({}) = 0
  BY FS_EmptySet
<1>7. Cardinality(A \cap B) = 0
  BY <1>3, <1>6
<1> HIDE DEF B
<1>8. Cardinality(A \cup B) = Cardinality(A) + n
  BY <1>1, <1>4, <1>5, <1>7
<1> QED BY <1>2, <1>4, <1>8 DEF B

\* The rank of a member of a set of numbers.
LEMMA RankTyped ==
    ASSUME NEW l \in Nat, NEW A \in SUBSET (1 .. l), NEW i \in A
    PROVE  Cardinality(Upto(A, i)) \in 1 .. Cardinality(A)
<1>1. IsFiniteSet(A) /\ Cardinality(A) \in Nat
  BY MoreNumbers
<1>2. Upto(A, i) \subseteq A /\ i \in Upto(A, i)
  BY DEF Upto
<1>3. IsFiniteSet(Upto(A, i)) /\ Cardinality(Upto(A, i)) \in Nat /\ Cardinality(Upto(A, i)) <= Cardinality(A)
  BY <1>1, <1>2, FS_Subset, FS_CardinalityType
<1>4. Cardinality(Upto(A, i)) # 0
  BY <1>2, <1>3, FS_EmptySet
<1> QED BY <1>1, <1>3, <1>4

\* t goes on from s, which is longer than k, with lines of c, or of others.
GoesOn(s, t, k) ==
    /\ Len(s) \in Nat /\ Len(t) \in Nat /\ Len(s) <= Len(t) /\ k \in 0 .. Len(s)
    /\ \A i \in 1 .. Len(s) : t[i] = s[i]
OwnLines(s, t, c) == \A i \in Len(s) + 1 .. Len(t) : t[i] = c
OtherLines(s, t, c) == \A i \in Len(s) + 1 .. Len(t) : t[i] # c
LinesAfterAnd(s, t, k, c) == LinesAfter(s, k, c) \cup (Len(s) + 1 .. Len(t))

\* The lines ahead in t are those in s, and the new ones.
LEMMA LinesAfterGrow ==
    ASSUME NEW s, NEW t, NEW k, NEW c, GoesOn(s, t, k)
    PROVE  /\ \A i : i \in LinesAfter(t, k, c) <=> i \in k + 1 .. Len(t) /\ t[i] # c
           /\ \A i : i \in LinesAfter(s, k, c) => i \in LinesAfter(t, k, c)
           /\ \A i \in LinesAfter(t, k, c) : i \in LinesAfter(s, k, c) \/ i \in Len(s) + 1 .. Len(t)
           /\ \A i \in Len(s) + 1 .. Len(t) : i \in k + 1 .. Len(t)
<1> USE DEF GoesOn
<1>1. \A i : i \in LinesAfter(t, k, c) <=> i \in k + 1 .. Len(t) /\ t[i] # c
  BY DEF LinesAfter
<1>2. \A i : i \in LinesAfter(s, k, c) <=> i \in k + 1 .. Len(s) /\ s[i] # c
  BY DEF LinesAfter
<1>3. \A i : i \in k + 1 .. Len(t) <=> i \in k + 1 .. Len(s) \/ i \in Len(s) + 1 .. Len(t)
  OBVIOUS
<1>7. \A i \in Len(s) + 1 .. Len(t) : i \in k + 1 .. Len(t)
  OBVIOUS
<1>4. \A i \in k + 1 .. Len(s) : i \in 1 .. Len(s)
  OBVIOUS
<1>5. \A i : i \in LinesAfter(s, k, c) => i \in LinesAfter(t, k, c)
  BY <1>1, <1>2, <1>3, <1>4
<1>6. \A i \in LinesAfter(t, k, c) : i \in LinesAfter(s, k, c) \/ i \in Len(s) + 1 .. Len(t)
  BY <1>1, <1>2, <1>3, <1>4
<1> QED BY <1>1, <1>5, <1>6, <1>7

LEMMA MoreOwnLines ==
    ASSUME NEW s, NEW t, NEW k, NEW c, GoesOn(s, t, k), OwnLines(s, t, c)
    PROVE  LinesAfter(t, k, c) = LinesAfter(s, k, c)
<1>1. \A i \in Len(s) + 1 .. Len(t) : i \notin LinesAfter(t, k, c)
  BY LinesAfterGrow DEF OwnLines
<1>2. \A i : i \in LinesAfter(t, k, c) <=> i \in LinesAfter(s, k, c)
  BY <1>1, LinesAfterGrow
<1> QED BY <1>2

LEMMA MoreOtherLines ==
    ASSUME NEW s, NEW t, NEW k, NEW c, GoesOn(s, t, k), OtherLines(s, t, c)
    PROVE  LinesAfter(t, k, c) = LinesAfterAnd(s, t, k, c)
<1>1. \A i \in Len(s) + 1 .. Len(t) : i \in LinesAfter(t, k, c)
  BY LinesAfterGrow DEF OtherLines
<1>2. \A i : i \in LinesAfter(t, k, c) <=> i \in LinesAfter(s, k, c) \/ i \in Len(s) + 1 .. Len(t)
  BY <1>1, LinesAfterGrow
<1> QED BY <1>2 DEF LinesAfterAnd

\* What a user has heard, h, is what was said, s, since it joined.
HasHeard(h, s, k, c) ==
    /\ Len(h) = Cardinality(LinesAfter(s, k, c))
    /\ \A i \in LinesAfter(s, k, c) : h[Cardinality(Upto(LinesAfter(s, k, c), i))] = s[i]

\* It stays so when it hears the lines of others, and its own are said.
LEMMA HearMore ==
    ASSUME NEW S, NEW s \in Seq(S), NEW h \in Seq(S), NEW n \in Nat, NEW a \in S,
           NEW k \in 0 .. Len(s), NEW c, HasHeard(h, s, k, c),
           NEW l \in Seq(S), Len(l) = n, \A i \in 1 .. n : l[i] = a
    PROVE  HasHeard(IF a = c THEN h ELSE h \o l, s \o l, k, c)
<1> DEFINE t == s \o l
           A == LinesAfter(s, k, c)
           B == LinesAfter(t, k, c)
           N == Len(s) + 1 .. Len(s) + n
<1>1. /\ t \in Seq(S) /\ Len(t) = Len(s) + n
      /\ \A i \in 1 .. Len(s) : t[i] = s[i]
      /\ \A i \in 1 .. n : t[Len(s) + i] = a
      /\ B = IF a = c THEN A ELSE A \cup N
  <2>1. t \in Seq(S) /\ Len(t) = Len(s) + n /\ Len(s) \in Nat
    OBVIOUS
  <2>2. \A i \in 1 .. Len(s) : t[i] = s[i]
    OBVIOUS
  <2>3. \A i \in 1 .. n : t[Len(s) + i] = a
    OBVIOUS
  <2>4. \A i \in Len(s) + 1 .. Len(s) + n : t[i] = a
    OBVIOUS
  <2> HIDE DEF t
  <2>7. GoesOn(s, t, k)
    <3>1. Len(t) \in Nat /\ Len(s) <= Len(t)
      BY <2>1
    <3>2. Len(s) \in Nat /\ k \in 0 .. Len(s)
      BY <2>1
    <3> QED BY <2>2, <3>1, <3>2, Zenon DEF GoesOn
  <2>5. ASSUME a = c PROVE B = A
    <3>1. OwnLines(s, t, c)
      BY <2>1, <2>4, <2>5 DEF OwnLines
    <3> QED BY <2>7, <3>1, MoreOwnLines
  <2>6. ASSUME a # c PROVE B = A \cup N
    <3>1. OtherLines(s, t, c)
      <4>1. \A i \in Len(s) + 1 .. Len(t) : t[i] = a
        BY <2>1, <2>4
      <4>2. \A i \in Len(s) + 1 .. Len(t) : t[i] # c
        BY <4>1, <2>6
      <4> QED BY <4>2 DEF OtherLines
    <3>2. B = LinesAfterAnd(s, t, k, c)
      BY <2>7, <3>1, MoreOtherLines
    <3> QED BY <2>1, <3>2 DEF LinesAfterAnd
  <2> QED BY <2>1, <2>2, <2>3, <2>5, <2>6
<1>2. A \in SUBSET (1 .. Len(s)) /\ Len(s) \in Nat
  BY DEF LinesAfter
<1>3. Len(h) = Cardinality(A) /\ \A i \in A : h[Cardinality(Upto(A, i))] = s[i]
  BY DEF HasHeard
<1>4. CASE a = c
  <2>1. B = A
    BY <1>1, <1>4
  <2>2. \A i \in A : t[i] = s[i]
    BY <1>1, <1>2
  <2> HIDE DEF t, A, B
  <2>3. Len(h) = Cardinality(B) /\ \A i \in B : h[Cardinality(Upto(B, i))] = t[i]
    BY <1>3, <2>1, <2>2
  <2> QED BY <1>4, <2>3 DEF HasHeard, t, B
<1>5. CASE a # c
  <2> DEFINE g == h \o l
  <2>1. l \in Seq(S) /\ Len(l) = n /\ g \in Seq(S) /\ Len(g) = Len(h) + n
    OBVIOUS
  <2>2. \A r \in 1 .. Len(h) : g[r] = h[r]
    OBVIOUS
  <2>3. \A r \in 1 .. n : g[Len(h) + r] = a
    OBVIOUS
  <2>4. B = A \cup N
    BY <1>1, <1>5
  <2> HIDE DEF t, g, A, B
  <2>9. ASSUME NEW r \in 0 .. n
        PROVE  Cardinality(A \cup (Len(s) + 1 .. Len(s) + r)) = Cardinality(A) + r
    <3>1. r \in Nat
      OBVIOUS
    <3> QED BY <1>2, <3>1, MoreNumbers
  <2>5. Len(g) = Cardinality(B)
    BY <1>3, <2>1, <2>4, <2>9
  <2>6. ASSUME NEW i \in B PROVE g[Cardinality(Upto(B, i))] = t[i]
    <3>1. CASE i \in A
      <4>1. Upto(B, i) = Upto(A, i)
        BY <1>2, <2>4, <3>1 DEF Upto
      <4>2. Cardinality(Upto(A, i)) \in 1 .. Len(h)
        BY <1>2, <1>3, <3>1, RankTyped
      <4>3. t[i] = s[i]
        BY <1>1, <1>2, <3>1
      <4> QED BY <1>3, <2>2, <3>1, <4>1, <4>2, <4>3
    <3>2. CASE i \in N
      <4>1. PICK r \in 1 .. n : i = Len(s) + r
        <5>1. i - Len(s) \in 1 .. n /\ i = Len(s) + (i - Len(s))
          BY <3>2
        <5> QED BY <5>1
      <4>2. Upto(B, i) = A \cup (Len(s) + 1 .. Len(s) + r)
        <5>1. \A j : j \in Upto(B, i) <=> (j \in A \/ j \in N) /\ j <= Len(s) + r
          BY <2>4, <4>1 DEF Upto
        <5>2. \A j \in A : j <= Len(s) + r
          BY <1>2
        <5>3. \A j : j \in N /\ j <= Len(s) + r <=> j \in Len(s) + 1 .. Len(s) + r
          BY <1>2
        <5>4. \A j : j \in Upto(B, i) <=> j \in A \/ j \in Len(s) + 1 .. Len(s) + r
          BY <5>1, <5>2, <5>3
        <5> QED BY <5>4
      <4>3. Cardinality(Upto(B, i)) = Len(h) + r
        BY <1>3, <2>9, <4>2
      <4> QED BY <1>1, <2>3, <4>1, <4>3
    <3> QED BY <2>4, <2>6, <3>1, <3>2
  <2> QED BY <1>5, <2>5, <2>6 DEF HasHeard, g, B, t
<1> QED BY <1>4, <1>5

----------------------------------------------------------------------------
(* The chat rooms: the inductive invariant *)

\* The positions of c's lines in s.
OwnIn(s, c) == {i \in 1 .. Len(s) : s[i] = c}

ChatTypes ==
    /\ chat \in {"list", "array"}
    /\ members \in Seq(Chatters \cup {Nobody})
    /\ fds \in [Chatters -> 0 .. NumChatters]
    /\ chatter \in [Chatters -> {"out", "open", "closed", "reset", "broken", "gone"}]
    /\ sentLines \in [Chatters -> Nat] /\ inbox \in [Chatters -> Nat]
    /\ named \in [Chatters -> Nat] /\ joined \in [Chatters -> Nat]
    /\ heard \in [Chatters -> Seq(Chatters)]
    /\ spoken \in Seq(Chatters)

\* A member is a client that has come and whose connection is not closed, the linked list
\* has no free entries, and only a member hears.
ChatMembers ==
    /\ chat = "list" => \A i \in DOMAIN members : members[i] # Nobody
    /\ \A c \in Members : chatter[c] \notin {"out", "gone"}
    /\ \A c \in Chatters : c \notin Members => heard[c] = <<>>
    /\ \A c \in Chatters : fds[c] = NoFd /\ chatter[c] # "gone" => named[c] = 0
    /\ \A c \in Chatters : joined[c] <= Len(spoken)

\* ChatBroadcasts for every c, in terms of what was said.
ChatHeard ==
    \A c \in Members : chatter[c] = "open" => HasHeard(heard[c], spoken, joined[c], c)
ChatCounted ==
    \A c \in Chatters : sentLines[c] = named[c] + Cardinality(OwnIn(spoken, c)) + inbox[c]

ChatInv == ChatTypes /\ ChatTableOK /\ ChatMembers /\ ChatHeard /\ ChatCounted

LEMMA MembersTyped == ASSUME ChatTypes PROVE Members \subseteq Chatters /\ DOMAIN members = 1 .. Len(members)
  BY DEF ChatTypes, Members

LEMMA ChatInitInv == ASSUME ChatInit PROVE ChatInv
<1>1. /\ members \in Seq(Chatters \cup {Nobody})
      /\ \A i \in DOMAIN members : members[i] = Nobody
      /\ chat = "list" => members = <<>>
  <2>1. CASE chat = "list"
    BY <2>1 DEF ChatInit
  <2>2. CASE chat # "list"
    <3>1. PICK n \in TableSizes : members = [i \in 1 .. n |-> Nobody]
      BY <2>2 DEF ChatInit
    <3>2. n \in Nat
      BY ChatConstants
    <3> QED BY <2>2, <3>1, <3>2
  <2> QED BY <2>1, <2>2
<1>2. Members = {}
  BY <1>1 DEF Members
<1>3. 0 \in 0 .. NumChatters /\ NumChatters \in Nat
  BY ChatConstants
<1>4. ChatTypes
  BY <1>1, <1>3 DEF ChatInit, ChatTypes, NoFd
<1>5. ChatTableOK
  <2>1. \A i, j \in DOMAIN members : members[i] = members[j] => i = j \/ members[i] = Nobody
    BY <1>1
  <2>2. \A c \in Chatters : fds[c] = NoFd
    BY DEF ChatInit
  <2> QED BY <1>2, <2>1, <2>2 DEF ChatInit, ChatTableOK
<1>6. ChatMembers
  BY <1>1, <1>2 DEF ChatInit, ChatMembers
<1>7. ChatHeard
  BY <1>2 DEF ChatHeard
<1>8. ChatCounted
  <2>1. \A c : OwnIn(spoken, c) = {}
    BY DEF ChatInit, OwnIn
  <2>2. Cardinality({}) = 0
    BY FS_EmptySet
  <2>3. \A c \in Chatters : Cardinality(OwnIn(spoken, c)) = 0
    BY <2>1, <2>2
  <2>4. \A c \in Chatters : sentLines[c] = 0 /\ named[c] = 0 /\ inbox[c] = 0
    BY DEF ChatInit
  <2> QED BY <2>3, <2>4 DEF ChatCounted
<1> QED BY <1>4, <1>5, <1>6, <1>7, <1>8 DEF ChatInv

\* A step that changes nothing but the state of connections: those of members stay
\* connections, and none is opened again.
ConnectionsOnly ==
    /\ UNCHANGED <<tableVars, sentLines, inbox, heard, spoken>>
    /\ chatServer' \in {"running", "killed"} /\ ready' \subseteq Members
    /\ chatter' \in [Chatters -> {"out", "open", "closed", "reset", "broken", "gone"}]
    /\ \A c \in Members : chatter'[c] \notin {"out", "gone"} /\ (chatter'[c] = "open" => chatter[c] = "open")
    /\ \A c \in Chatters : chatter[c] = "gone" => chatter'[c] = "gone"

LEMMA ConnectionsInv == ASSUME ChatInv, ConnectionsOnly PROVE ChatInv'
<1> USE DEF ConnectionsOnly, tableVars
<1>0. Members' = Members
  BY DEF Members
<1>0a. Members \subseteq Chatters
  BY MembersTyped DEF ChatInv
<1>1. ChatTypes'
  BY DEF ChatInv, ChatTypes
<1>2. ChatTableOK'
  BY <1>0 DEF ChatInv, ChatTableOK
<1>3. ChatMembers'
  BY <1>0, <1>0a DEF ChatInv, ChatMembers
<1>4. ChatHeard'
  BY <1>0, <1>0a DEF ChatInv, ChatHeard
<1>5. ChatCounted'
  BY DEF ChatInv, ChatCounted
<1> QED BY <1>1, <1>2, <1>3, <1>4, <1>5 DEF ChatInv

LEMMA JoinInv == ASSUME ChatInv, NEW c \in Chatters, JoinRoom(c) PROVE ChatInv'
<1>1. ready \subseteq Members /\ chatter[c] = "out" /\ c \notin Members
  BY DEF ChatInv, ChatTableOK, ChatMembers, JoinRoom
<1>2. ConnectionsOnly
  BY <1>1, MembersTyped DEF ConnectionsOnly, ChatInv, ChatTypes, ChatTableOK, ChatMembers, JoinRoom
<1> QED BY <1>2, ConnectionsInv

LEMMA LeaveInv == ASSUME ChatInv, NEW c \in Chatters, LeaveRoom(c) PROVE ChatInv'
<1>1. PICK end \in {"closed", "reset"} : chatter' = [chatter EXCEPT ![c] = end]
  BY DEF LeaveRoom
<1>2. ready \subseteq Members /\ chatter[c] = "open"
  BY DEF ChatInv, ChatTableOK, LeaveRoom
<1>3. ConnectionsOnly
  BY <1>1, <1>2, MembersTyped DEF ConnectionsOnly, ChatInv, ChatTypes, ChatTableOK, ChatMembers, LeaveRoom
<1> QED BY <1>3, ConnectionsInv

LEMMA SelectInv == ASSUME ChatInv, Select PROVE ChatInv'
<1>1. ready' \subseteq Members
  BY DEF ChatInv, ChatTableOK, Select, Readable
<1>2. ConnectionsOnly
  BY <1>1, MembersTyped DEF ConnectionsOnly, ChatInv, ChatTypes, ChatTableOK, ChatMembers, Select, clientVars
<1> QED BY <1>2, ConnectionsInv

LEMMA RecvErrorInv == ASSUME ChatInv, NEW c \in Chatters, RecvError(c) PROVE ChatInv'
<1>1. /\ ready' \subseteq Members /\ c \in Members /\ chatter[c] = "reset"
      /\ chatServer' \in {"running", "killed"}
  BY DEF ChatInv, ChatTableOK, RecvError, Turn
<1>2. \A d \in Chatters : chatter'[d] = chatter[d] \/ (chatter'[d] = "broken" /\ chatter[d] \in {"closed", "reset", "broken"})
  <2> TAKE d \in Chatters
  <2>1. chatter'[d] = IF d = c \/ (chat = "list" /\ named[c] > 0 /\ d \in Hearers(c) /\ Ended(d))
                      THEN "broken" ELSE chatter[d]
    BY DEF RecvError
  <2>2. CASE d = c
    BY <1>1, <2>1, <2>2
  <2>3. CASE d # c /\ Ended(d)
    BY <2>1, <2>3 DEF Ended
  <2>4. CASE d # c /\ ~Ended(d)
    BY <2>1, <2>4 DEF Ended
  <2> QED BY <2>2, <2>3, <2>4
<1>3. chatter' \in [Chatters -> {"out", "open", "closed", "reset", "broken", "gone"}]
  <2>1. \A d \in Chatters : chatter'[d] \in {"out", "open", "closed", "reset", "broken", "gone"}
    BY <1>2 DEF ChatInv, ChatTypes
  <2>2. chatter' = [d \in Chatters |-> chatter'[d]]
    BY DEF RecvError
  <2> QED BY <2>1, <2>2
<1>4. \A d \in Members : d \in Chatters /\ chatter[d] \notin {"out", "gone"}
  BY MembersTyped DEF ChatInv, ChatMembers
<1>5. /\ \A d \in Members : chatter'[d] \notin {"out", "gone"} /\ (chatter'[d] = "open" => chatter[d] = "open")
      /\ \A d \in Chatters : chatter[d] = "gone" => chatter'[d] = "gone"
  BY <1>2, <1>4
<1>6. ConnectionsOnly
  BY <1>1, <1>3, <1>5 DEF ConnectionsOnly, RecvError
<1> QED BY <1>6, ConnectionsInv

LEMMA SayToAllInv == ASSUME ChatInv, SayToAll PROVE ChatInv'
<1>1. ready' \subseteq Members /\ chatServer' \in {"running", "killed"}
  BY DEF ChatInv, ChatTableOK, SayToAll
<1>2. \A d \in Chatters : chatter'[d] = chatter[d] \/ (chatter'[d] = "broken" /\ chatter[d] \in {"closed", "reset", "broken"})
  <2> TAKE d \in Chatters
  <2>1. chatter'[d] = IF d \in Members /\ Ended(d) THEN "broken" ELSE chatter[d]
    BY DEF SayToAll
  <2>2. CASE Ended(d)
    BY <2>1, <2>2 DEF Ended
  <2>3. CASE ~Ended(d)
    BY <2>1, <2>3 DEF Ended
  <2> QED BY <2>2, <2>3
<1>3. chatter' \in [Chatters -> {"out", "open", "closed", "reset", "broken", "gone"}]
  <2>1. \A d \in Chatters : chatter'[d] \in {"out", "open", "closed", "reset", "broken", "gone"}
    BY <1>2 DEF ChatInv, ChatTypes
  <2>2. chatter' = [d \in Chatters |-> chatter'[d]]
    BY DEF SayToAll
  <2> QED BY <2>1, <2>2
<1>4. \A d \in Members : d \in Chatters /\ chatter[d] \notin {"out", "gone"}
  BY MembersTyped DEF ChatInv, ChatMembers
<1>5. /\ \A d \in Members : chatter'[d] \notin {"out", "gone"} /\ (chatter'[d] = "open" => chatter[d] = "open")
      /\ \A d \in Chatters : chatter[d] = "gone" => chatter'[d] = "gone"
  BY <1>2, <1>4
<1>6. ConnectionsOnly
  BY <1>1, <1>3, <1>5 DEF ConnectionsOnly, SayToAll
<1> QED BY <1>6, ConnectionsInv

LEMMA OwnCounted ==
    ASSUME NEW S, NEW s \in Seq(S), NEW c
    PROVE  IsFiniteSet(OwnIn(s, c)) /\ Cardinality(OwnIn(s, c)) \in Nat
<1>1. Len(s) \in Nat /\ OwnIn(s, c) \in SUBSET (1 .. Len(s))
  BY DEF OwnIn
<1> QED BY <1>1, MoreNumbers

LEMMA SpeakInv == ASSUME ChatInv, NEW c \in Chatters, Speak(c) PROVE ChatInv'
<1>0. Members' = Members /\ UNCHANGED <<chat, members, watched, fds, named, joined, chatter, heard, spoken, ready, chatServer>>
  BY DEF Members, Speak, tableVars
<1>1. ChatTypes'
  <2>1. sentLines' \in [Chatters -> Nat] /\ inbox' \in [Chatters -> Nat]
    BY DEF ChatInv, ChatTypes, Speak
  <2> QED BY <1>0, <2>1 DEF ChatInv, ChatTypes
<1>2. ChatTableOK'
  BY <1>0 DEF ChatInv, ChatTableOK
<1>3. ChatMembers'
  BY <1>0 DEF ChatInv, ChatMembers
<1>4. ChatHeard'
  BY <1>0 DEF ChatInv, ChatHeard
<1>5. ChatCounted'
  <2> SUFFICES ASSUME NEW d \in Chatters
               PROVE  sentLines'[d] = named'[d] + Cardinality(OwnIn(spoken', d)) + inbox'[d]
    BY DEF ChatCounted
  <2>1. /\ sentLines'[d] = sentLines[d] + (IF d = c THEN 1 ELSE 0)
        /\ inbox'[d] = inbox[d] + (IF d = c THEN 1 ELSE 0)
        /\ named'[d] = named[d] /\ spoken' = spoken
        /\ sentLines[d] \in Nat /\ inbox[d] \in Nat /\ named[d] \in Nat
    <3>1. /\ sentLines \in [Chatters -> Nat] /\ inbox \in [Chatters -> Nat]
          /\ named \in [Chatters -> Nat]
      BY DEF ChatInv, ChatTypes
    <3>2. sentLines[d] \in Nat /\ inbox[d] \in Nat /\ named[d] \in Nat
      BY <3>1
    <3>3. CASE d = c
      BY <1>0, <3>1, <3>2, <3>3 DEF Speak
    <3>4. CASE d # c
      <4>1. sentLines'[d] = sentLines[d] /\ inbox'[d] = inbox[d]
        BY <3>1, <3>4 DEF Speak
      <4> QED BY <1>0, <3>2, <3>4, <4>1
    <3> QED BY <3>3, <3>4
  <2>2. Cardinality(OwnIn(spoken, d)) \in Nat
    BY OwnCounted DEF ChatInv, ChatTypes
  <2>3. sentLines[d] = named[d] + Cardinality(OwnIn(spoken, d)) + inbox[d]
    BY DEF ChatInv, ChatCounted
  <2> QED BY <2>1, <2>2, <2>3
<1> QED BY <1>1, <1>2, <1>3, <1>4, <1>5 DEF ChatInv

\* The name of a user.
LEMMA RecvNameInv ==
    ASSUME ChatInv, NEW c \in Chatters, RecvLines(c), chat = "list", named[c] = 0
    PROVE  ChatInv'
<1>1. PICK n \in 1 .. inbox[c] :
         /\ inbox' = [inbox EXCEPT ![c] = @ - n] /\ named' = [named EXCEPT ![c] = n]
         /\ UNCHANGED <<heard, chatter, spoken, chatServer>>
  BY DEF RecvLines
<1>2. /\ UNCHANGED <<chat, members, watched, fds, joined, sentLines>>
      /\ Members' = Members /\ ready' \subseteq ready /\ c \in Members
  BY DEF RecvLines, Turn, Members, ChatInv, ChatTableOK
<1>3. inbox[c] \in Nat /\ n \in Nat /\ inbox[c] - n \in Nat
  BY <1>1 DEF ChatInv, ChatTypes
<1>4. ChatTypes'
  BY <1>1, <1>2, <1>3 DEF ChatInv, ChatTypes
<1>5. ChatTableOK'
  BY <1>1, <1>2 DEF ChatInv, ChatTableOK
<1>6. ChatMembers'
  <2>1. fds[c] # NoFd
    BY <1>2 DEF ChatInv, ChatTableOK
  <2>2. \A d \in Chatters : fds'[d] = NoFd /\ chatter'[d] # "gone" => named'[d] = 0
    BY <1>1, <1>2, <2>1 DEF ChatInv, ChatMembers, ChatTypes
  <2> QED BY <1>1, <1>2, <2>2 DEF ChatInv, ChatMembers
<1>7. ChatHeard'
  BY <1>1, <1>2 DEF ChatInv, ChatHeard
<1>8. ChatCounted'
  <2> SUFFICES ASSUME NEW d \in Chatters
               PROVE  sentLines'[d] = named'[d] + Cardinality(OwnIn(spoken', d)) + inbox'[d]
    BY DEF ChatCounted
  <2>1. /\ inbox'[d] = inbox[d] - (IF d = c THEN n ELSE 0)
        /\ named'[d] = named[d] + (IF d = c THEN n ELSE 0)
        /\ sentLines' = sentLines /\ spoken' = spoken
        /\ sentLines[d] \in Nat /\ inbox[d] \in Nat /\ named[d] \in Nat
    <3>1. /\ sentLines \in [Chatters -> Nat] /\ inbox \in [Chatters -> Nat]
          /\ named \in [Chatters -> Nat]
      BY DEF ChatInv, ChatTypes
    <3>2. sentLines[d] \in Nat /\ inbox[d] \in Nat /\ named[d] \in Nat
      BY <3>1
    <3>3. CASE d = c
      BY <1>1, <1>2, <1>3, <3>1, <3>2, <3>3
    <3>4. CASE d # c
      <4>1. inbox'[d] = inbox[d] /\ named'[d] = named[d]
        BY <1>1, <1>2, <1>3, <3>1, <3>4
      <4> QED BY <1>1, <1>2, <1>3, <3>2, <3>4, <4>1
    <3> QED BY <3>3, <3>4
  <2>2. Cardinality(OwnIn(spoken, d)) \in Nat
    BY OwnCounted DEF ChatInv, ChatTypes
  <2>3. sentLines[d] = named[d] + Cardinality(OwnIn(spoken, d)) + inbox[d]
    BY DEF ChatInv, ChatCounted
  <2> QED BY <1>3, <2>1, <2>2, <2>3
<1> QED BY <1>4, <1>5, <1>6, <1>7, <1>8 DEF ChatInv

\* n more lines of a.
\* Lines and more lines.
LEMMA JoinedLines ==
    ASSUME NEW S, NEW s \in Seq(S), NEW l \in Seq(S)
    PROVE  s \o l \in Seq(S) /\ Len(s \o l) = Len(s) + Len(l)
  OBVIOUS

LEMMA OwnMore ==
    ASSUME NEW S, NEW s \in Seq(S), NEW n \in Nat, NEW a \in S, NEW c,
           NEW l \in Seq(S), Len(l) = n, \A i \in 1 .. n : l[i] = a
    PROVE  Cardinality(OwnIn(s \o l, c)) = Cardinality(OwnIn(s, c)) + (IF a = c THEN n ELSE 0)
<1> DEFINE t == s \o l
           A == OwnIn(s, c)
           B == OwnIn(t, c)
<1>1. Len(s) \in Nat /\ Len(t) = Len(s) + n
  OBVIOUS
<1>2. \A i \in 1 .. Len(s) : t[i] = s[i]
  OBVIOUS
<1>3. \A i \in Len(s) + 1 .. Len(s) + n : t[i] = a
  OBVIOUS
<1> HIDE DEF t
<1>4. \A i : i \in A <=> i \in 1 .. Len(s) /\ s[i] = c
  BY DEF OwnIn
<1>5. \A i : i \in B <=> i \in 1 .. Len(s) + n /\ t[i] = c
  BY <1>1 DEF OwnIn
<1>6. \A i : i \in 1 .. Len(s) + n <=> i \in 1 .. Len(s) \/ i \in Len(s) + 1 .. Len(s) + n
  BY <1>1
<1>7. A \in SUBSET (1 .. Len(s))
  BY DEF OwnIn
<1> HIDE DEF A, B
<1>8. IsFiniteSet(A) /\ Cardinality(A) \in Nat
  BY <1>1, <1>7, MoreNumbers
<1>9. CASE a = c
  <2>1. \A i : i \in B <=> i \in A \/ i \in Len(s) + 1 .. Len(s) + n
    BY <1>2, <1>3, <1>4, <1>5, <1>6, <1>9
  <2>2. B = A \cup (Len(s) + 1 .. Len(s) + n)
    BY <2>1
  <2>3. Cardinality(A \cup (Len(s) + 1 .. Len(s) + n)) = Cardinality(A) + n
    BY <1>1, <1>7, MoreNumbers
  <2>4. Cardinality(B) = Cardinality(A) + n
    BY <2>2, <2>3
  <2> QED BY <1>9, <2>4 DEF A, B, t
<1>10. CASE a # c
  <2>1. \A i : i \in B <=> i \in A
    BY <1>2, <1>3, <1>4, <1>5, <1>6, <1>10
  <2>2. B = A
    BY <2>1
  <2>3. Cardinality(B) = Cardinality(A) + 0
    BY <1>8, <2>2
  <2> QED BY <1>10, <2>3 DEF A, B, t
<1> QED BY <1>9, <1>10

\* A message: it goes to the other members, and waits no longer.
LEMMA RecvRoundInv ==
    ASSUME ChatInv, NEW c \in Chatters, RecvLines(c), ~(chat = "list" /\ named[c] = 0)
    PROVE  ChatInv'
<1>1. PICK n \in 1 .. inbox[c] :
         inbox' = [inbox EXCEPT ![c] = @ - n] /\ SendAll(Hearers(c), [i \in 1 .. n |-> c]) /\ UNCHANGED named
  BY DEF RecvLines
<1>2. /\ UNCHANGED <<chat, members, watched, fds, joined, sentLines, named>>
      /\ Members' = Members /\ ready' \subseteq ready /\ c \in Members
      /\ Members \subseteq Chatters
  BY <1>1, MembersTyped DEF RecvLines, Turn, Members, ChatInv, ChatTableOK
<1>3. inbox[c] \in Nat /\ n \in Nat /\ inbox[c] - n \in Nat
  BY <1>1 DEF ChatInv, ChatTypes
<1>4. PICK l : l = [i \in 1 .. n |-> c]
  OBVIOUS
<1>5. l \in Seq(Chatters) /\ Len(l) = n /\ \A i \in 1 .. n : l[i] = c
  BY <1>3, <1>4
<1>6. /\ heard' = [d \in Chatters |-> IF d \in Hearers(c) /\ chatter[d] = "open" THEN heard[d] \o l ELSE heard[d]]
      /\ chatter' = [d \in Chatters |-> IF d \in Hearers(c) /\ Ended(d) THEN "broken" ELSE chatter[d]]
      /\ spoken' = spoken \o l
      /\ chatServer' \in {"running", "killed"}
  BY <1>1, <1>4 DEF SendAll, ChatInv, ChatTableOK
<1>7. \A d \in Chatters : chatter'[d] = chatter[d] \/ (chatter'[d] = "broken" /\ chatter[d] \in {"closed", "reset", "broken"})
  <2> TAKE d \in Chatters
  <2>1. chatter'[d] = IF d \in Hearers(c) /\ Ended(d) THEN "broken" ELSE chatter[d]
    BY <1>6
  <2> QED BY <2>1 DEF Ended
<1>8. /\ inbox' = [inbox EXCEPT ![c] = @ - n]
      /\ spoken \in Seq(Chatters) /\ heard \in [Chatters -> Seq(Chatters)]
      /\ spoken' \in Seq(Chatters) /\ Len(spoken') = Len(spoken) + n
  <2>1. spoken \in Seq(Chatters) /\ heard \in [Chatters -> Seq(Chatters)]
    BY DEF ChatInv, ChatTypes
  <2>2. spoken \o l \in Seq(Chatters) /\ Len(spoken \o l) = Len(spoken) + Len(l)
    BY <1>5, <2>1, JoinedLines
  <2>3. spoken' \in Seq(Chatters) /\ Len(spoken') = Len(spoken) + n
    BY <1>5, <1>6, <2>2
  <2> QED BY <1>1, <2>1, <2>3
<1>9. \A d \in Chatters : heard'[d] \in Seq(Chatters)
  <2> TAKE d \in Chatters
  <2>1. heard'[d] = IF d \in Hearers(c) /\ chatter[d] = "open" THEN heard[d] \o l ELSE heard[d]
    BY <1>6
  <2>2. heard[d] \in Seq(Chatters) /\ heard[d] \o l \in Seq(Chatters)
    BY <1>5, <1>8
  <2> QED BY <2>1, <2>2
<1>10. ChatTypes'
  <2>1. heard' \in [Chatters -> Seq(Chatters)]
    BY <1>6, <1>9
  <2>2. chatter' \in [Chatters -> {"out", "open", "closed", "reset", "broken", "gone"}]
    <3>1. \A d \in Chatters : chatter'[d] \in {"out", "open", "closed", "reset", "broken", "gone"}
      BY <1>7 DEF ChatInv, ChatTypes
    <3> QED BY <1>6, <3>1
  <2>3. inbox' \in [Chatters -> Nat]
    BY <1>3, <1>8 DEF ChatInv, ChatTypes
  <2> QED BY <1>2, <1>8, <2>1, <2>2, <2>3 DEF ChatInv, ChatTypes
<1>11. ChatTableOK'
  BY <1>2, <1>6 DEF ChatInv, ChatTableOK
<1>12. ChatMembers'
  <2>1. \A d \in Members : chatter'[d] \notin {"out", "gone"}
    BY <1>2, <1>7 DEF ChatInv, ChatMembers
  <2>2. \A d \in Chatters : d \notin Members => heard'[d] = <<>>
    BY <1>6 DEF Hearers, ChatInv, ChatMembers
  <2>3. \A d \in Chatters : fds[d] = NoFd /\ chatter'[d] # "gone" => named[d] = 0
    BY <1>7 DEF ChatInv, ChatMembers
  <2>4. \A d \in Chatters : joined[d] <= Len(spoken')
    <3>1. \A d \in Chatters : joined[d] \in Nat /\ joined[d] <= Len(spoken)
      BY DEF ChatInv, ChatMembers, ChatTypes
    <3>2. Len(spoken) \in Nat
      BY <1>8
    <3> QED BY <1>3, <1>8, <3>1, <3>2
  <2>5. chat = "list" => \A i \in DOMAIN members : members[i] # Nobody
    BY DEF ChatInv, ChatMembers
  <2> QED BY <1>2, <2>1, <2>2, <2>3, <2>4, <2>5 DEF ChatMembers
<1>13. ChatHeard'
  <2> SUFFICES ASSUME NEW d \in Members, chatter'[d] = "open"
               PROVE  HasHeard(heard'[d], spoken', joined[d], d)
    BY <1>2 DEF ChatHeard
  <2>1. d \in Chatters /\ chatter[d] = "open"
    BY <1>2, <1>7
  <2>2. heard'[d] = IF c = d THEN heard[d] ELSE heard[d] \o l
    BY <1>6, <2>1 DEF Hearers
  <2>3. HasHeard(heard[d], spoken, joined[d], d)
    BY <2>1 DEF ChatInv, ChatHeard
  <2>4. joined[d] \in 0 .. Len(spoken)
    BY <1>8, <2>1 DEF ChatInv, ChatMembers, ChatTypes
  <2>5. heard[d] \in Seq(Chatters)
    BY <1>8, <2>1
  <2>6. HasHeard(IF c = d THEN heard[d] ELSE heard[d] \o l, spoken \o l, joined[d], d)
    BY <1>3, <1>5, <1>8, <2>3, <2>4, <2>5, HearMore
  <2> QED BY <1>6, <2>2, <2>6
<1>14. ChatCounted'
  <2> SUFFICES ASSUME NEW d \in Chatters
               PROVE  sentLines'[d] = named'[d] + Cardinality(OwnIn(spoken', d)) + inbox'[d]
    BY DEF ChatCounted
  <2>1. /\ inbox'[d] = inbox[d] - (IF c = d THEN n ELSE 0)
        /\ named'[d] = named[d] /\ sentLines'[d] = sentLines[d]
        /\ sentLines[d] \in Nat /\ inbox[d] \in Nat /\ named[d] \in Nat
    <3>1. sentLines[d] \in Nat /\ inbox[d] \in Nat /\ named[d] \in Nat /\ inbox \in [Chatters -> Nat]
      BY DEF ChatInv, ChatTypes
    <3>2. inbox' = [inbox EXCEPT ![c] = inbox[c] - n]
      BY <1>8
    <3>3. inbox'[d] = inbox[d] - (IF c = d THEN n ELSE 0)
      <4>1. CASE c = d
        BY <1>3, <3>1, <3>2, <4>1
      <4>2. CASE c # d
        <5>1. inbox'[d] = inbox[d] /\ inbox[d] \in Int
          BY <3>1, <3>2, <4>2
        <5> QED BY <4>2, <5>1
      <4> QED BY <4>1, <4>2
    <3> QED BY <1>2, <3>1, <3>3
  <2>2. Cardinality(OwnIn(spoken, d)) \in Nat
    BY <1>8, OwnCounted
  <2>3. sentLines[d] = named[d] + Cardinality(OwnIn(spoken, d)) + inbox[d]
    BY DEF ChatInv, ChatCounted
  <2>4. Cardinality(OwnIn(spoken \o l, d)) = Cardinality(OwnIn(spoken, d)) + (IF c = d THEN n ELSE 0)
    <3>1. c \in Chatters /\ n \in Nat /\ spoken \in Seq(Chatters) /\ l \in Seq(Chatters)
      BY <1>3, <1>5, <1>8
    <3>2. Len(l) = n /\ \A i \in 1 .. n : l[i] = c
      BY <1>5
    <3> QED BY <3>1, <3>2, OwnMore
  <2>5. Cardinality(OwnIn(spoken', d)) = Cardinality(OwnIn(spoken, d)) + (IF c = d THEN n ELSE 0)
    BY <1>6, <2>4
  <2> QED BY <1>3, <2>1, <2>2, <2>3, <2>5
<1> QED BY <1>10, <1>11, <1>12, <1>13, <1>14 DEF ChatInv

\* A set of numbers has a least one.
LEMMA LeastIndex == ASSUME NEW S \in SUBSET Nat, S # {} PROVE \E m \in S : \A l \in S : m <= l
<1> DEFINE Lt == {p \in Nat \X Nat : p[1] < p[2]}
<1>1. IsWellFoundedOn(Lt, Nat)
  BY NatLessThanWellFounded DEF OpToRel
<1>2. PICK m \in S : \A l \in S : ~(<<l, m>> \in Lt)
  BY <1>1, WFMin
<1>3. \A x, y \in Nat : x < y => <<x, y>> \in Lt
  BY DEF Lt
<1>4. \A x, y \in Nat : ~(x < y) => y <= x
  OBVIOUS
<1>5. \A l \in S : m <= l
  BY <1>2, <1>3, <1>4
<1> QED BY <1>5

\* There is a descriptor for a client that has none: with all of them in use, two would
\* be the same client's.
LEMMA FreeFdExists ==
    ASSUME ChatInv, NEW c \in Chatters, fds[c] = NoFd
    PROVE  FreeFd \in 1 .. NumChatters /\ \A d \in Chatters : fds[d] # FreeFd
<1> DEFINE FreeNumbers == {n \in 1 .. NumChatters : \A d \in Chatters : fds[d] # n}
           Fds == 1 .. NumChatters
           Rest == Chatters \ {c}
           Owner == [n \in 1 .. NumChatters |-> CHOOSE d \in Rest : fds[d] = n]
<1>1. NumChatters \in Nat /\ NumChatters # 0
  BY ChatConstants DEF Chatters
<1>2. IsFiniteSet(Fds) /\ Cardinality(Fds) = NumChatters
  BY <1>1, FS_Interval
<1>3. IsFiniteSet(Rest) /\ Cardinality(Rest) = NumChatters - 1
  BY <1>2, FS_RemoveElement DEF Chatters
<1>4. FreeNumbers # {}
  <2> SUFFICES ASSUME FreeNumbers = {} PROVE FALSE
    OBVIOUS
  <2>1. \A n \in 1 .. NumChatters : \E d \in Rest : fds[d] = n
    BY DEF NoFd
  <2>2. \A n \in 1 .. NumChatters : Owner[n] \in Rest /\ fds[Owner[n]] = n
    BY <2>1
  <2>3. Owner \in [Fds -> Rest]
    BY <2>2
  <2> HIDE DEF Owner, Rest, Fds
  <2>4. Cardinality(Rest) < Cardinality(Fds)
    BY <1>1, <1>2, <1>3
  <2>5. \E x, y \in Fds : x # y /\ Owner[x] = Owner[y]
    BY <1>2, <1>3, <2>3, <2>4, FS_PigeonHole
  <2> QED BY <2>2, <2>5 DEF Fds
<1> HIDE DEF Owner, Rest
<1>5. PICK n \in FreeNumbers : \A k \in FreeNumbers : n <= k
  <2>1. FreeNumbers \in SUBSET Nat
    OBVIOUS
  <2> HIDE DEF FreeNumbers
  <2> QED BY <1>4, <2>1, LeastIndex
<1>6. \A k \in 1 .. n - 1 : \E d \in Chatters : fds[d] = k
  <2> TAKE k \in 1 .. n - 1
  <2>1. n \in 1 .. NumChatters /\ k \in 1 .. NumChatters /\ ~(n <= k)
    BY <1>1
  <2> QED BY <1>5, <2>1
<1>7. /\ n \in 1 .. NumChatters
      /\ \A d \in Chatters : fds[d] # n
      /\ \A k \in 1 .. n - 1 : \E d \in Chatters : fds[d] = k
  BY <1>6
<1>8. \E k \in 1 .. NumChatters :
        /\ \A d \in Chatters : fds[d] # k
        /\ \A j \in 1 .. k - 1 : \E d \in Chatters : fds[d] = j
  BY <1>7
<1>9. /\ FreeFd \in 1 .. NumChatters
      /\ \A d \in Chatters : fds[d] # FreeFd
      /\ \A j \in 1 .. FreeFd - 1 : \E d \in Chatters : fds[d] = j
  BY <1>8, Zenon DEF FreeFd
<1> QED BY <1>9

\* The table with a new entry: c is added, unless the array is full.
LEMMA InsertedTable ==
    ASSUME ChatInv, NEW c \in Chatters, c \notin Members, members' = Inserted(c), chat' = chat
    PROVE  /\ members' \in Seq(Chatters \cup {Nobody})
           /\ Members' = Members \cup {c} \/ (Members' = Members /\ chat = "array")
           /\ \A i, j \in DOMAIN members' : members'[i] = members'[j] => i = j \/ members'[i] = Nobody
           /\ chat = "list" => \A i \in DOMAIN members' : members'[i] # Nobody
<1>1. /\ members \in Seq(Chatters \cup {Nobody}) /\ DOMAIN members = 1 .. Len(members)
      /\ \A i, j \in DOMAIN members : members[i] = members[j] => i = j \/ members[i] = Nobody
      /\ chat = "list" => \A i \in DOMAIN members : members[i] # Nobody
      /\ chat \in {"list", "array"} /\ Nobody \notin Chatters
      /\ \A i \in DOMAIN members : members[i] # c
  BY ChatConstants DEF ChatInv, ChatTypes, ChatTableOK, ChatMembers, Members, Chatters
<1>2. CASE chat = "list"
  <2>1. members' = <<c>> \o members
    BY <1>2 DEF Inserted
  <2>2. members' \in Seq(Chatters \cup {Nobody}) /\ Len(members') = Len(members) + 1
    BY <1>1, <2>1
  <2>3. members'[1] = c /\ \A i \in 2 .. Len(members) + 1 : i - 1 \in DOMAIN members /\ members'[i] = members[i - 1]
    BY <1>1, <2>1
  <2>4. DOMAIN members' = 1 .. Len(members) + 1
    BY <2>2
  <2>5. \A i \in DOMAIN members : i + 1 \in DOMAIN members' /\ members'[i + 1] = members[i]
    BY <1>1, <2>1, <2>4
  <2>6. \A x : x \in Members' <=> x \in Members \cup {c}
    <3>1. \A x : x \in Members' <=> (\E i \in DOMAIN members' : members'[i] = x) /\ x # Nobody
      BY DEF Members
    <3>2. \A x : x \in Members <=> (\E i \in DOMAIN members : members[i] = x) /\ x # Nobody
      BY DEF Members
    <3>3. 1 \in DOMAIN members' /\ c # Nobody
      BY <1>1, <2>2, <2>4
    <3>4. \A i \in DOMAIN members' : i = 1 \/ i \in 2 .. Len(members) + 1
      BY <2>4
    <3> QED BY <2>3, <2>5, <3>1, <3>2, <3>3, <3>4
  <2>7. \A i, j \in DOMAIN members' : members'[i] = members'[j] => i = j \/ members'[i] = Nobody
    <3> TAKE i, j \in DOMAIN members'
    <3>1. i \in 1 .. Len(members) + 1 /\ j \in 1 .. Len(members) + 1
      BY <2>4
    <3>2. CASE i = 1 \/ j = 1
      <4>1. \A h \in 2 .. Len(members) + 1 : members'[h] # c
        BY <1>1, <2>3
      <4>2. i = 1 \/ i \in 2 .. Len(members) + 1
        BY <3>1
      <4>3. j = 1 \/ j \in 2 .. Len(members) + 1
        BY <3>1
      <4> QED BY <2>3, <3>2, <4>1, <4>2, <4>3
    <3>3. CASE i # 1 /\ j # 1
      <4>1. i \in 2 .. Len(members) + 1 /\ j \in 2 .. Len(members) + 1
        BY <1>1, <3>1, <3>3
      <4>2. /\ members'[i] = members[i - 1] /\ members'[j] = members[j - 1]
            /\ i - 1 \in DOMAIN members /\ j - 1 \in DOMAIN members
        BY <2>3, <4>1
      <4>3. members[i - 1] = members[j - 1] => i - 1 = j - 1 \/ members[i - 1] = Nobody
        BY <1>1, <4>2
      <4>4. i - 1 = j - 1 => i = j
        BY <4>1
      <4> QED BY <4>2, <4>3, <4>4
    <3> QED BY <3>2, <3>3
  <2>8. \A i \in DOMAIN members' : members'[i] # Nobody
    <3> TAKE i \in DOMAIN members'
    <3>1. i = 1 \/ i \in 2 .. Len(members) + 1
      BY <2>4
    <3> QED BY <1>1, <1>2, <2>3, <3>1
  <2> QED BY <1>2, <2>2, <2>6, <2>7, <2>8
<1>3. CASE chat = "array" /\ \A i \in DOMAIN members : members[i] # Nobody
  <2>1. members' = members
    BY <1>3 DEF Inserted
  <2> QED BY <1>1, <1>3, <2>1 DEF Members
<1>4. CASE chat = "array" /\ \E i \in DOMAIN members : members[i] = Nobody
  <2> DEFINE free == {i \in DOMAIN members : members[i] = Nobody}
  <2>1. PICK m \in free : \A j \in free : m <= j
    <3>1. free \in SUBSET Nat /\ free # {}
      BY <1>1, <1>4
    <3> HIDE DEF free
    <3> QED BY <3>1, LeastIndex
  <2>2. PICK k \in free : members' = [members EXCEPT ![k] = c]
    BY <1>4, <2>1 DEF Inserted
  <2>3. /\ members' \in Seq(Chatters \cup {Nobody}) /\ DOMAIN members' = DOMAIN members
        /\ k \in DOMAIN members /\ members[k] = Nobody
        /\ \A i \in DOMAIN members : members'[i] = IF i = k THEN c ELSE members[i]
    BY <1>1, <2>2
  <2>4. \A x : x \in Members' <=> x \in Members \cup {c}
    <3>1. \A x : x \in Members' <=> (\E i \in DOMAIN members' : members'[i] = x) /\ x # Nobody
      BY DEF Members
    <3>2. \A x : x \in Members <=> (\E i \in DOMAIN members : members[i] = x) /\ x # Nobody
      BY DEF Members
    <3>3. c # Nobody
      BY <1>1
    <3> QED BY <2>3, <3>1, <3>2, <3>3
  <2>5. \A i, j \in DOMAIN members' : members'[i] = members'[j] => i = j \/ members'[i] = Nobody
    BY <1>1, <2>3
  <2> QED BY <1>4, <2>3, <2>4, <2>5
<1> QED BY <1>1, <1>2, <1>3, <1>4

LEMMA AcceptInv == ASSUME ChatInv, AcceptChatter PROVE ChatInv'
<1>1. PICK c \in Backlog :
        /\ fds' = [fds EXCEPT ![c] = FreeFd] /\ members' = Inserted(c)
        /\ joined' = [joined EXCEPT ![c] = Len(spoken)] /\ named' = [named EXCEPT ![c] = 0]
        /\ IF c \in Members' THEN watched' = watched \union {c} /\ UNCHANGED chatServer
                             ELSE chatServer' \in {"running", "killed"} /\ UNCHANGED watched
  BY DEF AcceptChatter
<1>2. UNCHANGED <<chat, ready, chatter, sentLines, inbox, heard, spoken>>
  BY DEF AcceptChatter, clientVars
<1>3. c \in Chatters /\ fds[c] = NoFd /\ chatter[c] \notin {"out", "gone"} /\ c \notin Members
  BY <1>1 DEF Backlog, ChatInv, ChatTableOK
<1>4. FreeFd \in 1 .. NumChatters /\ \A d \in Chatters : fds[d] # FreeFd
  BY <1>3, FreeFdExists
<1>5. /\ members' \in Seq(Chatters \cup {Nobody})
      /\ Members' = Members \cup {c} \/ (Members' = Members /\ chat = "array")
      /\ \A i, j \in DOMAIN members' : members'[i] = members'[j] => i = j \/ members'[i] = Nobody
      /\ chat = "list" => \A i \in DOMAIN members' : members'[i] # Nobody
  BY <1>1, <1>2, <1>3, InsertedTable
<1>6. /\ Members \subseteq Chatters /\ fds \in [Chatters -> 0 .. NumChatters]
      /\ joined \in [Chatters -> Nat] /\ named \in [Chatters -> Nat]
      /\ spoken \in Seq(Chatters) /\ Len(spoken) \in Nat
  BY MembersTyped DEF ChatInv, ChatTypes
<1>7. /\ \A d \in Chatters : fds'[d] = IF d = c THEN FreeFd ELSE fds[d]
      /\ \A d \in Chatters : joined'[d] = IF d = c THEN Len(spoken) ELSE joined[d]
      /\ \A d \in Chatters : named'[d] = IF d = c THEN 0 ELSE named[d]
  BY <1>1, <1>3, <1>6
<1>8. FreeFd # NoFd
  BY <1>4 DEF NoFd
<1>9. ChatTypes'
  <2>1. fds' \in [Chatters -> 0 .. NumChatters]
    <3>1. FreeFd \in 0 .. NumChatters
      BY <1>4, ChatConstants
    <3> QED BY <1>1, <1>6, <3>1
  <2>2. joined' \in [Chatters -> Nat] /\ named' \in [Chatters -> Nat]
    BY <1>1, <1>6
  <2> QED BY <1>2, <1>5, <2>1, <2>2 DEF ChatInv, ChatTypes
<1>10. ChatTableOK'
  <2>1. chatServer' \in {"running", "killed"}
    BY <1>1 DEF ChatInv, ChatTableOK
  <2>2. watched' = Members' /\ ready' \subseteq Members'
    BY <1>1, <1>2, <1>3, <1>5 DEF ChatInv, ChatTableOK
  <2>3. \A d \in Members' : fds'[d] # NoFd
    <3> TAKE d \in Members'
    <3>1. d = c \/ d \in Members
      BY <1>5
    <3>2. CASE d = c
      BY <1>3, <1>7, <1>8, <3>2
    <3>3. CASE d # c
      BY <1>6, <1>7, <3>1, <3>3 DEF ChatInv, ChatTableOK
    <3> QED BY <3>2, <3>3
  <2>4. \A d, e \in Chatters : fds'[d] = fds'[e] => d = e \/ fds'[d] = NoFd
    BY <1>4, <1>7 DEF ChatInv, ChatTableOK
  <2>5. chat' = "list" => \A d \in Chatters : fds'[d] # NoFd => d \in Members'
    BY <1>2, <1>5, <1>7 DEF ChatInv, ChatTableOK
  <2> QED BY <1>5, <2>1, <2>2, <2>3, <2>4, <2>5 DEF ChatTableOK
<1>11. ChatMembers'
  <2>1. \A d \in Members' : chatter'[d] \notin {"out", "gone"}
    BY <1>2, <1>3, <1>5 DEF ChatInv, ChatMembers
  <2>2. \A d \in Chatters : d \notin Members' => heard'[d] = <<>>
    BY <1>2, <1>5 DEF ChatInv, ChatMembers
  <2>3. \A d \in Chatters : fds'[d] = NoFd /\ chatter'[d] # "gone" => named'[d] = 0
    BY <1>2, <1>7, <1>8 DEF ChatInv, ChatMembers
  <2>4. \A d \in Chatters : joined'[d] <= Len(spoken')
    <3> TAKE d \in Chatters
    <3>1. joined[d] <= Len(spoken)
      BY DEF ChatInv, ChatMembers
    <3>2. joined'[d] = joined[d] \/ joined'[d] = Len(spoken)
      BY <1>7
    <3> QED BY <1>2, <1>6, <3>1, <3>2
  <2> QED BY <1>2, <1>5, <2>1, <2>2, <2>3, <2>4 DEF ChatMembers
<1>12. ChatHeard'
  <2> SUFFICES ASSUME NEW d \in Members', chatter[d] = "open"
               PROVE  HasHeard(heard[d], spoken, joined'[d], d)
    BY <1>2 DEF ChatHeard
  <2>1. CASE d = c
    <3>1. heard[c] = <<>> /\ joined'[c] = Len(spoken)
      BY <1>3, <1>7 DEF ChatInv, ChatMembers
    <3>2. LinesAfter(spoken, Len(spoken), c) = {}
      BY <1>6 DEF LinesAfter
    <3>3. Len(heard[c]) = Cardinality(LinesAfter(spoken, Len(spoken), c))
      BY <3>1, <3>2, FS_EmptySet
    <3> QED BY <2>1, <3>1, <3>2, <3>3 DEF HasHeard
  <2>2. CASE d # c
    <3>1. d \in Members /\ joined'[d] = joined[d]
      BY <1>5, <1>6, <1>7, <2>2
    <3> QED BY <3>1 DEF ChatInv, ChatHeard
  <2> QED BY <2>1, <2>2
<1>13. ChatCounted'
  <2> SUFFICES ASSUME NEW d \in Chatters
               PROVE  sentLines[d] = named'[d] + Cardinality(OwnIn(spoken, d)) + inbox[d]
    BY <1>2 DEF ChatCounted
  <2>1. named'[d] = named[d]
    BY <1>3, <1>7 DEF ChatInv, ChatMembers
  <2> QED BY <2>1 DEF ChatInv, ChatCounted
<1> QED BY <1>9, <1>10, <1>11, <1>12, <1>13 DEF ChatInv

\* The table without the entry i, which is c's.
LEMMA RemovedTable ==
    ASSUME ChatInv, NEW i \in DOMAIN members, NEW c \in Chatters, members[i] = c,
           members' = Removed(i), chat' = chat
    PROVE  /\ members' \in Seq(Chatters \cup {Nobody})
           /\ Members' = Members \ {c}
           /\ \A j, k \in DOMAIN members' : members'[j] = members'[k] => j = k \/ members'[j] = Nobody
           /\ chat = "list" => \A j \in DOMAIN members' : members'[j] # Nobody
<1>1. /\ members \in Seq(Chatters \cup {Nobody}) /\ DOMAIN members = 1 .. Len(members)
      /\ \A j, k \in DOMAIN members : members[j] = members[k] => j = k \/ members[j] = Nobody
      /\ chat = "list" => \A j \in DOMAIN members : members[j] # Nobody
      /\ chat \in {"list", "array"} /\ c # Nobody
      /\ i \in 1 .. Len(members) /\ Len(members) \in Nat
  <2>1. members \in Seq(Chatters \cup {Nobody}) /\ chat \in {"list", "array"}
    BY DEF ChatInv, ChatTypes
  <2>2. DOMAIN members = 1 .. Len(members) /\ Len(members) \in Nat
    BY <2>1
  <2>3. c # Nobody
    BY ChatConstants DEF Chatters
  <2>4. \A j, k \in DOMAIN members : members[j] = members[k] => j = k \/ members[j] = Nobody
    BY DEF ChatInv, ChatTableOK
  <2>5. chat = "list" => \A j \in DOMAIN members : members[j] # Nobody
    BY DEF ChatInv, ChatMembers
  <2> QED BY <2>1, <2>2, <2>3, <2>4, <2>5
<1>2. \A j \in DOMAIN members : members[j] = c <=> j = i
  BY <1>1
<1>3. CASE chat = "list"
  <2>1. members' = SubSeq(members, 1, i - 1) \o SubSeq(members, i + 1, Len(members))
    BY <1>3 DEF Removed
  <2>2. /\ SubSeq(members, 1, i - 1) \in Seq(Chatters \cup {Nobody})
        /\ Len(SubSeq(members, 1, i - 1)) = i - 1
        /\ SubSeq(members, i + 1, Len(members)) \in Seq(Chatters \cup {Nobody})
        /\ Len(SubSeq(members, i + 1, Len(members))) = Len(members) - i
    BY <1>1
  <2>3. members' \in Seq(Chatters \cup {Nobody}) /\ Len(members') = Len(members) - 1
    <3>1. \A u, v \in Seq(Chatters \cup {Nobody}) :
             u \o v \in Seq(Chatters \cup {Nobody}) /\ Len(u \o v) = Len(u) + Len(v)
      OBVIOUS
    <3>2. i - 1 + (Len(members) - i) = Len(members) - 1
      BY <1>1
    <3> QED BY <2>1, <2>2, <3>1, <3>2
  <2>4. DOMAIN members' = 1 .. Len(members) - 1
    BY <2>3
  <2>5. \A j \in 1 .. Len(members) - 1 : members'[j] = IF j < i THEN members[j] ELSE members[j + 1]
    <3> TAKE j \in 1 .. Len(members) - 1
    <3>1. CASE j < i
      <4>1. j \in 1 .. i - 1
        BY <1>1, <3>1
      <4>2. SubSeq(members, 1, i - 1)[j] = members[j]
        BY <1>1, <4>1
      <4> QED BY <2>1, <2>2, <3>1, <4>1, <4>2
    <3>2. CASE ~(j < i)
      <4>1. j - (i - 1) \in 1 .. Len(members) - i
        BY <1>1, <3>2
      <4>2. SubSeq(members, i + 1, Len(members))[j - (i - 1)] = members[i + 1 + (j - (i - 1)) - 1]
        BY <1>1, <4>1
      <4>3. i + 1 + (j - (i - 1)) - 1 = j + 1
        BY <1>1
      <4>4. members'[j] = SubSeq(members, i + 1, Len(members))[j - (i - 1)]
        <5>1. \A u, v \in Seq(Chatters \cup {Nobody}) : \A k \in 1 .. Len(u) + Len(v) :
                 Len(u) < k => (u \o v)[k] = v[k - Len(u)]
          OBVIOUS
        <5>2. i - 1 + (Len(members) - i) = Len(members) - 1 /\ i - 1 < j
          BY <1>1, <3>2
        <5> DEFINE u == SubSeq(members, 1, i - 1)
                   v == SubSeq(members, i + 1, Len(members))
        <5>3. /\ u \in Seq(Chatters \cup {Nobody}) /\ v \in Seq(Chatters \cup {Nobody})
              /\ Len(u) = i - 1 /\ Len(v) = Len(members) - i /\ members' = u \o v
          BY <2>1, <2>2
        <5> HIDE DEF u, v
        <5>4. j \in 1 .. Len(u) + Len(v) /\ Len(u) < j
          BY <5>2, <5>3
        <5>5. (u \o v)[j] = v[j - Len(u)]
          BY <5>1, <5>3, <5>4
        <5> QED BY <5>3, <5>5 DEF v
      <4> QED BY <3>2, <4>2, <4>3, <4>4
    <3> QED BY <3>1, <3>2
  <2> DEFINE Old(j) == IF j < i THEN j ELSE j + 1
  <2>6. \A j \in DOMAIN members' : Old(j) \in DOMAIN members \ {i} /\ members'[j] = members[Old(j)]
    BY <1>1, <2>4, <2>5
  <2>7. \A k \in DOMAIN members \ {i} : \E j \in DOMAIN members' : k = Old(j)
    <3> TAKE k \in DOMAIN members \ {i}
    <3>1. CASE k < i
      <4>1. k \in DOMAIN members' /\ k = Old(k)
        BY <1>1, <2>4, <3>1
      <4> QED BY <4>1
    <3>2. CASE ~(k < i)
      <4>1. k - 1 \in DOMAIN members' /\ k = Old(k - 1)
        BY <1>1, <2>4, <3>2
      <4> QED BY <4>1
    <3> QED BY <3>1, <3>2
  <2>8. \A j, k \in DOMAIN members' : Old(j) = Old(k) => j = k
    BY <1>1, <2>4
  <2> HIDE DEF Old
  <2>9. \A x : x \in Members' <=> x \in Members \ {c}
    <3>1. \A x : x \in Members' <=> (\E j \in DOMAIN members' : members'[j] = x) /\ x # Nobody
      BY DEF Members
    <3>2. \A x : x \in Members <=> (\E j \in DOMAIN members : members[j] = x) /\ x # Nobody
      BY DEF Members
    <3>3. \A x : (\E j \in DOMAIN members' : members'[j] = x) <=> (\E k \in DOMAIN members \ {i} : members[k] = x)
      BY <2>6, <2>7
    <3>4. \A x : (\E k \in DOMAIN members \ {i} : members[k] = x) <=> (\E k \in DOMAIN members : members[k] = x) /\ x # c
      BY <1>2
    <3> QED BY <3>1, <3>2, <3>3, <3>4
  <2>10. \A j, k \in DOMAIN members' : members'[j] = members'[k] => j = k \/ members'[j] = Nobody
    BY <1>1, <2>6, <2>8
  <2>11. \A j \in DOMAIN members' : members'[j] # Nobody
    BY <1>1, <1>3, <2>6
  <2> QED BY <1>3, <2>3, <2>9, <2>10, <2>11
<1>4. CASE chat = "array"
  <2>1. members' = [members EXCEPT ![i] = Nobody]
    BY <1>4 DEF Removed
  <2>2. /\ members' \in Seq(Chatters \cup {Nobody}) /\ DOMAIN members' = DOMAIN members
        /\ \A j \in DOMAIN members : members'[j] = IF j = i THEN Nobody ELSE members[j]
    BY <1>1, <2>1
  <2>3. \A x : x \in Members' <=> x \in Members \ {c}
    <3>1. \A x : x \in Members' <=> (\E j \in DOMAIN members' : members'[j] = x) /\ x # Nobody
      BY DEF Members
    <3>2. \A x : x \in Members <=> (\E j \in DOMAIN members : members[j] = x) /\ x # Nobody
      BY DEF Members
    <3> QED BY <1>2, <2>2, <3>1, <3>2
  <2>4. \A j, k \in DOMAIN members' : members'[j] = members'[k] => j = k \/ members'[j] = Nobody
    BY <1>1, <2>2
  <2> QED BY <1>4, <2>2, <2>3, <2>4
<1> QED BY <1>1, <1>3, <1>4

LEMMA RecvEndInv == ASSUME ChatInv, NEW c \in Chatters, RecvEnd(c) PROVE ChatInv'
<1>1. PICK i \in DOMAIN members : members[i] = c /\ members' = Removed(i)
  BY DEF RecvEnd
<1>2. /\ watched' = watched \ {c} /\ ready' = ready \ {c}
      /\ fds' = [fds EXCEPT ![c] = NoFd] /\ chatter' = [chatter EXCEPT ![c] = "gone"]
      /\ heard' = [heard EXCEPT ![c] = <<>>] /\ joined' = [joined EXCEPT ![c] = 0]
      /\ UNCHANGED <<chat, chatServer, named, sentLines, inbox, spoken>>
  BY DEF RecvEnd, Turn
<1>3. /\ members' \in Seq(Chatters \cup {Nobody})
      /\ Members' = Members \ {c}
      /\ \A j, k \in DOMAIN members' : members'[j] = members'[k] => j = k \/ members'[j] = Nobody
      /\ chat = "list" => \A j \in DOMAIN members' : members'[j] # Nobody
  BY <1>1, <1>2, RemovedTable
<1>4. /\ Members \subseteq Chatters /\ fds \in [Chatters -> 0 .. NumChatters]
      /\ joined \in [Chatters -> Nat] /\ heard \in [Chatters -> Seq(Chatters)]
      /\ chatter \in [Chatters -> {"out", "open", "closed", "reset", "broken", "gone"}]
      /\ spoken \in Seq(Chatters) /\ Len(spoken) \in Nat /\ NumChatters \in Nat
  <2>1. Members \subseteq Chatters
    BY MembersTyped DEF ChatInv
  <2>2. /\ fds \in [Chatters -> 0 .. NumChatters] /\ joined \in [Chatters -> Nat]
        /\ heard \in [Chatters -> Seq(Chatters)] /\ spoken \in Seq(Chatters)
        /\ chatter \in [Chatters -> {"out", "open", "closed", "reset", "broken", "gone"}]
    BY DEF ChatInv, ChatTypes
  <2>3. Len(spoken) \in Nat /\ NumChatters \in Nat
    BY <2>2, ChatConstants
  <2> QED BY <2>1, <2>2, <2>3
<1>5. /\ \A d \in Chatters : fds'[d] = IF d = c THEN NoFd ELSE fds[d]
      /\ \A d \in Chatters : joined'[d] = IF d = c THEN 0 ELSE joined[d]
      /\ \A d \in Chatters : heard'[d] = IF d = c THEN <<>> ELSE heard[d]
      /\ \A d \in Chatters : chatter'[d] = IF d = c THEN "gone" ELSE chatter[d]
  BY <1>2, <1>4
<1>6. ChatTypes'
  <2>1. fds' \in [Chatters -> 0 .. NumChatters] /\ joined' \in [Chatters -> Nat]
    BY <1>2, <1>4 DEF NoFd
  <2>2. heard' \in [Chatters -> Seq(Chatters)]
    BY <1>2, <1>4
  <2>3. chatter' \in [Chatters -> {"out", "open", "closed", "reset", "broken", "gone"}]
    BY <1>2, <1>4
  <2> QED BY <1>2, <1>3, <2>1, <2>2, <2>3 DEF ChatInv, ChatTypes
<1>7. ChatTableOK'
  <2>1. watched' = Members' /\ ready' \subseteq Members'
    BY <1>2, <1>3 DEF ChatInv, ChatTableOK
  <2>2. \A d \in Members' : fds'[d] # NoFd
    BY <1>3, <1>4, <1>5 DEF ChatInv, ChatTableOK
  <2>3. \A d, e \in Chatters : fds'[d] = fds'[e] => d = e \/ fds'[d] = NoFd
    BY <1>5 DEF ChatInv, ChatTableOK
  <2>4. chat' = "list" => \A d \in Chatters : fds'[d] # NoFd => d \in Members'
    BY <1>2, <1>3, <1>5 DEF ChatInv, ChatTableOK
  <2>5. chatServer' \in {"running", "killed"}
    BY <1>2 DEF ChatInv, ChatTableOK
  <2> QED BY <1>3, <2>1, <2>2, <2>3, <2>4, <2>5 DEF ChatTableOK
<1>8. ChatMembers'
  <2>1. \A d \in Members' : chatter'[d] \notin {"out", "gone"}
    BY <1>3, <1>4, <1>5 DEF ChatInv, ChatMembers
  <2>2. \A d \in Chatters : d \notin Members' => heard'[d] = <<>>
    BY <1>3, <1>5 DEF ChatInv, ChatMembers
  <2>3. \A d \in Chatters : fds'[d] = NoFd /\ chatter'[d] # "gone" => named'[d] = 0
    BY <1>2, <1>5 DEF ChatInv, ChatMembers
  <2>4. \A d \in Chatters : joined'[d] <= Len(spoken')
    BY <1>2, <1>4, <1>5 DEF ChatInv, ChatMembers
  <2> QED BY <1>2, <1>3, <2>1, <2>2, <2>3, <2>4 DEF ChatMembers
<1>9. ChatHeard'
  <2> SUFFICES ASSUME NEW d \in Members', chatter'[d] = "open"
               PROVE  HasHeard(heard'[d], spoken, joined'[d], d)
    BY <1>2 DEF ChatHeard
  <2>1. d \in Members /\ d \in Chatters /\ d # c
    BY <1>3, <1>4
  <2>2. heard'[d] = heard[d] /\ joined'[d] = joined[d] /\ chatter[d] = "open"
    BY <1>5, <2>1
  <2> QED BY <2>1, <2>2 DEF ChatInv, ChatHeard
<1>10. ChatCounted'
  BY <1>2 DEF ChatInv, ChatCounted
<1> QED BY <1>6, <1>7, <1>8, <1>9, <1>10 DEF ChatInv

LEMMA ChatStepInv == ASSUME ChatInv, [ChatNext]_chatVars PROVE ChatInv'
<1>1. CASE UNCHANGED chatVars
  <2>1. Members' = Members /\ UNCHANGED <<chat, chatServer, members, watched, fds, ready, chatter,
                                          sentLines, inbox, heard, named, spoken, joined>>
    BY <1>1 DEF chatVars, Members
  <2> QED BY <2>1 DEF ChatInv, ChatTypes, ChatTableOK, ChatMembers, ChatHeard, ChatCounted
<1>2. CASE Select
  BY <1>2, SelectInv
<1>3. CASE AcceptChatter
  BY <1>3, AcceptInv
<1>4. CASE SayToAll
  BY <1>4, SayToAllInv
<1>5. ASSUME NEW c \in Chatters, RecvLines(c) PROVE ChatInv'
  <2>1. CASE chat = "list" /\ named[c] = 0
    BY <1>5, <2>1, RecvNameInv
  <2>2. CASE ~(chat = "list" /\ named[c] = 0)
    BY <1>5, <2>2, RecvRoundInv
  <2> QED BY <2>1, <2>2
<1>6. ASSUME NEW c \in Chatters, RecvError(c) PROVE ChatInv'
  BY <1>6, RecvErrorInv
<1>7. ASSUME NEW c \in Chatters, RecvEnd(c) PROVE ChatInv'
  BY <1>7, RecvEndInv
<1>8. ASSUME NEW c \in Chatters, JoinRoom(c) PROVE ChatInv'
  BY <1>8, JoinInv
<1>9. ASSUME NEW c \in Chatters, Speak(c) PROVE ChatInv'
  BY <1>9, SpeakInv
<1>10. ASSUME NEW c \in Chatters, LeaveRoom(c) PROVE ChatInv'
  BY <1>10, LeaveInv
<1> QED BY <1>1, <1>2, <1>3, <1>4, <1>5, <1>6, <1>7, <1>8, <1>9, <1>10 DEF ChatNext, ChatServer

LEMMA ChatAlways == ChatSpec => []ChatInv
<1>1. ChatInit => ChatInv
  BY ChatInitInv
<1>2. ChatInv /\ [ChatNext]_chatVars => ChatInv'
  BY ChatStepInv
<1> QED BY <1>1, <1>2, PTL DEF ChatSpec

\* The table of a chat server, select's set and the descriptors agree, for any number of
\* clients and lines, any sizes of the array and any limit of select: a descriptor is one
\* client's, a member has one, and only a full array leaves a descriptor without entry.
THEOREM ChatTableTheorem == ChatSpec => []ChatTableOK
<1>1. ChatInv => ChatTableOK
  BY DEF ChatInv
<1> QED BY <1>1, ChatAlways, PTL

\* Every line goes to every other member, once, whole and in one order for all, whatever
\* the order in which clients come, talk and leave: the n-th line that a member hears is
\* the n-th that others said since it joined.  What a user sent is its name, was said, or
\* waits.
THEOREM ChatBroadcastsTheorem == ChatSpec => []ChatBroadcasts
<1>1. ASSUME ChatInv PROVE ChatBroadcasts
  <2>1. \A c : Due(c) = LinesAfter(spoken, joined[c], c) /\ Own(c) = OwnIn(spoken, c)
    BY DEF Due, Own, LinesAfter, OwnIn
  <2>2. ASSUME NEW c \in Members, chatter[c] = "open"
        PROVE  /\ Len(heard[c]) = Cardinality(Due(c))
               /\ \A i \in Due(c) : heard[c][Cardinality({j \in Due(c) : j <= i})] = spoken[i]
    <3>1. HasHeard(heard[c], spoken, joined[c], c)
      BY <1>1, <2>2 DEF ChatInv, ChatHeard
    <3> QED BY <2>1, <3>1 DEF HasHeard, Upto
  <2>3. \A c \in Chatters : sentLines[c] = named[c] + Cardinality(Own(c)) + inbox[c]
    BY <1>1, <2>1 DEF ChatInv, ChatCounted
  <2> QED BY <2>2, <2>3 DEF ChatBroadcasts
<1> QED BY <1>1, ChatAlways, PTL

----------------------------------------------------------------------------
(* The chat for two *)

\* The states of a connection.
GuestStates == {"out", "open", "closed", "reset", "broken", "gone"}

\* Clients come, and are accepted, in the order of their numbers; new_fd is one of them.
PairOrder ==
    /\ guest \in [Guests -> GuestStates]
    /\ accepted \subseteq Guests
    /\ latest \in accepted \cup {NoGuest}
    /\ \A c, d \in Guests : d < c /\ guest[c] # "out" => guest[d] # "out"
    /\ \A c \in accepted : \A d \in Guests : d < c => d \in accepted
    /\ \A c \in accepted : guest[c] # "out"
    /\ \A c \in Guests : guest[c] = "gone" => c \in accepted

PairInv == PairTableOK /\ PairOrder

LEMMA PairInitInv == ASSUME PairInit PROVE PairInv
  BY DEF PairInit, PairInv, PairTableOK, PairOrder, GuestStates

\* A step of a connection: one that has come stays, and one that is watched stays open.
LEMMA GuestStepInv ==
    ASSUME PairInv, NEW c \in Guests, NEW new \in GuestStates \ {"out", "gone"},
           guest' = [guest EXCEPT ![c] = new], guest[c] \notin {"out", "gone"},
           UNCHANGED <<pair, accepted, polled, latest>>,
           pairServer' = pairServer \/ pairServer' \in {"running", "killed"}
    PROVE  PairInv'
<1>1. guest' \in [Guests -> GuestStates]
  BY DEF PairInv, PairOrder
<1>2. \A d \in Guests : guest'[d] = IF d = c THEN new ELSE guest[d]
  BY DEF PairInv, PairOrder
<1>3. polled \subseteq Guests
  BY DEF PairInv, PairTableOK, PairOrder
<1>4. PairTableOK'
  BY <1>2, <1>3 DEF PairInv, PairTableOK
<1>5. PairOrder'
  BY <1>1, <1>2 DEF PairInv, PairOrder
<1> QED BY <1>4, <1>5 DEF PairInv

\* A step that leaves the connections alone.
LEMMA ServerStepInv ==
    ASSUME PairInv, UNCHANGED <<pair, accepted, polled, latest, guest, pairServer>>
    PROVE  PairInv'
  BY DEF PairInv, PairTableOK, PairOrder

LEMMA ArriveInv == ASSUME PairInv, NEW c \in Guests, Arrive(c) PROVE PairInv'
<1>1. /\ guest[c] = "out" /\ guest' = [guest EXCEPT ![c] = "open"]
      /\ \A d \in 1 .. c - 1 : guest[d] # "out"
      /\ UNCHANGED <<pair, accepted, polled, latest, pairServer>>
  BY DEF Arrive, connVars
<1>2. \A d \in Guests : guest'[d] = IF d = c THEN "open" ELSE guest[d]
  BY <1>1 DEF PairInv, PairOrder
<1>3. guest' \in [Guests -> GuestStates]
  BY <1>1 DEF PairInv, PairOrder, GuestStates
<1>4. \A d \in Guests : d < c => d \in 1 .. c - 1
  BY DEF Guests
<1>5. polled \subseteq Guests /\ c \notin accepted
  BY <1>1 DEF PairInv, PairTableOK, PairOrder
<1>6. PairTableOK'
  BY <1>1, <1>2, <1>5 DEF PairInv, PairTableOK
<1>7. \A a, b \in Guests : b < a /\ guest'[a] # "out" => guest'[b] # "out"
  BY <1>1, <1>2, <1>4 DEF PairInv, PairOrder
<1>8. PairOrder'
  BY <1>1, <1>2, <1>3, <1>7 DEF PairInv, PairOrder
<1> QED BY <1>6, <1>8 DEF PairInv

LEMMA AcceptGuestInv == ASSUME PairInv, AcceptGuest PROVE PairInv'
<1>1. PICK c \in Knocking :
        /\ \A d \in Knocking : c <= d
        /\ latest' = c /\ accepted' = accepted \union {c} /\ polled' = polled \union {c}
  BY DEF AcceptGuest
<1>2. UNCHANGED <<pair, pairServer, guest>>
  BY DEF AcceptGuest
<1>3. c \in Guests /\ guest[c] \notin {"out", "gone"} /\ c \notin accepted
  BY <1>1 DEF Knocking
<1>4. \A d \in Guests : d < c => d \in accepted
  <2> TAKE d \in Guests
  <2>1. HAVE d < c
  <2>2. ~(c <= d)
    BY <1>3, <2>1 DEF Guests
  <2>3. d \notin Knocking
    BY <1>1, <2>2
  <2>4. guest[d] # "out"
    BY <1>3, <2>1 DEF PairInv, PairOrder
  <2> QED BY <2>3, <2>4 DEF Knocking, PairInv, PairOrder
<1>5. \A a \in accepted : a <= c
  <2> TAKE a \in accepted
  <2>1. a \in Guests
    BY DEF PairInv, PairOrder
  <2>2. ~(c < a)
    BY <1>3, <2>1 DEF PairInv, PairOrder
  <2> QED BY <1>3, <2>1, <2>2 DEF Guests
<1>6. c # NoGuest /\ c <= c
  BY <1>3, PairConstants DEF Guests
<1>7. PairTableOK'
  BY <1>1, <1>2, <1>3, <1>5, <1>6 DEF PairInv, PairTableOK
<1>8. PairOrder'
  BY <1>1, <1>2, <1>3, <1>4 DEF PairInv, PairOrder
<1> QED BY <1>7, <1>8 DEF PairInv

LEMMA RecvCloseInv == ASSUME PairInv, NEW c \in Guests, RecvClose(c) PROVE PairInv'
<1>1. /\ c = latest /\ guest[c] \in {"closed", "broken"} /\ polled' = polled \ {c}
      /\ guest' = IF pair = "select" THEN guest ELSE [guest EXCEPT ![c] = "gone"]
      /\ pairServer' = IF pair = "once" THEN "ended" ELSE "running"
      /\ UNCHANGED <<pair, accepted, latest>>
  BY DEF RecvClose
<1>2. c \in accepted
  BY <1>1, PairConstants DEF PairInv, PairOrder, Guests
<1>3. /\ guest' \in [Guests -> GuestStates]
      /\ \A d \in Guests : guest'[d] = guest[d] \/ (d = c /\ guest'[d] = "gone")
  BY <1>1 DEF PairInv, PairOrder, GuestStates
<1>4. PairTableOK'
  <2>1. polled' \subseteq accepted' /\ \A d \in polled' : d \in Guests /\ d # c /\ d \in polled
    BY <1>1 DEF PairInv, PairTableOK, PairOrder
  <2>2. \A d \in polled' : guest'[d] \notin {"out", "gone"}
    BY <1>3, <2>1 DEF PairInv, PairTableOK
  <2>3. \A d \in accepted' : latest' # NoGuest /\ d <= latest'
    BY <1>1 DEF PairInv, PairTableOK
  <2>4. pairServer' \in {"running", "ended", "killed"} /\ (pairServer' = "ended" => pair' = "once")
    BY <1>1
  <2> QED BY <2>1, <2>2, <2>3, <2>4 DEF PairTableOK
<1>5. PairOrder'
  <2>1. \A d \in Guests : guest'[d] = "out" <=> guest[d] = "out"
    BY <1>1, <1>3
  <2> QED BY <1>1, <1>2, <1>3, <2>1 DEF PairInv, PairOrder
<1> QED BY <1>4, <1>5 DEF PairInv

LEMMA SendConsoleInv == ASSUME PairInv, SendConsole PROVE PairInv'
<1>1. UNCHANGED <<pair, accepted, polled, latest>> /\ pairServer = "running"
  BY DEF SendConsole, connVars, Visit
<1>2. CASE latest = NoGuest \/ ~Departed(latest)
  BY <1>1, <1>2, ServerStepInv DEF SendConsole
<1>3. CASE ~(latest = NoGuest \/ ~Departed(latest))
  <2>1. latest \in Guests /\ guest[latest] \in {"closed", "reset", "broken"}
    BY <1>3 DEF Departed, PairInv, PairOrder
  <2>2. guest' = [guest EXCEPT ![latest] = "broken"] /\ pairServer' \in {"running", "killed"}
    BY <1>3 DEF SendConsole
  <2>3. "broken" \in GuestStates \ {"out", "gone"}
    BY DEF GuestStates
  <2> QED BY <1>1, <2>1, <2>2, <2>3, GuestStepInv
<1> QED BY <1>2, <1>3

LEMMA DepartInv == ASSUME PairInv, NEW c \in Guests, Depart(c) PROVE PairInv'
<1>1. PICK end \in {"closed", "reset"} : guest' = [guest EXCEPT ![c] = end]
  BY DEF Depart
<1>2. /\ guest[c] = "open" /\ UNCHANGED <<pair, accepted, polled, latest, pairServer>>
      /\ end \in GuestStates \ {"out", "gone"}
  BY <1>1 DEF Depart, connVars, GuestStates
<1> QED BY <1>1, <1>2, GuestStepInv

LEMMA PairStepInv == ASSUME PairInv, [PairNext]_pairVars PROVE PairInv'
<1> USE DEF connVars
<1>1. CASE UNCHANGED pairVars
  BY <1>1, ServerStepInv DEF pairVars
<1>2. CASE PairSelect
  BY <1>2, ServerStepInv DEF PairSelect
<1>3. CASE AcceptGuest
  BY <1>3, AcceptGuestInv
<1>4. CASE SendConsole
  BY <1>4, SendConsoleInv
<1>5. ASSUME NEW c \in Guests, PassOver(c) \/ RecvGuest(c) PROVE PairInv'
  BY <1>5, ServerStepInv DEF PassOver, RecvGuest
<1>6. ASSUME NEW c \in Guests, RecvReset(c) PROVE PairInv'
  <2>1. /\ guest[c] = "reset" /\ guest' = [guest EXCEPT ![c] = "broken"]
        /\ UNCHANGED <<pair, accepted, polled, latest>>
        /\ pairServer' \in {"running", "killed"} /\ "broken" \in GuestStates \ {"out", "gone"}
    BY <1>6 DEF RecvReset, Visit, GuestStates
  <2> QED BY <2>1, GuestStepInv
<1>7. ASSUME NEW c \in Guests, RecvClose(c) PROVE PairInv'
  BY <1>7, RecvCloseInv
<1>8. ASSUME NEW c \in Guests, Arrive(c) PROVE PairInv'
  BY <1>8, ArriveInv
<1>9. ASSUME NEW c \in Guests, SayLine(c) PROVE PairInv'
  BY <1>9, ServerStepInv DEF SayLine
<1>10. ASSUME NEW c \in Guests, Depart(c) PROVE PairInv'
  BY <1>10, DepartInv
<1> QED BY <1>1, <1>2, <1>3, <1>4, <1>5, <1>6, <1>7, <1>8, <1>9, <1>10 DEF PairNext, PairServer

\* What is watched is open, and new_fd is the connection that was accepted last, for any
\* number of clients: nobody who was accepted before the current client is taken for it.
THEOREM PairTableTheorem == PairSpec => []PairTableOK
<1>1. PairInit => PairInv
  BY PairInitInv
<1>2. PairInv /\ [PairNext]_pairVars => PairInv'
  BY PairStepInv
<1>3. PairInv => PairTableOK
  BY DEF PairInv
<1> QED BY <1>1, <1>2, <1>3, PTL DEF PairSpec

==============================================================================
