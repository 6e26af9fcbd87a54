------------------------------ MODULE ChatPair ------------------------------
(***************************************************************************)
(* The servers of wangdao/20180704 and 20180705 that talk to one client at *)
(* a time.  They keep its descriptor in the single variable new_fd, which  *)
(* the next accept overwrites.  pair is                                    *)
(*   "once"    server.c: one accept, the server ends with its client;      *)
(*   "select"  server_con.c: select, and the descriptor is never closed;   *)
(*   "level"   server_epoll.c: epoll, level triggered;                     *)
(*   "edge"    server_epoll_et.c: edge triggered, recv until it fails.     *)
(***************************************************************************)
EXTENDS Naturals

CONSTANTS
    NumGuests,  \* clients, each connects once
    Says,       \* lines that a client may send
    NoGuest     \* new_fd before the first accept

ASSUME PairConstants == NumGuests \in Nat /\ NoGuest \notin 1 .. NumGuests

VARIABLES
    pair, pairServer,
    latest,    \* the client of new_fd
    accepted,  \* the connections with a descriptor
    polled,    \* those among them in tmp_fd, or in the epoll instance
    fresh,     \* those with an event that edge triggered epoll has yet to report
    batch,     \* what select or epoll_wait reported and the loop has yet to visit
    guest,     \* the state of a client and of its connection
    said, unread

pairVars == <<pair, pairServer, latest, accepted, polled, fresh, batch, guest, said, unread>>
connVars == <<pair, accepted, polled>>

Guests == 1 .. NumGuests
Departed(c) == guest[c] \in {"closed", "reset", "broken"}
Pending(c) == unread[c] > 0 \/ Departed(c)

PairInit ==
    /\ pair \in {"once", "select", "level", "edge"}
    /\ pairServer = "running" /\ latest = NoGuest
    /\ accepted = {} /\ polled = {} /\ fresh = {} /\ batch = {}
    /\ guest = [c \in Guests |-> "out"]
    /\ said = [c \in Guests |-> 0] /\ unread = [c \in Guests |-> 0]

----------------------------------------------------------------------------
(* The clients, client.c and client_con.c *)

Arrive(c) ==
    /\ guest[c] = "out" /\ \A d \in 1 .. c - 1 : guest[d] # "out"
    /\ guest' = [guest EXCEPT ![c] = "open"]
    /\ UNCHANGED <<connVars, pairServer, latest, fresh, batch, said, unread>>

SayLine(c) ==
    /\ guest[c] = "open" /\ said[c] < Says
    /\ said' = [said EXCEPT ![c] = @ + 1] /\ unread' = [unread EXCEPT ![c] = @ + 1]
    /\ fresh' = IF pair = "edge" THEN fresh \union {c} ELSE {}
    /\ UNCHANGED <<connVars, pairServer, latest, batch, guest>>

\* "reset" when answers are left unread.
Depart(c) ==
    /\ guest[c] = "open"
    /\ \E end \in {"closed", "reset"} : guest' = [guest EXCEPT ![c] = end]
    /\ fresh' = IF pair = "edge" THEN fresh \union {c} ELSE {}
    /\ UNCHANGED <<connVars, pairServer, latest, batch, said, unread>>

----------------------------------------------------------------------------
(* The servers *)

Knocking == {c \in Guests : guest[c] # "out" /\ c \notin accepted /\ guest[c] # "gone"}

\* Guest 0 stands for the listening socket, NumGuests + 1 for the console.
Listening == 0
Console == NumGuests + 1

\* Level triggered, a connection is reported as long as there is something to read.
Reported ==
    {c \in polled : Pending(c) /\ (pair = "edge" => c \in fresh)}
      \union {e \in {Listening} : Knocking # {} /\ (pair = "once" => accepted = {})}

PairSelect ==
    /\ pairServer = "running" /\ batch = {}
    /\ \E line \in SUBSET {Console} :
         /\ batch' = Reported \union (IF pair = "once" /\ latest = NoGuest THEN {} ELSE line)
         /\ batch' # {}
    /\ fresh' = fresh \ Reported
    /\ UNCHANGED <<connVars, pairServer, latest, guest, said, unread>>

\* select's loop tests the listening socket, then new_fd, then the console; epoll's
\* takes the events in the order that they have.
Visit(e) ==
    /\ pairServer = "running" /\ e \in batch
    /\ pair \in {"once", "select"} => e = Listening \/ (Listening \notin batch /\ (e # Console \/ latest \notin batch))
    /\ batch' = batch \ {e}

AcceptGuest ==
    /\ Visit(Listening)
    /\ \E c \in Knocking :
         /\ \A d \in Knocking : c <= d
         /\ latest' = c /\ accepted' = accepted \union {c} /\ polled' = polled \union {c}
    /\ UNCHANGED <<pair, pairServer, fresh, guest, said, unread>>

\* A report of a connection that new_fd no longer names is passed over.
PassOver(c) ==
    /\ Visit(c) /\ c # latest
    /\ UNCHANGED <<connVars, pairServer, latest, fresh, guest, said, unread>>

\* recv of what there is, at least a line.  Edge triggered, all of it is read.
RecvGuest(c) ==
    /\ Visit(c) /\ c = latest /\ unread[c] > 0 /\ (pair = "edge" => ~Departed(c))
    /\ \E n \in 1 .. unread[c] :
         /\ pair = "edge" => n = unread[c]
         /\ unread' = [unread EXCEPT ![c] = @ - n]
    /\ UNCHANGED <<connVars, pairServer, latest, fresh, guest, said>>

\* A failing recv counts as an empty line.  Edge triggered it ends the loop, and no
\* further event will have the connection closed.
RecvReset(c) ==
    /\ Visit(c) /\ c = latest /\ guest[c] = "reset" /\ (pair # "edge" => unread[c] = 0)
    /\ guest' = [guest EXCEPT ![c] = "broken"] /\ unread' = [unread EXCEPT ![c] = 0]
    /\ UNCHANGED <<connVars, pairServer, latest, fresh, said>>

\* recv returns 0.  new_fd keeps its value; only epoll's servers close the descriptor,
\* and server.c does as it ends.
RecvClose(c) ==
    /\ Visit(c) /\ c = latest /\ guest[c] \in {"closed", "broken"} /\ (pair # "edge" => unread[c] = 0)
    /\ unread' = [unread EXCEPT ![c] = 0]
    /\ polled' = polled \ {c}
    /\ guest' = IF pair = "select" THEN guest ELSE [guest EXCEPT ![c] = "gone"]
    /\ pairServer' = IF pair = "once" THEN "ended" ELSE "running"
    /\ UNCHANGED <<pair, accepted, latest, fresh, said>>

\* A line of the console goes to new_fd: the first to a connection that the client has
\* closed brings a reset, one to a broken connection raises SIGPIPE.
SendConsole ==
    /\ Visit(Console)
    /\ IF latest = NoGuest \/ ~Departed(latest) THEN UNCHANGED <<guest, pairServer>>
       ELSE /\ guest' = [guest EXCEPT ![latest] = "broken"]
            /\ pairServer' = IF guest[latest] = "broken" THEN "killed" ELSE "running"
    /\ UNCHANGED <<connVars, latest, fresh, said, unread>>

PairServer ==
    \/ PairSelect \/ AcceptGuest \/ SendConsole
    \/ \E c \in Guests : PassOver(c) \/ RecvGuest(c) \/ RecvReset(c) \/ RecvClose(c)

PairNext == PairServer \/ \E c \in Guests : Arrive(c) \/ SayLine(c) \/ Depart(c)

PairSpec == PairInit /\ [][PairNext]_pairVars

\* The server's thread is scheduled.
PairFairness == WF_pairVars(PairServer)

----------------------------------------------------------------------------
(* Properties *)

\* The descriptors that are watched are open, and new_fd is the last that was accepted:
\* clients come, and are accepted, in the order of their numbers.
PairTableOK ==
    /\ pairServer \in {"running", "ended", "killed"}
    /\ polled \subseteq accepted
    /\ \A c \in polled : guest[c] \notin {"out", "gone"}
    /\ \A c \in accepted : latest # NoGuest /\ c <= latest
    /\ pairServer = "ended" => pair = "once"

\* "Can reconnect after a disconnection": the client that connected last is heard until
\* the next one connects, even if one before it is still there.
PairHears ==
    \A c \in Guests :
        (latest = c /\ unread[c] > 0)
            ~> (unread[c] = 0 \/ latest # c \/ pairServer # "running")
=============================================================================
