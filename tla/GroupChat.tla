----------------------------- MODULE GroupChat ------------------------------
(***************************************************************************)
(* The chat room servers of wangdao/20180704.  One thread selects on the   *)
(* console, the listening socket and the connections, then serves what     *)
(* select reported in the order of its table.  chat is                     *)
(*   "list"   group_chat_task: a linked list, newest first; the first      *)
(*            message of a connection is the user's name;                  *)
(*   "array"  server_group_chat.c: an array of a fixed number of entries.  *)
(* Nothing separates two lines in the stream, so one recv may take several. *)
(***************************************************************************)
EXTENDS Naturals, Sequences, FiniteSets
LOCAL INSTANCE Functions

CONSTANTS
    NumChatters,  \* clients, each connects once
    Lines,        \* lines that the clients and the console send, together
    TableSizes,   \* possible numbers of entries of the array
    HeardFds,     \* connections whose descriptors are below the first argument of select
    Nobody        \* a free entry of the array

ASSUME ChatConstants ==
    /\ NumChatters \in Nat /\ TableSizes \subseteq Nat /\ HeardFds \in Nat
    /\ Nobody \notin 1 .. NumChatters

VARIABLES
    chat, chatServer, members, watched, fds,
    ready,     \* the connections that select reported and the loop has yet to visit
    knocked,   \* select reported the listening socket
    typed,     \* select reported the console
    announced, \* lines of the console
    chatter,   \* the state of a client and of its connection
    sentLines, inbox, heard, named,
    spoken,    \* every line that was sent round, with its author
    joined     \* how many had been when the connection was accepted

chatVars == <<chat, chatServer, members, watched, fds, ready, knocked, typed, announced, chatter,
              sentLines, inbox, heard, named, spoken, joined>>
clientVars == <<chatter, sentLines, inbox>>
tableVars == <<chat, members, watched, fds, named, joined>>

Chatters == 1 .. NumChatters
Members == {members[i] : i \in DOMAIN members} \ {Nobody}
NoFd == 0
LinesSent == announced + FoldFunction(+, 0, sentLines)

ChatInit ==
    /\ chat \in {"list", "array"}
    /\ chatServer = "running"
    /\ members \in IF chat = "list" THEN {<<>>} ELSE {[i \in 1 .. n |-> Nobody] : n \in TableSizes}
    /\ watched = {} /\ ready = {} /\ knocked = FALSE /\ typed = FALSE /\ announced = 0
    /\ fds = [c \in Chatters |-> NoFd]
    /\ chatter = [c \in Chatters |-> "out"]
    /\ sentLines = [c \in Chatters |-> 0]
    /\ inbox = [c \in Chatters |-> 0]
    /\ named = [c \in Chatters |-> 0]
    /\ joined = [c \in Chatters |-> 0]
    /\ heard = [c \in Chatters |-> <<>>]
    /\ spoken = <<>>

----------------------------------------------------------------------------
(* The clients.  A connection is "open", "closed" after the client's FIN, "reset" when
   it left answers unread, "broken" once the server's socket has reported that.  They
end with the server. *)

JoinRoom(c) ==
    /\ chatServer = "running"
    /\ chatter[c] = "out" /\ \A d \in 1 .. c - 1 : chatter[d] # "out"
    /\ chatter' = [chatter EXCEPT ![c] = "open"]
    /\ UNCHANGED <<chatServer, tableVars, ready, knocked, typed, announced, sentLines, inbox, heard, spoken>>

Speak(c) ==
    /\ chatServer = "running" /\ chatter[c] = "open" /\ LinesSent < Lines
    /\ sentLines' = [sentLines EXCEPT ![c] = @ + 1]
    /\ inbox' = [inbox EXCEPT ![c] = @ + 1]
    /\ UNCHANGED <<chatServer, tableVars, ready, knocked, typed, announced, chatter, heard, spoken>>

\* The prompt, or a line.
Answered(c) == c \in Members /\ (chat = "list" \/ heard[c] # <<>> \/ announced > 0)

LeaveRoom(c) ==
    /\ chatServer = "running" /\ chatter[c] = "open"
    /\ \E end \in {"closed"} \union {e \in {"reset"} : Answered(c)} : chatter' = [chatter EXCEPT ![c] = end]
    /\ UNCHANGED <<chatServer, tableVars, ready, knocked, typed, announced, sentLines, inbox, heard, spoken>>

----------------------------------------------------------------------------
(* The server *)

Backlog == {c \in Chatters : chatter[c] \notin {"out", "gone"} /\ fds[c] = NoFd}
Ended(c) == chatter[c] \in {"closed", "reset", "broken"}
Readable == {c \in watched : fds[c] <= HeardFds /\ (inbox[c] > 0 \/ Ended(c))}

Select ==
    /\ chatServer = "running" /\ ~knocked /\ ready = {} /\ ~typed
    /\ \E line \in {FALSE, LinesSent < Lines} :
         /\ line \/ Backlog # {} \/ Readable # {}
         /\ typed' = line /\ announced' = announced + (IF line THEN 1 ELSE 0)
    /\ knocked' = (Backlog # {}) /\ ready' = Readable
    /\ UNCHANGED <<chatServer, clientVars, tableVars, heard, spoken>>

\* listHeadInsert, or the first free entry of the array.
Inserted(c) ==
    IF chat = "list" THEN <<c>> \o members
    ELSE LET free == {i \in DOMAIN members : members[i] = Nobody}
         IN  IF free = {} THEN members
             ELSE [members EXCEPT ![CHOOSE i \in free : \A j \in free : i <= j] = c]

FreeFd == CHOOSE n \in 1 .. NumChatters :
            /\ \A c \in Chatters : fds[c] # n
            /\ \A k \in 1 .. n - 1 : \E c \in Chatters : fds[c] = k

\* With a full array new_fd[N] is read: the descriptor that is added to the set is
\* none of the table's, or one that stops the process.
AcceptChatter ==
    /\ chatServer = "running" /\ knocked
    /\ \E c \in Backlog :
         /\ \A d \in Backlog : c <= d
         /\ fds' = [fds EXCEPT ![c] = FreeFd]
         /\ members' = Inserted(c)
         /\ joined' = [joined EXCEPT ![c] = Len(spoken)]
         /\ named' = [named EXCEPT ![c] = 0]
         /\ IF c \in Members' THEN watched' = watched \union {c} /\ UNCHANGED chatServer
                                        ELSE chatServer' \in {"running", "killed"} /\ UNCHANGED watched
    /\ knocked' = FALSE
    /\ UNCHANGED <<chat, ready, typed, announced, clientVars, heard, spoken>>

\* A send to each of a set of members.  A connection that the client has closed takes
\* one and answers with a reset, one that is broken raises SIGPIPE.
SendAll(to, lines) ==
    /\ heard' = [d \in Chatters |-> IF d \in to /\ chatter[d] = "open" THEN heard[d] \o lines ELSE heard[d]]
    /\ chatter' = [d \in Chatters |-> IF d \in to /\ Ended(d) THEN "broken" ELSE chatter[d]]
    /\ spoken' = spoken \o lines
    /\ chatServer' = IF \E d \in to : chatter[d] = "broken" THEN "killed" ELSE chatServer

\* Mutant: the loop over the members ends at the author instead of passing over it.
HearersBefore(c) ==
    {d \in Members \ {c} : \E i, j \in DOMAIN members : i < j /\ members[i] = d /\ members[j] = c}

Hearers(c) == Members \ {c}

\* The first connection in the order of the table that select reported.
Turn(c) ==
    /\ chatServer = "running" /\ ~knocked /\ c \in ready
    /\ \E i \in DOMAIN members : members[i] = c /\ \A j \in 1 .. i - 1 : members[j] \notin ready
    /\ ready' = ready \ {c}

\* recv of n lines: the first are the name, of the list's server; the rest goes round.
RecvLines(c) ==
    /\ Turn(c) /\ inbox[c] > 0
    /\ \E n \in 1 .. inbox[c] :
         /\ inbox' = [inbox EXCEPT ![c] = @ - n]
         /\ IF chat = "list" /\ named[c] = 0
            THEN named' = [named EXCEPT ![c] = n] /\ UNCHANGED <<heard, chatter, spoken, chatServer>>
            ELSE SendAll(Hearers(c), [i \in 1 .. n |-> c]) /\ UNCHANGED named
    /\ UNCHANGED <<chat, members, watched, fds, joined, knocked, typed, announced, sentLines>>

\* recv fails once on a connection that was reset.  That counts as a message: empty, it
\* names nobody, but goes round with the name of a user.
RecvError(c) ==
    /\ Turn(c) /\ inbox[c] = 0 /\ chatter[c] = "reset"
    /\ LET killed == (chat = "array" \/ named[c] > 0) /\ \E d \in Hearers(c) : chatter[d] = "broken"
       IN  chatServer' = IF killed THEN "killed" ELSE chatServer
    /\ chatter' = [d \in Chatters |->
                     IF d = c \/ (chat = "list" /\ named[c] > 0 /\ d \in Hearers(c) /\ Ended(d))
                     THEN "broken" ELSE chatter[d]]
    /\ UNCHANGED <<tableVars, knocked, typed, announced, sentLines, inbox, heard, spoken>>

\* recv returns 0: close, FD_CLR, listDeleteByKey.
Removed(i) ==
    IF chat = "list" THEN SubSeq(members, 1, i - 1) \o SubSeq(members, i + 1, Len(members))
                     ELSE [members EXCEPT ![i] = Nobody]

RecvEnd(c) ==
    /\ Turn(c) /\ inbox[c] = 0 /\ chatter[c] \in {"closed", "broken"}
    /\ \E i \in DOMAIN members : members[i] = c /\ members' = Removed(i)
    /\ watched' = watched \ {c}
    /\ fds' = [fds EXCEPT ![c] = NoFd]
    /\ chatter' = [chatter EXCEPT ![c] = "gone"]
    /\ heard' = [heard EXCEPT ![c] = <<>>] /\ joined' = [joined EXCEPT ![c] = 0]
    /\ UNCHANGED <<chat, chatServer, knocked, typed, announced, named, sentLines, inbox, spoken>>

\* A line of the console goes to every member.
SayToAll ==
    /\ chatServer = "running" /\ ~knocked /\ ready = {} /\ typed
    /\ chatter' = [d \in Chatters |-> IF d \in Members /\ Ended(d) THEN "broken" ELSE chatter[d]]
    /\ chatServer' = IF \E d \in Members : chatter[d] = "broken" THEN "killed" ELSE chatServer
    /\ typed' = FALSE
    /\ UNCHANGED <<tableVars, ready, knocked, announced, sentLines, inbox, heard, spoken>>

ChatServer ==
    \/ Select \/ AcceptChatter \/ SayToAll
    \/ \E c \in Chatters : RecvLines(c) \/ RecvError(c) \/ RecvEnd(c)

ChatNext == ChatServer \/ \E c \in Chatters : JoinRoom(c) \/ Speak(c) \/ LeaveRoom(c)

ChatSpec == ChatInit /\ [][ChatNext]_chatVars

\* The server's thread is scheduled.
ChatFairness == WF_chatVars(ChatServer)

----------------------------------------------------------------------------
(* Properties *)

\* The table, the set of select and the open descriptors agree; only a connection that
\* came to a full array has a descriptor and no entry.
ChatTableOK ==
    /\ chatServer \in {"running", "killed"}
    /\ watched = Members /\ ready \subseteq Members
    /\ \A c \in Members : fds[c] # NoFd
    /\ \A i, j \in DOMAIN members : members[i] = members[j] => i = j \/ members[i] = Nobody
    /\ \A c, d \in Chatters : fds[c] = fds[d] => c = d \/ fds[c] = NoFd
    /\ chat = "list" => \A c \in Chatters : fds[c] # NoFd => c \in Members

\* The lines that c should have heard: what was said since it joined, without its own.
Due(c) == {i \in joined[c] + 1 .. Len(spoken) : spoken[i] # c}
Own(c) == {i \in 1 .. Len(spoken) : spoken[i] = c}

\* Every line goes to every other member, once and in one order for all: a member has
\* heard as many lines as are due, and the n-th of them as its n-th.  No line is lost on
\* the way round: a user's lines are its name, what was said, and what waits.
ChatBroadcasts ==
    /\ \A c \in Members : chatter[c] = "open" =>
         /\ Len(heard[c]) = Cardinality(Due(c))
         /\ \A i \in Due(c) : heard[c][Cardinality({j \in Due(c) : j <= i})] = spoken[i]
    /\ \A c \in Chatters : sentLines[c] = named[c] + Cardinality(Own(c)) + inbox[c]

\* A user whose descriptor select covers is heard, unless the process ends.
ChatHears ==
    \A c \in Chatters :
        (c \in Members /\ fds[c] <= HeardFds /\ inbox[c] > 0)
            ~> (inbox[c] = 0 \/ chatServer = "killed")
=============================================================================
