--------------------------- MODULE NetDiskTransfer --------------------------
(***************************************************************************)
(* The resume protocol of gets and puts, between send_file and recv_file   *)
(* of the client programs and of the server's IO workers, for the users    *)
(* that have one file in common: its content is stored once, under its     *)
(* MD5.  Both sides tell each other how much they have, and the transfer   *)
(* goes on from there.                                                     *)
(*                                                                         *)
(* A byte of the content is its position in it, Junk is any other byte.    *)
(* One step is one send, recv, sendfile or write; a message of             *)
(* TCP_PROTOCOL_SIZE is received whole or not at all.  Clients leave, the  *)
(* connection then delivers a part of what was sent; the server process    *)
(* dies of SIGPIPE when it sends to one that left.  USER_FILES and FILE     *)
(* survive.  main is always ready here: NetDiskServer has its delays.      *)
(***************************************************************************)
EXTENDS Naturals, Sequences, FiniteSets

CONSTANTS
    Clients,      \* client programs, each of a user of its own
    Size,         \* bytes of the content
    Chunk,        \* the most one recv takes of the content (1000)
    MaxCommands,  \* MaxCommands[c] bounds the commands of client c
    MaxBreaks     \* bounds the times a client leaves

Junk == 0

ASSUME TransferConstants ==
    /\ Size \in Nat \ {0} /\ Chunk \in Nat \ {0}
    /\ MaxCommands \in [Clients -> Nat] /\ MaxBreaks \in Nat

VARIABLES
    cst,      \* client: what the program is doing
    local,    \* client: the file that gets writes, <<>> if there is none
    cwant,    \* client: the size recv_file waits for, or where sendfile begins
    up, down, \* the two directions of each connection
    task,     \* server: the local variables of the task of each connection
    disk,     \* the file in USER_FILES, by position
    exists,   \* does the file exist?
    rows,     \* the rows of FILE: owner, recorded size, and recv_file's result
    mixed,    \* history: an upload was open together with another transfer
    sent, breaks

clientVars == <<cst, local, cwant, sent>>
storeVars  == <<disk, exists, rows>>
vars == <<clientVars, up, down, task, storeVars, mixed, breaks>>

Msg(type, n) == [type |-> type, n |-> n]
Messages == [type : {"gets", "puts", "size", "byte", "tail", "header", "refused"}, n : Nat]

ClientStates == {"gone", "prompt", "gets", "puts", "download", "upload"}

\* stat is f_stat.st_size, want the size the client announced, total is
\* total_download, and appends says whether the file was opened with O_APPEND.
Task == [stage : {"idle", "getsSize", "send", "putsSize", "recv", "record"},
         stat : Nat, want : Nat, total : Nat, appends : BOOLEAN]
NoTask == [stage |-> "idle", stat |-> 0, want |-> 0, total |-> 0, appends |-> FALSE]

Least(m, n) == IF m <= n THEN m ELSE n
Bytes(s)    == [i \in 1 .. Len(s) |-> Msg("byte", s[i])]
Values(s)   == [i \in 1 .. Len(s) |-> IF s[i].type = "byte" THEN s[i].n ELSE Junk]

Init ==
    /\ cst = [c \in Clients |-> "prompt"]
    /\ local = [c \in Clients |-> <<>>]
    /\ cwant = [c \in Clients |-> 0]
    /\ up = [c \in Clients |-> <<>>] /\ down = [c \in Clients |-> <<>>]
    /\ task = [c \in Clients |-> NoTask]
    /\ disk = <<>> /\ exists = FALSE /\ rows = {}
    /\ mixed = FALSE
    /\ sent = [c \in Clients |-> 0] /\ breaks = 0

----------------------------------------------------------------------------
(* The client program *)

Send(c, s) == up' = [up EXCEPT ![c] = @ \o s]

\* do_user_task: gets or puts.
Command(c) ==
    /\ cst[c] = "prompt" /\ sent[c] < MaxCommands[c]
    /\ sent' = [sent EXCEPT ![c] = @ + 1]
    /\ \E op \in {"gets", "puts"} : /\ cst' = [cst EXCEPT ![c] = op]
                                    /\ Send(c, <<Msg(op, 0)>>)
    /\ UNCHANGED <<local, cwant, down, task, storeVars, mixed, breaks>>

\* A message of the server can be received; it is.
Answered(c, type) == down[c] # <<>> /\ Head(down[c]).type = type

Receive(c, type) ==
    /\ Answered(c, type)
    /\ down' = [down EXCEPT ![c] = Tail(@)]

Refused(c) ==
    /\ cst[c] \in {"gets", "puts"}
    /\ Receive(c, "refused")
    /\ cst' = [cst EXCEPT ![c] = "prompt"]
    /\ UNCHANGED <<local, cwant, sent, up, task, storeVars, mixed, breaks>>

\* The program goes on with n bytes of content, or comes back to its prompt.
Continue(c, more, s, n) ==
    /\ cst' = [cst EXCEPT ![c] = IF more THEN s ELSE "prompt"]
    /\ cwant' = [cwant EXCEPT ![c] = IF more THEN n ELSE 0]

\* recv_file: the size of the local file is sent; the rest is wanted.
AskRest(c) ==
    /\ cst[c] = "gets"
    /\ Receive(c, "header")
    /\ Send(c, <<Msg("size", Len(local[c]))>>)
    /\ LET n == Head(down[c]).n IN Continue(c, Len(local[c]) < n, "download", n)
    /\ UNCHANGED <<local, sent, task, storeVars, mixed, breaks>>

\* recv_file: the loop.  recv returns what has arrived, up to Chunk bytes.
DownloadTo(c, s, k) ==
    /\ local' = [local EXCEPT ![c] = s]
    /\ down' = [down EXCEPT ![c] = SubSeq(@, k + 1, Len(@))]
    /\ Continue(c, Len(s) < cwant[c], "download", cwant[c])
    /\ UNCHANGED <<sent, up, task, storeVars, mixed, breaks>>

\* Mutant: the rest is written from the beginning of the file.
DownloadOver(c) ==
    /\ cst[c] = "download"
    /\ \E k \in 1 .. Least(Chunk, Len(down[c])) :
         DownloadTo(c, Values(SubSeq(down[c], 1, k)) \o local[c], k)

Download(c) ==
    /\ cst[c] = "download"
    /\ \E k \in 1 .. Least(Chunk, Len(down[c])) :
         DownloadTo(c, local[c] \o Values(SubSeq(down[c], 1, k)), k)

\* send_file: the size of the content is sent, in any case.
OfferRest(c) ==
    /\ cst[c] = "puts"
    /\ Receive(c, "header")
    /\ Send(c, <<Msg("size", Size)>>)
    /\ LET n == Head(down[c]).n IN Continue(c, n < Size, "upload", n)
    /\ UNCHANGED <<local, sent, task, storeVars, mixed, breaks>>

\* send_file: sendfile of what follows position n.
UploadFrom(c, n) ==
    /\ cst[c] = "upload"
    /\ Send(c, Bytes([i \in 1 .. Size - n |-> n + i]))
    /\ Continue(c, FALSE, "upload", 0)
    /\ UNCHANGED <<local, sent, down, task, storeVars, mixed, breaks>>

\* Mutants: sendfile begins at the start of the file, or a byte too late.
UploadAll(c)  == UploadFrom(c, 0)
UploadLess(c) == UploadFrom(c, cwant[c] + 1)

\* It begins at the offset the server named.
Upload(c) == UploadFrom(c, cwant[c])

\* The user stops the program: a part of what it sent may still arrive.
Leave(c) ==
    /\ cst[c] # "gone" /\ breaks < MaxBreaks
    /\ cst' = [cst EXCEPT ![c] = "gone"] /\ cwant' = [cwant EXCEPT ![c] = 0]
    /\ breaks' = breaks + 1
    /\ \E k \in 0 .. Len(up[c]) : up' = [up EXCEPT ![c] = SubSeq(@, 1, k)]
    /\ down' = [down EXCEPT ![c] = <<>>]
    /\ UNCHANGED <<local, sent, task, storeVars, mixed>>

Idle(c) == task[c].stage = "idle"

\* The program is started again once the server has closed its connection.
Return(c) ==
    /\ cst[c] = "gone" /\ Idle(c)
    /\ cst' = [cst EXCEPT ![c] = "prompt"]
    /\ up' = [up EXCEPT ![c] = <<>>] /\ down' = [down EXCEPT ![c] = <<>>]
    /\ UNCHANGED <<local, cwant, sent, task, storeVars, mixed, breaks>>

ClientStep(c) ==
    Refused(c) \/ AskRest(c) \/ Download(c) \/ OfferRest(c) \/ Upload(c)

----------------------------------------------------------------------------
(* The IO workers of the server *)

Owned(c) == \E r \in rows : r.owner = c

Reply(c, s) == down' = IF cst[c] = "gone" THEN down
                       ELSE [down EXCEPT ![c] = @ \o s]

Arrived(c, type) == up[c] # <<>> /\ Head(up[c]).type = type
AtEof(c)         == up[c] = <<>> /\ cst[c] = "gone"

Take(c)    == up' = [up EXCEPT ![c] = Tail(@)]

Writing(c) == task[c].stage \in {"putsSize", "recv"}
Open(c)    == Writing(c) \/ task[c].stage \in {"getsSize", "send"}

Begin(c, t) == task' = [task EXCEPT ![c] = t]
End(c)      == task' = [task EXCEPT ![c] = NoTask]

\* do_task_gets: a user without a row is refused; send_file sends the size of
\* the stored file.
StartGets(c) ==
    /\ Idle(c) /\ Arrived(c, "gets")
    /\ Take(c)
    /\ IF Owned(c)
         THEN /\ Begin(c, [NoTask EXCEPT !.stage = "getsSize", !.stat = Len(disk)])
              /\ Reply(c, <<Msg("header", Len(disk))>>)
              /\ mixed' = (mixed \/ \E d \in Clients : Writing(d))
         ELSE /\ Reply(c, <<Msg("refused", 0)>>)
              /\ UNCHANGED <<task, mixed>>
    /\ UNCHANGED <<clientVars, storeVars, breaks>>

\* Mutant: the file is opened with O_TRUNC.
OpenTruncated(c) == disk' = <<>> /\ exists' = TRUE

\* recv_file: open with O_CREAT and O_EXCL, or with O_APPEND.
OpenStored(c) == disk' = disk /\ exists' = TRUE

\* do_task_puts: a user with a row is refused; recv_file opens the file and
\* sends the size it has.
StartPuts(c) ==
    /\ Idle(c) /\ Arrived(c, "puts")
    /\ Take(c)
    /\ IF Owned(c)
         THEN /\ Reply(c, <<Msg("refused", 0)>>)
              /\ UNCHANGED <<task, disk, exists, mixed>>
         ELSE /\ OpenStored(c)
              /\ Begin(c, [NoTask EXCEPT !.stage = "putsSize", !.stat = Len(disk),
                                         !.total = Len(disk), !.appends = exists])
              /\ Reply(c, <<Msg("header", Len(disk))>>)
              /\ mixed' = (mixed \/ \E d \in Clients : Open(d))
    /\ UNCHANGED <<clientVars, rows, breaks>>

\* send_file: the client has n bytes.
GetsSize(c) ==
    /\ task[c].stage = "getsSize" /\ Arrived(c, "size")
    /\ Take(c)
    /\ LET n == Head(up[c]).n IN
       IF task[c].stat <= n THEN End(c)
       ELSE Begin(c, [task[c] EXCEPT !.stage = "send", !.want = n])
    /\ UNCHANGED <<clientVars, down, storeVars, mixed, breaks>>

\* sendfile of n bytes from the client's offset; the file may end earlier.
SendBytes(c, n) ==
    /\ task[c].stage = "send"
    /\ LET last == Least(task[c].want + n, Len(disk)) IN
       Reply(c, Bytes(SubSeq(disk, task[c].want + 1, last)))
    /\ End(c)
    /\ UNCHANGED <<clientVars, up, storeVars, mixed, breaks>>

\* Mutant: the size is taken for a last position that counts from zero.
SendBodyLess(c) == SendBytes(c, task[c].stat - task[c].want - 1)

\* send_file: the count is f_stat.st_size, wherever it begins.
SendBody(c) == SendBytes(c, task[c].stat)

\* SIGPIPE ends the process.  Every connection is closed, and with it the
\* programs of the clients; the server is started again.
Killed(c) ==
    /\ task[c].stage = "send" /\ cst[c] = "gone"
    /\ cst' = [d \in Clients |-> "gone"] /\ cwant' = [d \in Clients |-> 0]
    /\ up' = [d \in Clients |-> <<>>] /\ down' = [d \in Clients |-> <<>>]
    /\ task' = [d \in Clients |-> NoTask]
    /\ UNCHANGED <<local, sent, storeVars, mixed, breaks>>

\* recv_file: the client has n bytes.
PutsSize(c) ==
    /\ task[c].stage = "putsSize" /\ Arrived(c, "size")
    /\ Take(c)
    /\ LET n == Head(up[c]).n IN
       Begin(c, [task[c] EXCEPT !.stage = IF task[c].stat >= n THEN "record" ELSE "recv",
                                !.want = n])
    /\ UNCHANGED <<clientVars, down, storeVars, mixed, breaks>>

\* What one recv of at most Chunk returns: some of the content, and after its
\* last byte the beginning of a command, whose rest is left as a tail.
Received(c, k) ==
    /\ \A i \in 1 .. k - 1 : up[c][i].type = "byte"
    /\ up' = [up EXCEPT ![c] =
                (IF @[k].type = "byte" THEN <<>> ELSE <<Msg("tail", 0)>>)
                \o SubSeq(@, k + 1, Len(@))]

\* write: at the end of the file, or at the descriptor's own offset, which is
\* what this task has written, as it created the file.
Written(t, s) ==
    LET n == IF t.appends THEN Len(disk) ELSE t.total
        m == Len(disk) - n
    IN  SubSeq(disk, 1, n) \o s \o (IF Len(s) < m THEN SubSeq(disk, n + Len(s) + 1, Len(disk))
                                                 ELSE <<>>)

\* recv and write of k.
Recv(c, k) ==
    /\ task[c].stage = "recv"
    /\ Received(c, k)
    /\ disk' = Written(task[c], Values(SubSeq(up[c], 1, k)))
    /\ Begin(c, [task[c] EXCEPT
            !.total = @ + k,
            !.stage = IF task[c].total + k >= task[c].want THEN "record" ELSE "recv"])
    /\ UNCHANGED <<clientVars, down, exists, rows, mixed, breaks>>

\* recv_file: the loop.
RecvBody(c) == \E k \in 1 .. Least(Chunk, Len(up[c])) : Recv(c, k)

\* INSERT INTO FILE: recv_file left its size in the message, ok is its result.
Insert(c, size, ok) ==
    /\ rows' = rows \cup {[owner |-> c, size |-> size, ok |-> ok]}
    /\ End(c)
    /\ UNCHANGED <<clientVars, up, down, disk, exists, mixed, breaks>>

\* Mutant: the first bytes are enough.
RecordEarly(c) == task[c].stage \in {"record", "recv"} /\ Insert(c, task[c].want, TRUE)

\* recv_file is done; it fails when there was nothing to receive.
Record(c) ==
    /\ task[c].stage = "record"
    /\ Insert(c, task[c].want, task[c].stat < task[c].want)

\* recv_n or recv returns 0: recv_file fails, and the row is added all the same.
RecordBroken(c) ==
    /\ Writing(c) /\ AtEof(c)
    /\ Insert(c, IF task[c].stage = "recv" THEN task[c].want ELSE task[c].stat, FALSE)

\* recv_n returns 0 in send_file.
GetsBroken(c) ==
    /\ task[c].stage = "getsSize" /\ AtEof(c)
    /\ End(c)
    /\ UNCHANGED <<clientVars, up, down, storeVars, mixed, breaks>>

DoTaskGets(c) == StartGets(c) \/ GetsSize(c) \/ SendBody(c) \/ Killed(c) \/ GetsBroken(c)
DoTaskPuts(c) == StartPuts(c) \/ PutsSize(c) \/ RecvBody(c) \/ Record(c) \/ RecordBroken(c)

WorkerStep(c) == DoTaskGets(c) \/ DoTaskPuts(c)

----------------------------------------------------------------------------
Next == \E c \in Clients :
          Command(c) \/ ClientStep(c) \/ Leave(c) \/ Return(c) \/ WorkerStep(c)

Spec == Init /\ [][Next]_vars

\* Threads and client programs keep running; users need not type or return.
FairSpec == Spec /\ \A c \in Clients : WF_vars(WorkerStep(c)) /\ WF_vars(ClientStep(c))

----------------------------------------------------------------------------
(* Properties *)

\* Type invariant; the descriptor of an upload never lies beyond the file.
TypeOK ==
    /\ cst \in [Clients -> ClientStates] /\ task \in [Clients -> Task]
    /\ local \in [Clients -> Seq(Nat)] /\ disk \in Seq(Nat)
    /\ cwant \in [Clients -> Nat] /\ sent \in [Clients -> Nat]
    /\ up \in [Clients -> Seq(Messages)] /\ down \in [Clients -> Seq(Messages)]
    /\ exists \in BOOLEAN /\ mixed \in BOOLEAN /\ breaks \in Nat
    /\ rows \subseteq [owner : Clients, size : Nat, ok : BOOLEAN]
    /\ \A c \in Clients : task[c].stage = "recv" => task[c].total <= Len(disk)

IsContent(s) == \A i \in 1 .. Least(Len(s), Size) : s[i] = i

\* However often transfers break off and are resumed, by the same or by another user,
\* what is stored under the MD5 begins with the content, and so does the client's file,
\* to which each download adds from a stored file of another length; as long as no
\* upload was open beside another transfer.  And the state has its type.
CopiesArePrefixes ==
    TypeOK /\ (mixed \/ (IsContent(disk) /\ \A c \in Clients : IsContent(local[c])))

\* When recv_file calls an upload a success, at least as many bytes are stored as the
\* content has, also when two uploads append to the one file.
UploadComplete == \A r \in rows : r.ok => Len(disk) >= Size

\* Both sides agree on how many bytes of content follow the sizes: no byte is
\* left over where a command or an answer is expected.
InStep ==
    mixed \/ \A c \in Clients :
                 /\ Idle(c) => ~Arrived(c, "byte")
                 /\ cst[c] \in {"prompt", "gets", "puts"} => ~Answered(c, "byte")

\* No step takes away what is stored, nor changes it if uploads do not overlap: a
\* resumed upload keeps what the broken ones stored, and the server may die in between.
StoredStays ==
    [][/\ Len(disk') >= Len(disk)
       /\ mixed' \/ SubSeq(disk', 1, Len(disk)) = disk]_vars

\* A task ends, although each side waits for the other in turn, and though the file
\* may grow by another upload while it is sent.
TransferEnds == \A c \in Clients : ~Idle(c) ~> Idle(c)

\* The end of an upload swallowed the beginning of the next command.
Swallowed(c) == Arrived(c, "tail")

\* Every command of a client comes to its end, unless its beginning was taken
\* for content.
CommandEnds ==
    \A c \in Clients : cst[c] \notin {"prompt", "gone"} ~>
        (cst[c] \in {"prompt", "gone"} \/ Swallowed(c))

\* A row of FILE stands for a file whose content is stored: do_task_puts takes
\* a row to mean that the file exists and that puts is not needed.
RowMeansContent == \A r \in rows : Len(disk) >= r.size
============================================================================
