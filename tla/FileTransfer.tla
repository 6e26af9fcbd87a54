---------------------------- MODULE FileTransfer -----------------------------
(***************************************************************************)
(* One download of the thread pool and process pool servers, on the byte   *)
(* stream of its connection.  tran_file sends the name, the size and the   *)
(* content of a file; the client writes what it receives.  protocol is     *)
(*   "framed"    the content comes in messages with a length, an empty one *)
(*               ends it, and the client's recv_n tells the end of the     *)
(*               stream (thread_poll_task/client, 20180707);               *)
(*   "spinning"  the same, but recv_n does not (20180706);                 *)
(*   "sendfile"  the content comes as it is, and the client counts it      *)
(*               (SERVER_SENDFILE_QUIT_WAIT, client_sendfiile).            *)
(* The server's process may end at any time, in the middle of a message:   *)
(* another thread raised SIGPIPE.  Name and size are short and reach the   *)
(* stream in one piece.                                                    *)
(***************************************************************************)
EXTENDS Naturals, Sequences

CONSTANTS
    FileSize,   \* bytes of the file
    FrameSize,  \* bytes in a message, and in a recv of the client
    OldSizes    \* possible sizes of a local file of that name

\* A recv has room for a byte.
ASSUME TransferConstants == FileSize \in Nat /\ FrameSize \in Nat \ {0} /\ OldSizes \subseteq Nat

VARIABLES
    protocol, sender, sentBytes, stream, receiver,
    fileSize,   \* f_size of the client
    localFile,  \* its local file
    filePos     \* bytes it has written

transferVars == <<protocol, sender, sentBytes, stream, receiver, fileSize, localFile, filePos>>

Old == 0  \* a byte that was in the local file before
Shorter(m, n) == IF m <= n THEN m ELSE n

Token(type, n) == [type |-> type, n |-> n]
\* n bytes of the content from position p on.
Bytes(p, n) == [i \in 1 .. n |-> Token("byte", p + i)]

TransferInit ==
    /\ protocol \in {"framed", "spinning", "sendfile"}
    /\ sender = "name" /\ sentBytes = 0 /\ stream = <<>>
    /\ receiver = "name" /\ fileSize = 0 /\ filePos = 0
    /\ \E old \in OldSizes : localFile = [i \in 1 .. old |-> Old]

----------------------------------------------------------------------------
(* tran_file *)

\* The next message of a framed content; after the last byte it is empty.
NextFrame ==
    LET n == Shorter(FrameSize, FileSize - sentBytes) IN
    <<Token("len", n)>> \o Bytes(sentBytes, n)

SendName ==
    /\ sender = "name"
    /\ stream' = Append(stream, Token("name", 0))
    /\ sender' = "size"
    /\ UNCHANGED <<protocol, sentBytes, receiver, fileSize, localFile, filePos>>

SendSize ==
    /\ sender = "size"
    /\ stream' = Append(stream, Token("size", FileSize))
    /\ sender' = "content"
    /\ UNCHANGED <<protocol, sentBytes, receiver, fileSize, localFile, filePos>>

\* send_n of a message, and after the empty one the close.
SendFrame ==
    /\ sender = "content" /\ protocol # "sendfile"
    /\ stream' = stream \o NextFrame
    /\ sentBytes' = sentBytes + Len(NextFrame) - 1
    /\ sender' = IF Len(NextFrame) = 1 THEN "closed" ELSE "content"
    /\ UNCHANGED <<protocol, receiver, fileSize, localFile, filePos>>

\* One sendfile for the whole content.  A SIGINT that this thread handles cuts it
\* short, and the rest is never sent.
SendFile ==
    /\ sender = "content" /\ protocol = "sendfile"
    /\ \E n \in 0 .. FileSize :
         /\ stream' = stream \o Bytes(0, n)
         /\ sentBytes' = n
    /\ sender' = "closed"
    /\ UNCHANGED <<protocol, receiver, fileSize, localFile, filePos>>

\* The process ends with part of a message in the stream.
ServerKilled ==
    /\ sender \in {"name", "size", "content"}
    /\ \E n \in 0 .. IF sender = "content" /\ protocol # "sendfile" THEN Len(NextFrame) - 1
                                                                    ELSE 0 :
         stream' = stream \o SubSeq(NextFrame, 1, n)
    /\ sender' = "killed"
    /\ UNCHANGED <<protocol, sentBytes, receiver, fileSize, localFile, filePos>>

ServerStep == SendName \/ SendSize \/ SendFrame \/ SendFile

----------------------------------------------------------------------------
(* The client *)

AtEnd == stream = <<>> /\ sender \in {"closed", "killed"}

\* write of n bytes of the stream after a prefix of length skip.
Write(skip, n) ==
    LET last == Shorter(Len(localFile), filePos) + n
        size == IF Len(localFile) > filePos + n THEN Len(localFile) ELSE filePos + n
    IN  /\ localFile' = [i \in 1 .. size |->
                           IF i > filePos /\ i <= last THEN stream[skip + i - filePos].n
                                                       ELSE localFile[i]]
        /\ filePos' = filePos + n
        /\ stream' = SubSeq(stream, skip + n + 1, Len(stream))

\* The name, and the file is opened without O_TRUNC.  At the end of the stream the
\* name is empty, open fails and the client exits.
RecvName ==
    /\ receiver = "name"
    /\ \/ stream # <<>> /\ receiver' = "size" /\ stream' = Tail(stream)
       \/ /\ AtEnd
          /\ receiver' = IF protocol = "spinning" THEN "spinning" ELSE "failed"
          /\ UNCHANGED stream
    /\ UNCHANGED <<protocol, sender, sentBytes, fileSize, localFile, filePos>>

\* The result of recv_n is not looked at: without a size f_size stays 0.
RecvSize ==
    /\ receiver = "size"
    /\ \/ /\ stream # <<>>
          /\ receiver' = "content" /\ fileSize' = Head(stream).n /\ stream' = Tail(stream)
       \/ /\ AtEnd
          /\ receiver' = IF protocol = "spinning" THEN "spinning" ELSE "content"
          /\ UNCHANGED <<fileSize, stream>>
    /\ UNCHANGED <<protocol, sender, sentBytes, localFile, filePos>>

\* The next message has come in full; an empty one ends the loop.
RecvFrame ==
    /\ receiver = "content" /\ protocol # "sendfile" /\ stream # <<>>
    /\ LET n == Head(stream).n IN
       /\ Len(stream) > n
       /\ Write(1, n)
       /\ receiver' = IF n = 0 THEN "ended" ELSE "content"
    /\ UNCHANGED <<protocol, sender, sentBytes, fileSize>>

\* recv_n finds the end of the stream before a message is complete.
RecvFrameEnd ==
    /\ receiver = "content" /\ protocol # "sendfile" /\ sender \in {"closed", "killed"}
    /\ stream # <<>> => Len(stream) <= Head(stream).n
    /\ stream' = <<>>
    /\ receiver' = IF protocol = "spinning" THEN "spinning" ELSE "ended"
    /\ UNCHANGED <<protocol, sender, sentBytes, fileSize, localFile, filePos>>

\* Mutant: what was asked for is counted, not what came.
RecvFileAsked ==
    /\ receiver = "content" /\ protocol = "sendfile"
    /\ \/ /\ filePos < fileSize /\ stream # <<>>
          /\ \E n \in 1 .. Shorter(FrameSize, Len(stream)) :
               /\ Write(0, n)
               /\ receiver' = IF filePos + FrameSize >= fileSize THEN "success" ELSE "content"
       \/ filePos < fileSize /\ AtEnd /\ receiver' = "error" /\ UNCHANGED <<stream, localFile, filePos>>
       \/ filePos >= fileSize /\ receiver' = "success" /\ UNCHANGED <<stream, localFile, filePos>>
    /\ UNCHANGED <<protocol, sender, sentBytes, fileSize>>

\* recv_file: a recv takes what there is, up to the size of the buffer.
RecvFile ==
    /\ receiver = "content" /\ protocol = "sendfile"
    /\ \/ /\ filePos < fileSize /\ stream # <<>>
          /\ \E n \in 1 .. Shorter(FrameSize, Len(stream)) : Write(0, n)
          /\ UNCHANGED receiver
       \/ filePos < fileSize /\ AtEnd /\ receiver' = "error" /\ UNCHANGED <<stream, localFile, filePos>>
       \/ filePos >= fileSize /\ receiver' = "success" /\ UNCHANGED <<stream, localFile, filePos>>
    /\ UNCHANGED <<protocol, sender, sentBytes, fileSize>>

Client == RecvName \/ RecvSize \/ RecvFrame \/ RecvFrameEnd \/ RecvFile

TransferNext == ServerStep \/ ServerKilled \/ Client

TransferSpec == TransferInit /\ [][TransferNext]_transferVars

\* The server and the client are scheduled; nobody has to be killed.
TransferFairness == WF_transferVars(ServerStep) /\ WF_transferVars(Client)

----------------------------------------------------------------------------
(* Properties *)

\* The written part of the local file is the beginning of the file, the rest is what
\* was there before.  A client that reports success, and one that has read the empty
\* message of a server that closed the connection, has all of it, unless the server
\* ended before it sent the size.
DownloadIsPrefix ==
    /\ \A i \in 1 .. Len(localFile) : localFile[i] = IF i <= filePos THEN i ELSE Old
    /\ receiver = "success" /\ fileSize > 0 => filePos = FileSize
    /\ receiver = "ended" /\ sender = "closed" => filePos = FileSize

\* The client ends.  The one of 20180706 may call recv for ever instead.
DownloadEnds ==
    <>(receiver \in {"success", "error", "ended", "failed"}
         \/ (protocol = "spinning" /\ receiver = "spinning"))
=============================================================================
