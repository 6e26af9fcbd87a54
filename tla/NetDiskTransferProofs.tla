------------------------ MODULE NetDiskTransferProofs -----------------------
(***************************************************************************)
(* The bytes of gets and puts: proofs that the stored file and the copies  *)
(* of clients are prefixes of the content, that nothing stored gets lost,  *)
(* that an upload called a success is complete, and that both sides stay   *)
(* in step; for any number of clients, sizes, commands and broken          *)
(* connections.                                                            *)
(***************************************************************************)
EXTENDS NetDiskTransfer, SequenceTheorems, TLAPS

----------------------------------------------------------------------------
(* What is on the way between a client and its task *)

\* A client in state s has sent u: the last m bytes of the content, and then a command
\* if it gave one.  What a client that left has sent may be cut off anywhere.
Follows(s, u, m) ==
    /\ s \in {"prompt", "gets", "puts", "gone"}
    /\ \A i \in 1 .. Len(u) :
          IF i <= m THEN u[i] = Msg("byte", (Size - m) + i)
          ELSE i = m + 1 /\ u[i].type \in {"gets", "puts", "tail"}
    /\ s = "prompt" => Len(u) = m
    /\ s \in {"gets", "puts"} => Len(u) = m + 1 /\ u[m + 1].type \in {s, "tail"}

\* Bytes that a client does not wait for; there are none if uploads do not overlap.
Extras(v) == (\A j \in 1 .. Len(v) : v[j].type = "byte") /\ (mixed \/ v = <<>>)

\* The server's answer is the last thing on its way.
Answers(v, type, n) ==
    /\ v # <<>> /\ v[Len(v)] = Msg(type, n)
    /\ \A j \in 1 .. Len(v) - 1 : v[j].type = "byte"
    /\ mixed \/ Len(v) = 1

\* A size message, and m bytes that follow it.
Sizes(s, u, m) == u # <<>> /\ Head(u).type = "size" /\ Follows(s, Tail(u), m)

Missing(n) == IF n < Size THEN Size - n ELSE 0

----------------------------------------------------------------------------
(* The inductive invariant *)

\* No task: the client is at its prompt, gives a command, has been refused, or receives
\* the last bytes of a download.
IdleOK(c) ==
    \/ Follows(cst[c], up[c], 0) /\ Extras(down[c])
    \/ cst[c] \in {"gets", "puts"} /\ up[c] = <<>> /\ Answers(down[c], "refused", 0)
    \/ /\ cst[c] = "download" /\ up[c] = <<>>
       /\ \A j \in 1 .. Len(down[c]) : down[c][j].type = "byte"
       /\ mixed \/ Len(local[c]) + Len(down[c]) = cwant[c]

\* do_task_gets waits for the size of the client's file ...
GetsSizeOK(c) ==
    \/ cst[c] = "gone" /\ up[c] = <<>>
    \/ cst[c] = "gets" /\ up[c] = <<>> /\ Answers(down[c], "header", task[c].stat)
    \/ /\ cst[c] = "download" /\ up[c] = <<Msg("size", Len(local[c]))>> /\ down[c] = <<>>
       /\ Len(local[c]) < task[c].stat /\ cwant[c] = task[c].stat
    \/ /\ Sizes(cst[c], up[c], 0) /\ down[c] = <<>>
       /\ Head(up[c]).n >= task[c].stat \/ (Len(up[c]) = 1 /\ cst[c] = "gone")

\* ... and sends what follows it.
SendOK(c) ==
    /\ up[c] = <<>> /\ cst[c] \in {"gone", "download"}
    /\ cst[c] = "download" =>
          /\ down[c] = <<>> /\ task[c].want = Len(local[c])
          /\ Len(local[c]) < task[c].stat /\ cwant[c] = task[c].stat

\* do_task_puts waits for the size of the content ...
PutsSizeOK(c) ==
    /\ task[c].total = task[c].stat
    /\ \/ cst[c] = "gone" /\ up[c] = <<>>
       \/ cst[c] = "puts" /\ up[c] = <<>> /\ Answers(down[c], "header", task[c].stat)
       \/ /\ cst[c] = "upload" /\ up[c] = <<Msg("size", Size)>> /\ down[c] = <<>>
          /\ task[c].stat < Size /\ cwant[c] = task[c].stat
       \/ /\ Sizes(cst[c], up[c], Missing(task[c].stat)) /\ down[c] = <<>>
          /\ Head(up[c]).n = Size

\* ... then for the bytes that are missing ...
RecvOK(c) ==
    /\ task[c].want = Size /\ task[c].total < Size /\ down[c] = <<>>
    /\ \/ cst[c] = "upload" /\ up[c] = <<>> /\ cwant[c] = task[c].total
       \/ Follows(cst[c], up[c], Missing(task[c].total))

\* ... and records them.
RecordOK(c) ==
    /\ task[c].want = Size
    /\ task[c].stat >= Size \/ task[c].total >= Size
    /\ Follows(cst[c], up[c], 0) /\ down[c] = <<>>

Linked(c) ==
    /\ cst[c] = "gone" => down[c] = <<>>
    /\ task[c].stage = "idle"     => IdleOK(c)
    /\ task[c].stage = "getsSize" => GetsSizeOK(c)
    /\ task[c].stage = "send"     => SendOK(c)
    /\ task[c].stage = "putsSize" => PutsSizeOK(c)
    /\ task[c].stage = "recv"     => RecvOK(c)
    /\ task[c].stage = "record"   => RecordOK(c)

\* Without overlapping uploads nobody else has the file open while it is written, and
\* what a task knows of its length is true ...
OneWriter ==
    /\ \A c, d \in Clients : Writing(c) /\ Open(d) => c = d
    /\ \A c \in Clients : Writing(c) => task[c].total = Len(disk)
    /\ \A c \in Clients : task[c].stage \in {"getsSize", "send"} => task[c].stat = Len(disk)

\* ... and every copy begins with the content, the bytes on their way included.
CopyOK(c) ==
    /\ IsContent(local[c])
    /\ cst[c] = "download" =>
          \A j \in 1 .. Len(down[c]) : Len(local[c]) + j <= Size => down[c][j].n = Len(local[c]) + j

Apart == OneWriter /\ IsContent(disk) /\ \A c \in Clients : CopyOK(c)

TypeInv ==
    /\ TypeOK
    /\ \A c \in Clients : task[c].stage \in {"putsSize", "recv", "record"} => task[c].total <= Len(disk)

TransferInv ==
    /\ TypeInv /\ UploadComplete
    /\ \A c \in Clients : Linked(c)
    /\ mixed \/ Apart

----------------------------------------------------------------------------
(* Facts about bytes and messages *)

LEMMA MsgType ==
    ASSUME NEW type \in {"gets", "puts", "size", "byte", "tail", "header", "refused"}, NEW n \in Nat
    PROVE  Msg(type, n) \in Messages /\ Msg(type, n).type = type /\ Msg(type, n).n = n
  BY DEF Msg, Messages

LEMMA BytesSeq ==
    ASSUME NEW s \in Seq(Nat)
    PROVE  /\ Bytes(s) \in Seq(Messages) /\ Len(Bytes(s)) = Len(s)
           /\ \A i \in 1 .. Len(s) : Bytes(s)[i] = Msg("byte", s[i])
<1>1. \A i \in 1 .. Len(s) : Msg("byte", s[i]) \in Messages
  BY MsgType
<1> QED BY <1>1 DEF Bytes

LEMMA ValuesSeq ==
    ASSUME NEW s \in Seq(Messages)
    PROVE  /\ Values(s) \in Seq(Nat) /\ Len(Values(s)) = Len(s)
           /\ \A i \in 1 .. Len(s) : s[i].type = "byte" => Values(s)[i] = s[i].n
<1> DEFINE e(i) == IF s[i].type = "byte" THEN s[i].n ELSE Junk
<1>1. \A i \in 1 .. Len(s) : e(i) \in Nat
  <2>1. ASSUME NEW i \in 1 .. Len(s) PROVE s[i].n \in Nat
    <3>1. s[i] \in Messages
      OBVIOUS
    <3> QED BY <3>1 DEF Messages
  <2>2. Junk \in Nat
    BY DEF Junk
  <2> QED BY <2>1, <2>2
<1>2. Values(s) = [i \in 1 .. Len(s) |-> e(i)]
  BY DEF Values
<1>3. \A i \in 1 .. Len(s) : s[i].type = "byte" => e(i) = s[i].n
  OBVIOUS
<1> HIDE DEF e
<1> QED BY <1>1, <1>2, <1>3

LEMMA ConcatSeq ==
    ASSUME NEW S, NEW s \in Seq(S), NEW t \in Seq(S)
    PROVE  /\ s \o t \in Seq(S) /\ Len(s \o t) = Len(s) + Len(t)
           /\ \A i \in 1 .. Len(s) : (s \o t)[i] = s[i]
           /\ \A i \in 1 .. Len(t) : (s \o t)[Len(s) + i] = t[i]
  OBVIOUS

LEMMA FrontSeq ==
    ASSUME NEW S, NEW s \in Seq(S), NEW k \in 0 .. Len(s)
    PROVE  /\ SubSeq(s, 1, k) \in Seq(S) /\ Len(SubSeq(s, 1, k)) = k
           /\ \A i \in 1 .. k : SubSeq(s, 1, k)[i] = s[i]
  OBVIOUS

LEMMA RestSeq ==
    ASSUME NEW S, NEW s \in Seq(S), NEW k \in 0 .. Len(s)
    PROVE  /\ SubSeq(s, k + 1, Len(s)) \in Seq(S) /\ Len(SubSeq(s, k + 1, Len(s))) = Len(s) - k
           /\ \A i \in 1 .. Len(s) - k : SubSeq(s, k + 1, Len(s))[i] = s[k + i]
  OBVIOUS

LEMMA EmptyLen == \A S : \A s \in Seq(S) : Len(s) \in Nat /\ (s = <<>> <=> Len(s) = 0)
  OBVIOUS

LEMMA OneElement ==
    \A e : /\ <<e>> # <<>> /\ Len(<<e>>) = 1 /\ Head(<<e>>) = e /\ Tail(<<e>>) = <<>> /\ <<e>>[1] = e
           /\ \A S : e \in S => <<e>> \in Seq(S)
  OBVIOUS

\* A message is added behind what is on the way.
LEMMA AddOne ==
    ASSUME NEW S, NEW u \in Seq(S), NEW e \in S
    PROVE  /\ u \o <<e>> \in Seq(S) /\ Len(u \o <<e>>) = Len(u) + 1 /\ u \o <<e>> # <<>>
           /\ (u \o <<e>>)[Len(u) + 1] = e /\ \A i \in 1 .. Len(u) : (u \o <<e>>)[i] = u[i]
           /\ u # <<>> => Head(u \o <<e>>) = Head(u) /\ Tail(u \o <<e>>) = Tail(u) \o <<e>>
           /\ u = <<>> => u \o <<e>> = <<e>>
<1>1. <<e>> \in Seq(S) /\ Len(<<e>>) = 1 /\ <<e>>[1] = e
  OBVIOUS
<1>2. /\ u \o <<e>> \in Seq(S) /\ Len(u \o <<e>>) = Len(u) + 1
      /\ (u \o <<e>>)[Len(u) + 1] = e /\ \A i \in 1 .. Len(u) : (u \o <<e>>)[i] = u[i]
  BY <1>1, ConcatSeq
<1>3. u \o <<e>> # <<>>
  BY <1>2, EmptyLen
<1>4. ASSUME u # <<>> PROVE Head(u \o <<e>>) = Head(u) /\ Tail(u \o <<e>>) = Tail(u) \o <<e>>
  <2>1. Len(u) \in Nat \ {0}
    BY <1>4, EmptyLen
  <2>2. Head(u \o <<e>>) = Head(u)
    BY <1>2, <2>1
  <2>3. /\ Tail(u \o <<e>>) \in Seq(S) /\ Len(Tail(u \o <<e>>)) = Len(u)
        /\ \A i \in 1 .. Len(u) : Tail(u \o <<e>>)[i] = (u \o <<e>>)[i + 1]
    BY <1>2, <1>3
  <2>4. Tail(u) \in Seq(S) /\ Len(Tail(u)) = Len(u) - 1 /\ \A i \in 1 .. Len(u) - 1 : Tail(u)[i] = u[i + 1]
    BY <1>4, <2>1
  <2>5. /\ Tail(u) \o <<e>> \in Seq(S) /\ Len(Tail(u) \o <<e>>) = Len(u)
        /\ (Tail(u) \o <<e>>)[Len(u)] = e
        /\ \A i \in 1 .. Len(u) - 1 : (Tail(u) \o <<e>>)[i] = u[i + 1]
    BY <1>1, <2>4, ConcatSeq
  <2>6. \A i \in 1 .. Len(u) : Tail(u \o <<e>>)[i] = (Tail(u) \o <<e>>)[i]
    <3>1. \A i \in 1 .. Len(u) - 1 : (u \o <<e>>)[i + 1] = u[i + 1]
      BY <1>2, <2>1
    <3>2. \A i \in 1 .. Len(u) : i = Len(u) \/ i \in 1 .. Len(u) - 1
      BY <2>1
    <3> QED BY <1>2, <2>3, <2>5, <3>1, <3>2
  <2> QED BY <2>2, <2>3, <2>5, <2>6, SeqEqual
<1>5. u = <<>> => u \o <<e>> = <<e>>
  BY <1>1, ConcatEmptySeq
<1> QED BY <1>2, <1>3, <1>4, <1>5

----------------------------------------------------------------------------
(* What can become of the bytes a client has sent *)

LEMMA FollowsNone ==
    ASSUME NEW s, NEW u \in Seq(Messages), Follows(s, u, 0)
    PROVE  /\ u = <<>> \/ (Len(u) = 1 /\ Head(u).type \in {"gets", "puts", "tail"} /\ Tail(u) = <<>>)
           /\ s = "prompt" => u = <<>>
           /\ s \in {"gets", "puts"} => u # <<>> /\ Head(u).type \in {s, "tail"}
<1>1. Len(u) \in Nat /\ (u = <<>> <=> Len(u) = 0)
  BY EmptyLen
<1>2. \A i \in 1 .. Len(u) : i = 1 /\ u[i].type \in {"gets", "puts", "tail"}
  BY DEF Follows
<1>3. Len(u) <= 1
  BY <1>1, <1>2
<1>4. ASSUME Len(u) = 1
      PROVE  u[1].type \in {"gets", "puts", "tail"} /\ Head(u) = u[1] /\ Tail(u) = <<>> /\ u # <<>>
  <2>1. u[1].type \in {"gets", "puts", "tail"}
    BY <1>2, <1>4
  <2>2. u # <<>> /\ Head(u) = u[1]
    BY <1>1, <1>4
  <2>3. Tail(u) \in Seq(Messages) /\ Len(Tail(u)) = 0
    BY <1>4, <2>2
  <2> QED BY <2>1, <2>2, <2>3, EmptyLen
<1>5. /\ s = "prompt" => Len(u) = 0
      /\ s \in {"gets", "puts"} => Len(u) = 0 + 1 /\ u[0 + 1].type \in {s, "tail"}
  BY DEF Follows
<1>6. CASE Len(u) = 0
  BY <1>1, <1>5, <1>6
<1>7. CASE Len(u) = 1
  <2>1. s \in {"gets", "puts"} => u[1].type \in {s, "tail"}
    BY <1>5
  <2> QED BY <1>4, <1>5, <1>7, <2>1
<1>8. Len(u) = 0 \/ Len(u) = 1
  BY <1>1, <1>3
<1> QED BY <1>6, <1>7, <1>8

LEMMA FollowsCommand ==
    ASSUME NEW u \in Seq(Messages), NEW m \in Nat, Follows("prompt", u, m), NEW op \in {"gets", "puts"}
    PROVE  Follows(op, u \o <<Msg(op, 0)>>, m)
<1>1. Msg(op, 0) \in Messages /\ Msg(op, 0).type = op
  BY MsgType
<1>2. PICK t : t = u \o <<Msg(op, 0)>>
  OBVIOUS
<1>3. /\ t \in Seq(Messages) /\ Len(t) = Len(u) + 1 /\ t[Len(u) + 1] = Msg(op, 0)
      /\ \A i \in 1 .. Len(u) : t[i] = u[i]
  BY <1>1, <1>2, AddOne
<1>4. Len(u) = m /\ \A i \in 1 .. m : u[i] = Msg("byte", (Size - m) + i)
  BY DEF Follows
<1>5. \A i \in 1 .. Len(t) : i = m + 1 \/ (i \in 1 .. m /\ i <= m)
  BY <1>3, <1>4
<1>6. \A i \in 1 .. Len(t) : IF i <= m THEN t[i] = Msg("byte", (Size - m) + i)
                             ELSE i = m + 1 /\ t[i].type \in {"gets", "puts", "tail"}
  BY <1>1, <1>3, <1>4, <1>5
<1>7. Len(t) = m + 1 /\ t[m + 1].type = op
  BY <1>1, <1>3, <1>4
<1> QED BY <1>2, <1>6, <1>7 DEF Follows

LEMMA SizesCommand ==
    ASSUME NEW u \in Seq(Messages), NEW m \in Nat, Sizes("prompt", u, m), NEW op \in {"gets", "puts"}
    PROVE  Sizes(op, u \o <<Msg(op, 0)>>, m) /\ Head(u \o <<Msg(op, 0)>>) = Head(u)
<1>1. Msg(op, 0) \in Messages
  BY MsgType
<1>2. u # <<>> /\ Head(u).type = "size" /\ Tail(u) \in Seq(Messages) /\ Follows("prompt", Tail(u), m)
  BY DEF Sizes
<1>3. Follows(op, Tail(u) \o <<Msg(op, 0)>>, m)
  BY <1>2, FollowsCommand
<1>4. PICK e \in Messages : e = Msg(op, 0)
  BY <1>1
<1>5. u \o <<e>> # <<>> /\ Head(u \o <<e>>) = Head(u) /\ Tail(u \o <<e>>) = Tail(u) \o <<e>>
  BY <1>2, AddOne
<1> QED BY <1>2, <1>3, <1>4, <1>5 DEF Sizes

LEMMA FollowsCut ==
    ASSUME NEW s, NEW u \in Seq(Messages), NEW m \in Nat, Follows(s, u, m), NEW k \in 0 .. Len(u)
    PROVE  Follows("gone", SubSeq(u, 1, k), m)
<1>1. Len(u) \in Nat
  BY EmptyLen
<1>2. Len(SubSeq(u, 1, k)) = k /\ \A i \in 1 .. k : SubSeq(u, 1, k)[i] = u[i]
  BY FrontSeq
<1>3. \A i \in 1 .. k : i \in 1 .. Len(u)
  BY <1>1
<1> QED BY <1>2, <1>3 DEF Follows

LEMMA SizesCut ==
    ASSUME NEW s, NEW u \in Seq(Messages), NEW m \in Nat, Sizes(s, u, m), NEW k \in 0 .. Len(u)
    PROVE  \/ SubSeq(u, 1, k) = <<>>
           \/ Sizes("gone", SubSeq(u, 1, k), m) /\ Head(SubSeq(u, 1, k)) = Head(u)
<1>1. PICK t : t = SubSeq(u, 1, k)
  OBVIOUS
<1>2. t \in Seq(Messages) /\ Len(t) = k /\ \A i \in 1 .. k : t[i] = u[i]
  BY <1>1, FrontSeq
<1>3. u # <<>> /\ Len(u) \in Nat /\ Head(u).type = "size" /\ Follows(s, Tail(u), m)
  BY EmptyLen DEF Sizes
<1>4. CASE k = 0
  BY <1>1, <1>2, <1>4, EmptyLen
<1>5. CASE k # 0
  <2>1. t # <<>> /\ Head(t) = Head(u) /\ k - 1 \in 0 .. Len(Tail(u)) /\ Tail(u) \in Seq(Messages)
    BY <1>2, <1>3, <1>5
  <2>2. Follows("gone", SubSeq(Tail(u), 1, k - 1), m)
    BY <1>3, <2>1, FollowsCut
  <2>3. SubSeq(Tail(u), 1, k - 1) = Tail(t)
    <3>1. /\ SubSeq(Tail(u), 1, k - 1) \in Seq(Messages) /\ Len(SubSeq(Tail(u), 1, k - 1)) = k - 1
          /\ \A i \in 1 .. k - 1 : SubSeq(Tail(u), 1, k - 1)[i] = Tail(u)[i]
      BY <2>1, FrontSeq
    <3>2. \A i \in 1 .. k - 1 : Tail(u)[i] = u[i + 1]
      BY <1>3, <2>1
    <3>3. Tail(t) \in Seq(Messages) /\ Len(Tail(t)) = k - 1 /\ \A i \in 1 .. k - 1 : Tail(t)[i] = t[i + 1]
      BY <1>2, <2>1
    <3>4. \A i \in 1 .. k - 1 : t[i + 1] = u[i + 1]
      BY <1>2
    <3> QED BY <3>1, <3>2, <3>3, <3>4, SeqEqual
  <2> QED BY <1>1, <1>3, <2>1, <2>2, <2>3 DEF Sizes
<1> QED BY <1>4, <1>5

LEMMA FollowsTail ==
    ASSUME NEW s \in {"gets", "puts", "gone"}, NEW t, Len(t) = 1, t[1].type = "tail"
    PROVE  Follows(s, t, 0)
  BY DEF Follows

\* What is on the way when one recv has taken k.
Left(u, k) == (IF u[k].type = "byte" THEN <<>> ELSE <<Msg("tail", 0)>>) \o SubSeq(u, k + 1, Len(u))

\* One recv of the loop of recv_file takes k: bytes of the content, and in the end perhaps
\* the beginning of the next command.
LEMMA FollowsTake ==
    ASSUME NEW s, NEW u \in Seq(Messages), NEW m \in 1 .. Size, Follows(s, u, m),
           NEW k \in 1 .. Len(u), \A i \in 1 .. k - 1 : u[i].type = "byte"
    PROVE  /\ Left(u, k) \in Seq(Messages) /\ Follows(s, Left(u, k), IF k < m THEN m - k ELSE 0) /\ k <= m + 1
           /\ \A i \in 1 .. k : i <= m => u[i] = Msg("byte", (Size - m) + i)
<1>0. PICK t : t = Left(u, k)
  OBVIOUS
<1>1. Size \in Nat /\ m \in Nat /\ Len(u) \in Nat /\ k \in 0 .. Len(u)
  BY TransferConstants, EmptyLen
<1>2. \A i \in 1 .. Len(u) : i <= m => u[i] = Msg("byte", (Size - m) + i) /\ u[i].type = "byte"
  <2>1. \A i \in 1 .. Len(u) : i <= m => u[i] = Msg("byte", (Size - m) + i)
    BY DEF Follows
  <2>2. \A i \in 1 .. Len(u) : i <= m => (Size - m) + i \in Nat
    BY <1>1
  <2> QED BY <2>1, <2>2, MsgType
<1>3. \A i \in 1 .. Len(u) : i > m => i = m + 1 /\ u[i].type \in {"gets", "puts", "tail"}
  BY <1>1 DEF Follows
<1>4. \A i \in 1 .. k : i \in 1 .. Len(u)
  BY <1>1
<1>5. k <= m + 1 /\ \A i \in 1 .. k : i <= m => u[i] = Msg("byte", (Size - m) + i)
  BY <1>1, <1>2, <1>3, <1>4
<1>6. PICK r : r = SubSeq(u, k + 1, Len(u))
  OBVIOUS
<1>7. r \in Seq(Messages) /\ Len(r) = Len(u) - k /\ \A i \in 1 .. Len(u) - k : r[i] = u[k + i]
  BY <1>1, <1>6, RestSeq
<1>8. CASE k <= m
  <2>1. t = r
    BY <1>0, <1>2, <1>6, <1>7, <1>8, ConcatEmptySeq DEF Left
  <2>2. PICK j : j = m - k
    OBVIOUS
  <2>3. (IF k < m THEN m - k ELSE 0) = j
    BY <1>1, <1>8, <2>2
  <2>4. ASSUME NEW i \in 1 .. Len(r)
        PROVE  IF i <= j THEN r[i] = Msg("byte", (Size - j) + i)
               ELSE i = j + 1 /\ r[i].type \in {"gets", "puts", "tail"}
    <3>1. k + i \in 1 .. Len(u) /\ r[i] = u[k + i] /\ i \in Nat
      BY <1>1, <1>7
    <3>2. CASE i <= j
      <4>1. k + i <= m /\ (Size - m) + (k + i) = (Size - j) + i
        BY <1>1, <2>2, <3>1, <3>2
      <4> QED BY <1>2, <3>1, <3>2, <4>1
    <3>3. CASE ~(i <= j)
      <4>1. k + i > m
        BY <1>1, <2>2, <3>1, <3>3
      <4>2. k + i = m + 1 /\ u[k + i].type \in {"gets", "puts", "tail"}
        BY <1>3, <3>1, <4>1
      <4> QED BY <1>1, <2>2, <3>1, <3>3, <4>2
    <3> QED BY <3>2, <3>3
  <2>5. /\ s \in {"prompt", "gets", "puts", "gone"}
        /\ s = "prompt" => Len(r) = j
        /\ s \in {"gets", "puts"} => Len(r) = j + 1 /\ r[j + 1].type \in {s, "tail"}
    <3>1. /\ s \in {"prompt", "gets", "puts", "gone"}
          /\ s = "prompt" => Len(u) = m
          /\ s \in {"gets", "puts"} => Len(u) = m + 1 /\ u[m + 1].type \in {s, "tail"}
      BY DEF Follows
    <3>2. s \in {"gets", "puts"} => j + 1 \in 1 .. Len(u) - k /\ k + (j + 1) = m + 1
      BY <1>1, <1>8, <2>2, <3>1
    <3>3. s \in {"gets", "puts"} => r[j + 1] = u[m + 1]
      BY <1>7, <3>2
    <3> QED BY <1>1, <1>7, <2>2, <3>1, <3>3
  <2>6. Follows(s, r, j)
    BY <2>4, <2>5 DEF Follows
  <2> QED BY <1>0, <1>5, <1>7, <2>1, <2>3, <2>6
<1>9. CASE k > m
  <2>1. k = m + 1 /\ u[k].type \in {"gets", "puts", "tail"}
    BY <1>3, <1>9
  <2>2. Len(u) = k
    <3>1. Len(u) \in 1 .. Len(u) /\ Len(u) > m
      BY <1>1, <1>9
    <3> QED BY <1>3, <2>1, <3>1
  <2>3. r = <<>>
    BY <1>7, <2>2, EmptyLen
  <2>4. Msg("tail", 0) \in Messages /\ Msg("tail", 0).type = "tail"
    BY MsgType
  <2>5. t = <<Msg("tail", 0)>> /\ t \in Seq(Messages)
    <3>1. <<Msg("tail", 0)>> \in Seq(Messages)
      BY <2>4
    <3> QED BY <1>0, <1>6, <2>1, <2>3, <3>1, ConcatEmptySeq DEF Left
  <2>6. Len(t) = 1 /\ t[1].type = "tail"
    BY <2>4, <2>5, OneElement
  <2>7. s \in {"gets", "puts", "gone"}
    BY <1>1, <2>1, <2>2 DEF Follows
  <2>8. Follows(s, t, 0)
    BY <2>6, <2>7, FollowsTail
  <2>9. (IF k < m THEN m - k ELSE 0) = 0
    BY <1>1, <1>9
  <2> QED BY <1>0, <1>5, <2>5, <2>8, <2>9
<1> QED BY <1>1, <1>8, <1>9

\* sendfile sends all that follows position n.
LEMMA FollowsUpload ==
    ASSUME NEW n \in Nat, n < Size, NEW t, t = Bytes([i \in 1 .. Size - n |-> n + i])
    PROVE  t \in Seq(Messages) /\ Follows("prompt", t, Size - n)
<1>1. Size \in Nat /\ Size - n \in Nat /\ Size - (Size - n) = n
  BY TransferConstants
<1>2. PICK b : b = [i \in 1 .. Size - n |-> n + i]
  OBVIOUS
<1>3. b \in Seq(Nat) /\ Len(b) = Size - n /\ \A i \in 1 .. Size - n : b[i] = n + i
  BY <1>1, <1>2
<1>4. t \in Seq(Messages) /\ Len(t) = Size - n /\ \A i \in 1 .. Size - n : t[i] = Msg("byte", n + i)
  BY <1>2, <1>3, BytesSeq
<1>5. \A i \in 1 .. Len(t) : i <= Size - n /\ t[i] = Msg("byte", (Size - (Size - n)) + i)
  BY <1>1, <1>4
<1> QED BY <1>4, <1>5 DEF Follows

\* A size message and what sendfile sends.
LEMMA SizesUpload ==
    ASSUME NEW u \in Seq(Messages), NEW e \in Messages, u = <<e>>, e.type = "size",
           NEW t \in Seq(Messages), NEW s, NEW m, Follows(s, t, m)
    PROVE  Sizes(s, u \o t, m) /\ Head(u \o t) = e
<1>1. Len(u) = 1 /\ u[1] = e
  OBVIOUS
<1>2. Len(t) \in Nat
  BY EmptyLen
<1>3. /\ u \o t \in Seq(Messages) /\ Len(u \o t) = 1 + Len(t)
      /\ (u \o t)[1] = e /\ \A i \in 1 .. Len(t) : (u \o t)[1 + i] = t[i]
  BY <1>1, ConcatSeq
<1>4. u \o t # <<>> /\ Head(u \o t) = e
  BY <1>2, <1>3
<1>5. /\ Tail(u \o t) \in Seq(Messages) /\ Len(Tail(u \o t)) = Len(t)
      /\ \A i \in 1 .. Len(t) : Tail(u \o t)[i] = (u \o t)[i + 1]
  BY <1>2, <1>3, <1>4
<1>6. Tail(u \o t) = t
  BY <1>3, <1>5, SeqEqual
<1> QED BY <1>4, <1>6 DEF Sizes

----------------------------------------------------------------------------
(* What can become of the bytes the server has sent *)

LEMMA ExtrasAdd ==
    ASSUME NEW v \in Seq(Messages), Extras(v),
           NEW type \in {"gets", "puts", "size", "byte", "tail", "header", "refused"}, NEW n \in Nat
    PROVE  Answers(v \o <<Msg(type, n)>>, type, n)
<1>1. PICK e \in Messages : e = Msg(type, n)
  BY MsgType
<1>2. Len(v) \in Nat
  BY EmptyLen
<1>3. PICK t \in Seq(Messages) : t = v \o <<e>>
  BY <1>1, AddOne
<1>4. t # <<>> /\ Len(t) = Len(v) + 1 /\ t[Len(v) + 1] = e /\ \A i \in 1 .. Len(v) : t[i] = v[i]
  BY <1>3, AddOne
<1>5. t[Len(t)] = e /\ \A j \in 1 .. Len(t) - 1 : t[j].type = "byte"
  BY <1>2, <1>4 DEF Extras
<1>6. mixed \/ Len(t) = 1
  <2>1. v = <<>> => Len(v) = 0
    OBVIOUS
  <2> QED BY <1>4, <2>1 DEF Extras
<1> QED BY <1>1, <1>3, <1>4, <1>5, <1>6 DEF Answers

\* The client receives an answer when nothing is left before it.
LEMMA AnswersHead ==
    ASSUME NEW v \in Seq(Messages), NEW type, NEW n, Answers(v, type, n), Head(v).type # "byte"
    PROVE  Head(v) = Msg(type, n) /\ Tail(v) = <<>>
<1>1. v # <<>> /\ Len(v) \in Nat \ {0} /\ Head(v) = v[1]
  BY EmptyLen DEF Answers
<1>2. Len(v) = 1
  <2>1. PICK n1 \in Nat \ {0} : n1 = Len(v)
    BY <1>1
  <2>2. n1 # 1 => 1 \in 1 .. n1 - 1
    OBVIOUS
  <2> QED BY <1>1, <2>1, <2>2 DEF Answers
<1>3. Tail(v) \in Seq(Messages) /\ Len(Tail(v)) = 0
  BY <1>1, <1>2
<1> QED BY <1>1, <1>2, <1>3, EmptyLen DEF Answers

LEMMA ExtrasHead ==
    ASSUME NEW v \in Seq(Messages), \A j \in 1 .. Len(v) : v[j].type = "byte", v # <<>>
    PROVE  Head(v).type = "byte"
<1>1. Len(v) \in Nat \ {0}
  BY EmptyLen
<1> QED BY <1>1

----------------------------------------------------------------------------
(* Steps of one client, or of its task *)

Same(d) ==
    /\ cst'[d] = cst[d] /\ up'[d] = up[d] /\ down'[d] = down[d] /\ task'[d] = task[d]
    /\ local'[d] = local[d] /\ cwant'[d] = cwant[d]

LEMMA MissingType ==
    ASSUME NEW n \in Nat
    PROVE  /\ Missing(n) \in Nat /\ Missing(n) <= Size
           /\ n < Size => Missing(n) = Size - n /\ Missing(n) \in 1 .. Size
           /\ n >= Size => Missing(n) = 0
  BY TransferConstants DEF Missing

LEMMA ClientTypes ==
    ASSUME TypeInv, NEW c \in Clients
    PROVE  /\ cst[c] \in ClientStates /\ up[c] \in Seq(Messages) /\ down[c] \in Seq(Messages)
           /\ task[c] \in Task /\ task[c].stat \in Nat /\ task[c].want \in Nat /\ task[c].total \in Nat
           /\ local[c] \in Seq(Nat) /\ Len(local[c]) \in Nat /\ cwant[c] \in Nat
           /\ disk \in Seq(Nat) /\ Len(disk) \in Nat
  BY DEF TypeInv, TypeOK, Task

\* Nothing is asked of extra bytes once uploads have overlapped.
LEMMA LinkedSame ==
    ASSUME NEW d \in Clients, Linked(d), Same(d), mixed => mixed'
    PROVE  Linked(d)'
<1>0. PICK v : v = down[d] /\ v = down'[d]
  BY DEF Same
<1>1. Extras(down[d]) => Extras(down[d])'
  BY <1>0 DEF Extras
<1>2. \A type, n : Answers(down[d], type, n) => Answers(down[d], type, n)'
  BY <1>0 DEF Answers
<1> USE DEF Linked, Same
<1>3. CASE task[d].stage = "idle"
  BY <1>1, <1>2, <1>3 DEF IdleOK, Extras, Answers
<1>4. CASE task[d].stage = "getsSize"
  BY <1>2, <1>4 DEF GetsSizeOK, Answers
<1>5. CASE task[d].stage = "send"
  BY <1>5 DEF SendOK
<1>6. CASE task[d].stage = "putsSize"
  BY <1>2, <1>6 DEF PutsSizeOK, Answers
<1>7. CASE task[d].stage = "recv"
  BY <1>7 DEF RecvOK
<1>8. CASE task[d].stage = "record"
  BY <1>8 DEF RecordOK
<1> QED BY <1>3, <1>4, <1>5, <1>6, <1>7, <1>8

LEMMA OneLinked ==
    ASSUME TransferInv, NEW c \in Clients, \A d \in Clients \ {c} : Same(d), mixed => mixed', Linked(c)'
    PROVE  \A d \in Clients : Linked(d)'
<1>1. ASSUME NEW d \in Clients \ {c} PROVE Linked(d)'
  BY LinkedSame DEF TransferInv
<1> QED BY <1>1

\* The server's answer that a client receives is the one to its command.
LEMMA AnswerOf ==
    ASSUME TypeInv, NEW c \in Clients, Linked(c), cst[c] \in {"gets", "puts"}, down[c] # <<>>,
           Head(down[c]).type # "byte"
    PROVE  /\ up[c] = <<>> /\ Tail(down[c]) = <<>>
           /\ \/ task[c].stage = "idle" /\ Head(down[c]) = Msg("refused", 0)
              \/ task[c].stage = "getsSize" /\ cst[c] = "gets" /\ Head(down[c]) = Msg("header", task[c].stat)
              \/ /\ task[c].stage = "putsSize" /\ cst[c] = "puts" /\ task[c].total = task[c].stat
                 /\ Head(down[c]) = Msg("header", task[c].stat)
<1>1. down[c] \in Seq(Messages)
  BY ClientTypes
<1>2. task[c].stage \in {"idle", "getsSize", "send", "putsSize", "recv", "record"}
  BY ClientTypes DEF Task
<1>3. ~Extras(down[c])
  BY <1>1, ExtrasHead DEF Extras
<1>4. \A type, n : Answers(down[c], type, n) => Head(down[c]) = Msg(type, n) /\ Tail(down[c]) = <<>>
  BY <1>1, AnswersHead
<1>5. CASE task[c].stage = "idle"
  BY <1>3, <1>4, <1>5 DEF Linked, IdleOK
<1>6. CASE task[c].stage = "getsSize"
  BY <1>4, <1>6 DEF Linked, GetsSizeOK
<1>7. CASE task[c].stage = "putsSize"
  BY <1>4, <1>7 DEF Linked, PutsSizeOK
<1>8. CASE task[c].stage \in {"send", "recv", "record"}
  BY <1>8 DEF Linked, SendOK, RecvOK, RecordOK
<1> QED BY <1>2, <1>5, <1>6, <1>7, <1>8

\* At a prompt with nothing sent.
LEMMA NothingSent ==
    ASSUME NEW s \in {"prompt", "gone"}
    PROVE  Follows(s, <<>>, 0) /\ \A m \in Nat : Follows("gone", <<>>, m)
  BY DEF Follows

LEMMA SizeSent ==
    ASSUME NEW n \in Nat, NEW s \in {"prompt", "gone"}
    PROVE  /\ Sizes(s, <<Msg("size", n)>>, 0) /\ \A m \in Nat : Sizes("gone", <<Msg("size", n)>>, m)
           /\ Head(<<Msg("size", n)>>).n = n /\ Len(<<Msg("size", n)>>) = 1
           /\ Tail(<<Msg("size", n)>>) = <<>> /\ <<Msg("size", n)>> # <<>> /\ Head(<<Msg("size", n)>>).type = "size"
<1>1. PICK e : e = Msg("size", n) /\ e.type = "size" /\ e.n = n
  BY MsgType
<1>2. <<e>> # <<>> /\ Head(<<e>>) = e /\ Tail(<<e>>) = <<>> /\ Len(<<e>>) = 1
  BY OneElement
<1> QED BY <1>1, <1>2, NothingSent DEF Sizes

----------------------------------------------------------------------------
(* The client programs keep to the protocol *)

LEMMA CommandLinked == ASSUME TransferInv, NEW c \in Clients, Command(c) PROVE Linked(c)'
<1>1. PICK op \in {"gets", "puts"} : cst' = [cst EXCEPT ![c] = op] /\ Send(c, <<Msg(op, 0)>>)
  BY DEF Command
<1>2. TypeInv /\ Linked(c) /\ cst \in [Clients -> ClientStates] /\ up \in [Clients -> Seq(Messages)]
      /\ cst[c] = "prompt" /\ UNCHANGED <<down, task, local, cwant, mixed>>
  BY DEF TransferInv, TypeInv, TypeOK, Command
<1>3. cst'[c] = op /\ up'[c] = up[c] \o <<Msg(op, 0)>>
  BY <1>1, <1>2 DEF Send
<1>4. PICK u \in Seq(Messages) : u = up[c]
  BY <1>2
<1>5. /\ \A m \in Nat : Follows("prompt", up[c], m) => Follows(op, up'[c], m)
      /\ \A m \in Nat : Sizes("prompt", up[c], m) => Sizes(op, up'[c], m) /\ Head(up'[c]) = Head(up[c])
  BY <1>3, <1>4, FollowsCommand, SizesCommand
<1>6. Missing(task[c].stat) \in Nat /\ Missing(task[c].total) \in Nat
  BY <1>2, ClientTypes, MissingType
<1> USE <1>2, <1>3 DEF Linked
<1>7. CASE task[c].stage = "idle"
  BY <1>5, <1>7 DEF IdleOK, Extras
<1>8. CASE task[c].stage = "getsSize"
  BY <1>5, <1>8 DEF GetsSizeOK
<1>9. CASE task[c].stage = "putsSize"
  BY <1>5, <1>6, <1>9 DEF PutsSizeOK
<1>10. CASE task[c].stage = "recv"
  BY <1>5, <1>6, <1>10 DEF RecvOK
<1>11. CASE task[c].stage = "record"
  BY <1>5, <1>11 DEF RecordOK
<1>12. CASE task[c].stage = "send"
  BY <1>12 DEF SendOK
<1> QED BY <1>7, <1>8, <1>9, <1>10, <1>11, <1>12

LEMMA RefusedLinked == ASSUME TransferInv, NEW c \in Clients, Refused(c) PROVE Linked(c)'
<1>1. /\ TypeInv /\ Linked(c) /\ cst \in [Clients -> ClientStates] /\ down \in [Clients -> Seq(Messages)]
      /\ cst[c] \in {"gets", "puts"} /\ down[c] # <<>> /\ Head(down[c]).type = "refused"
      /\ cst' = [cst EXCEPT ![c] = "prompt"] /\ down' = [down EXCEPT ![c] = Tail(@)]
      /\ UNCHANGED <<up, task, local, cwant, mixed>>
  BY DEF TransferInv, TypeInv, TypeOK, Refused, Receive, Answered
<1>2. \A n \in Nat : Msg("header", n).type = "header"
  BY MsgType
<1>3. up[c] = <<>> /\ Tail(down[c]) = <<>> /\ task[c].stage = "idle"
  BY <1>1, <1>2, AnswerOf, ClientTypes
<1>4. cst'[c] = "prompt" /\ down'[c] = <<>> /\ up'[c] = <<>> /\ task'[c].stage = "idle"
  BY <1>1, <1>3
<1>5. IdleOK(c)'
  BY <1>4, NothingSent DEF IdleOK, Extras
<1> QED BY <1>4, <1>5 DEF Linked

LEMMA AskRestLinked == ASSUME TransferInv, NEW c \in Clients, AskRest(c) PROVE Linked(c)'
<1>1. /\ TypeInv /\ Linked(c) /\ cst \in [Clients -> ClientStates] /\ down \in [Clients -> Seq(Messages)]
      /\ up \in [Clients -> Seq(Messages)] /\ cwant \in [Clients -> Nat]
      /\ cst[c] = "gets" /\ down[c] # <<>> /\ Head(down[c]).type = "header"
      /\ down' = [down EXCEPT ![c] = Tail(@)] /\ up' = [up EXCEPT ![c] = @ \o <<Msg("size", Len(local[c]))>>]
      /\ UNCHANGED <<task, local, mixed>>
  BY DEF TransferInv, TypeInv, TypeOK, AskRest, Receive, Answered, Send
<1>2. PICK n : n = Head(down[c]).n
  OBVIOUS
<1>3. PICK l \in Nat : l = Len(local[c])
  BY <1>1, ClientTypes
<1>4. /\ cst'[c] = IF l < n THEN "download" ELSE "prompt"
      /\ cwant'[c] = IF l < n THEN n ELSE 0
  BY <1>1, <1>2, <1>3 DEF AskRest, Continue
<1>5. up[c] = <<>> /\ Tail(down[c]) = <<>> /\ task[c].stage = "getsSize" /\ Head(down[c]) = Msg("header", task[c].stat)
  <2>1. Msg("refused", 0).type = "refused"
    BY MsgType
  <2> QED BY <1>1, <2>1, AnswerOf
<1>6. n = task[c].stat /\ n \in Nat
  BY <1>1, <1>2, <1>5, ClientTypes, MsgType
<1>7. up'[c] = <<Msg("size", l)>>
  <2>1. Msg("size", l) \in Messages
    BY MsgType
  <2> QED BY <1>1, <1>3, <1>5, <2>1, AddOne
<1>8. down'[c] = <<>> /\ task'[c] = task[c] /\ local'[c] = local[c]
  BY <1>1, <1>5
<1>9. GetsSizeOK(c)'
  <2>1. CASE l < n
    BY <1>3, <1>4, <1>6, <1>7, <1>8, <2>1 DEF GetsSizeOK
  <2>2. CASE ~(l < n)
    <3>1. l >= n /\ cst'[c] = "prompt"
      BY <1>4, <1>6, <2>2
    <3> QED BY <1>6, <1>7, <1>8, <3>1, SizeSent DEF GetsSizeOK
  <2> QED BY <2>1, <2>2
<1> QED BY <1>5, <1>8, <1>9 DEF Linked

\* A client that receives content has an idle task, and all that is on its way is content.
LEMMA DownloadOf ==
    ASSUME TypeInv, NEW c \in Clients, Linked(c), cst[c] = "download", down[c] # <<>>
    PROVE  /\ task[c].stage = "idle" /\ up[c] = <<>> /\ \A j \in 1 .. Len(down[c]) : down[c][j].type = "byte"
           /\ mixed \/ Len(local[c]) + Len(down[c]) = cwant[c]
<1>1. task[c].stage \in {"idle", "getsSize", "send", "putsSize", "recv", "record"}
  BY ClientTypes DEF Task
<1>2. \A u, m : ~Follows(cst[c], u, m)
  BY DEF Follows
<1>3. CASE task[c].stage = "idle"
  BY <1>2, <1>3 DEF Linked, IdleOK
<1>4. CASE task[c].stage # "idle"
  BY <1>1, <1>2, <1>4 DEF Linked, GetsSizeOK, SendOK, PutsSizeOK, RecvOK, RecordOK, Sizes
<1> QED BY <1>3, <1>4

LEMMA DownloadLinked == ASSUME TransferInv, NEW c \in Clients, Download(c) PROVE Linked(c)'
<1>1. /\ TypeInv /\ Linked(c) /\ cst \in [Clients -> ClientStates] /\ down \in [Clients -> Seq(Messages)]
      /\ local \in [Clients -> Seq(Nat)] /\ cwant \in [Clients -> Nat]
      /\ cst[c] = "download" /\ UNCHANGED <<up, task, mixed>>
  BY DEF TransferInv, TypeInv, TypeOK, Download, DownloadTo
<1>2. PICK v \in Seq(Messages), l \in Seq(Nat), w \in Nat : v = down[c] /\ l = local[c] /\ w = cwant[c]
  BY <1>1
<1>3. PICK k \in 1 .. Least(Chunk, Len(v)) : DownloadTo(c, l \o Values(SubSeq(v, 1, k)), k)
  BY <1>2 DEF Download
<1>4. k \in 0 .. Len(v) /\ k # 0 /\ Len(v) \in Nat /\ Len(l) \in Nat
  BY <1>3, EmptyLen, TransferConstants DEF Least
<1>5. PICK t : t = l \o Values(SubSeq(v, 1, k))
  OBVIOUS
<1>6. t \in Seq(Nat) /\ Len(t) = Len(l) + k
  <2>1. SubSeq(v, 1, k) \in Seq(Messages) /\ Len(SubSeq(v, 1, k)) = k
    BY <1>4, FrontSeq
  <2>2. Values(SubSeq(v, 1, k)) \in Seq(Nat) /\ Len(Values(SubSeq(v, 1, k))) = k
    BY <2>1, ValuesSeq
  <2> QED BY <1>5, <2>2, ConcatSeq
<1>7. PICK r : r = SubSeq(v, k + 1, Len(v))
  OBVIOUS
<1>8. r \in Seq(Messages) /\ Len(r) = Len(v) - k /\ \A i \in 1 .. Len(v) - k : r[i] = v[k + i]
  BY <1>4, <1>7, RestSeq
<1>9. /\ local'[c] = t /\ down'[c] = r /\ task'[c] = task[c] /\ up'[c] = up[c] /\ mixed' = mixed
      /\ cst'[c] = IF Len(t) < w THEN "download" ELSE "prompt"
      /\ cwant'[c] = IF Len(t) < w THEN w ELSE 0
  <2>1. DownloadTo(c, t, k)
    BY <1>3, <1>5
  <2>2. local' = [local EXCEPT ![c] = t] /\ down' = [down EXCEPT ![c] = SubSeq(@, k + 1, Len(@))]
    BY <2>1 DEF DownloadTo
  <2>3. cst' = [cst EXCEPT ![c] = IF Len(t) < w THEN "download" ELSE "prompt"]
    BY <1>2, <2>1 DEF DownloadTo, Continue
  <2>4. cwant' = [cwant EXCEPT ![c] = IF Len(t) < w THEN w ELSE 0]
    BY <1>2, <2>1 DEF DownloadTo, Continue
  <2>5. local'[c] = t /\ down'[c] = r
    BY <1>1, <1>2, <1>7, <2>2
  <2> QED BY <1>1, <2>3, <2>4, <2>5
<1>10. v # <<>>
  BY <1>4, EmptyLen
<1>11. task[c].stage = "idle" /\ up[c] = <<>> /\ (\A j \in 1 .. Len(v) : v[j].type = "byte")
       /\ (mixed \/ Len(l) + Len(v) = w)
  BY <1>1, <1>2, <1>10, DownloadOf
<1>12. \A j \in 1 .. Len(r) : r[j].type = "byte"
  <2>1. ASSUME NEW j \in 1 .. Len(r) PROVE r[j].type = "byte"
    <3>1. r[j] = v[k + j] /\ k + j \in 1 .. Len(v)
      BY <1>4, <1>8, <2>1
    <3> QED BY <1>11, <3>1
  <2> QED BY <2>1
<1>13. IdleOK(c)'
  <2>1. CASE Len(t) < w
    <3>1. ASSUME Len(l) + Len(v) = w PROVE Len(t) + Len(r) = w
      <4>1. PICK a \in Nat, b \in Nat : a = Len(l) /\ b = Len(v)
        BY <1>4
      <4>2. k \in 0 .. b /\ Len(t) = a + k /\ Len(r) = b - k /\ a + b = w
        BY <1>4, <1>6, <1>8, <3>1, <4>1
      <4> QED BY <4>2
    <3> QED BY <1>9, <1>11, <1>12, <2>1, <3>1 DEF IdleOK
  <2>2. CASE ~(Len(t) < w)
    <3>1. mixed \/ Len(r) = 0
      BY <1>4, <1>6, <1>8, <1>11, <2>2
    <3>2. mixed \/ r = <<>>
      BY <1>8, <3>1, EmptyLen
    <3>3. Follows(cst'[c], up'[c], 0)
      BY <1>9, <1>11, <2>2, NothingSent
    <3>4. Extras(down[c])'
      BY <1>9, <1>12, <3>2 DEF Extras
    <3> QED BY <3>3, <3>4 DEF IdleOK
  <2> QED BY <2>1, <2>2
<1> QED BY <1>9, <1>11, <1>13 DEF Linked

LEMMA OfferRestLinked == ASSUME TransferInv, NEW c \in Clients, OfferRest(c) PROVE Linked(c)'
<1>1. /\ TypeInv /\ Linked(c) /\ cst \in [Clients -> ClientStates] /\ down \in [Clients -> Seq(Messages)]
      /\ up \in [Clients -> Seq(Messages)] /\ cwant \in [Clients -> Nat]
      /\ cst[c] = "puts" /\ down[c] # <<>> /\ Head(down[c]).type = "header"
      /\ down' = [down EXCEPT ![c] = Tail(@)] /\ up' = [up EXCEPT ![c] = @ \o <<Msg("size", Size)>>]
      /\ UNCHANGED <<task, local, mixed>>
  BY DEF TransferInv, TypeInv, TypeOK, OfferRest, Receive, Answered, Send
<1>2. PICK n : n = Head(down[c]).n
  OBVIOUS
<1>3. Size \in Nat
  BY TransferConstants
<1>4. /\ cst'[c] = IF n < Size THEN "upload" ELSE "prompt"
      /\ cwant'[c] = IF n < Size THEN n ELSE 0
  BY <1>1, <1>2 DEF OfferRest, Continue
<1>5. /\ up[c] = <<>> /\ Tail(down[c]) = <<>> /\ task[c].stage = "putsSize" /\ task[c].total = task[c].stat
      /\ Head(down[c]) = Msg("header", task[c].stat)
  <2>1. Msg("refused", 0).type = "refused"
    BY MsgType
  <2> QED BY <1>1, <2>1, AnswerOf
<1>6. n = task[c].stat /\ n \in Nat
  BY <1>1, <1>2, <1>5, ClientTypes, MsgType
<1>7. up'[c] = <<Msg("size", Size)>>
  <2>1. Msg("size", Size) \in Messages
    BY <1>3, MsgType
  <2> QED BY <1>1, <1>5, <2>1, AddOne
<1>8. down'[c] = <<>> /\ task'[c] = task[c]
  BY <1>1, <1>5
<1>9. PutsSizeOK(c)'
  <2>1. CASE n < Size
    BY <1>4, <1>5, <1>6, <1>7, <1>8, <2>1 DEF PutsSizeOK
  <2>2. CASE ~(n < Size)
    <3>1. Missing(n) = 0 /\ cst'[c] = "prompt"
      BY <1>4, <2>2 DEF Missing
    <3>2. Sizes("prompt", <<Msg("size", Size)>>, 0) /\ Head(<<Msg("size", Size)>>).n = Size
      BY <1>3, SizeSent
    <3>3. Sizes(cst'[c], up'[c], Missing(task'[c].stat)) /\ Head(up'[c]).n = Size
      BY <1>6, <1>7, <1>8, <3>1, <3>2
    <3> QED BY <1>5, <1>8, <3>3 DEF PutsSizeOK, Missing
  <2> QED BY <2>1, <2>2
<1> QED BY <1>5, <1>8, <1>9 DEF Linked

\* An upload follows the size of the content, or the size has been received already.
LEMMA UploadOf ==
    ASSUME TypeInv, NEW c \in Clients, Linked(c), cst[c] = "upload"
    PROVE  /\ cwant[c] < Size /\ down[c] = <<>>
           /\ \/ /\ task[c].stage = "putsSize" /\ task[c].total = task[c].stat
                 /\ up[c] = <<Msg("size", Size)>> /\ cwant[c] = task[c].stat
              \/ /\ task[c].stage = "recv" /\ task[c].want = Size /\ task[c].total < Size
                 /\ up[c] = <<>> /\ cwant[c] = task[c].total
<1>1. task[c].stage \in {"idle", "getsSize", "send", "putsSize", "recv", "record"}
  BY ClientTypes DEF Task
<1>2. \A u, m : ~Follows(cst[c], u, m)
  BY DEF Follows
<1>3. CASE task[c].stage = "putsSize"
  BY <1>2, <1>3 DEF Linked, PutsSizeOK, Sizes
<1>4. CASE task[c].stage = "recv"
  BY <1>2, <1>4 DEF Linked, RecvOK
<1>5. CASE task[c].stage \notin {"putsSize", "recv"}
  BY <1>1, <1>2, <1>5 DEF Linked, IdleOK, GetsSizeOK, SendOK, RecordOK, Sizes
<1> QED BY <1>3, <1>4, <1>5

LEMMA UploadLinked == ASSUME TransferInv, NEW c \in Clients, Upload(c) PROVE Linked(c)'
<1>1. /\ TypeInv /\ Linked(c) /\ cst \in [Clients -> ClientStates] /\ cwant \in [Clients -> Nat]
      /\ up \in [Clients -> Seq(Messages)] /\ cst[c] = "upload"
      /\ cst' = [cst EXCEPT ![c] = "prompt"] /\ UNCHANGED <<down, task, local, mixed>>
  BY DEF TransferInv, TypeInv, TypeOK, Upload, UploadFrom, Continue
<1>2. PICK n \in Nat : n = cwant[c]
  BY <1>1
<1>3. PICK t : t = Bytes([i \in 1 .. Size - n |-> n + i])
  OBVIOUS
<1>4. up' = [up EXCEPT ![c] = @ \o t]
  BY <1>2, <1>3 DEF Upload, UploadFrom, Send
<1>5. n < Size /\ down[c] = <<>>
  BY <1>1, <1>2, UploadOf
<1>6. t \in Seq(Messages) /\ Follows("prompt", t, Size - n)
  BY <1>3, <1>5, FollowsUpload
<1>7. Missing(n) = Size - n
  BY <1>5 DEF Missing
<1>8. cst'[c] = "prompt" /\ up'[c] = up[c] \o t /\ down'[c] = <<>> /\ task'[c] = task[c]
  BY <1>1, <1>4, <1>5
<1>9. CASE /\ task[c].stage = "putsSize" /\ task[c].total = task[c].stat
           /\ up[c] = <<Msg("size", Size)>> /\ n = task[c].stat
  <2>1. PICK e \in Messages : e = Msg("size", Size) /\ e.type = "size" /\ e.n = Size
    BY TransferConstants, MsgType
  <2>2. PICK u \in Seq(Messages) : u = up[c] /\ u = <<e>>
    BY <1>1, <1>9, <2>1
  <2>3. Sizes("prompt", u \o t, Size - n) /\ Head(u \o t) = e
    BY <1>6, <2>1, <2>2, SizesUpload
  <2>4. Sizes(cst'[c], up'[c], Missing(n)) /\ Head(up'[c]).n = Size
    BY <1>7, <1>8, <2>1, <2>2, <2>3
  <2>5. PutsSizeOK(c)'
    BY <1>8, <1>9, <2>4 DEF PutsSizeOK, Missing
  <2> QED BY <1>8, <1>9, <2>5 DEF Linked
<1>10. CASE /\ task[c].stage = "recv" /\ task[c].want = Size /\ task[c].total < Size
            /\ up[c] = <<>> /\ n = task[c].total
  <2>1. <<>> \o t = t
    BY <1>6
  <2>2. Follows(cst'[c], up'[c], Missing(n))
    BY <1>6, <1>7, <1>8, <1>10, <2>1
  <2>3. RecvOK(c)'
    BY <1>8, <1>10, <2>2 DEF RecvOK, Missing
  <2> QED BY <1>8, <1>10, <2>3 DEF Linked
<1> QED BY <1>1, <1>2, <1>9, <1>10, UploadOf

LEMMA LeaveLinked == ASSUME TransferInv, NEW c \in Clients, Leave(c) PROVE Linked(c)'
<1>1. /\ TypeInv /\ Linked(c) /\ cst \in [Clients -> ClientStates] /\ cwant \in [Clients -> Nat]
      /\ up \in [Clients -> Seq(Messages)] /\ down \in [Clients -> Seq(Messages)]
      /\ cst' = [cst EXCEPT ![c] = "gone"] /\ down' = [down EXCEPT ![c] = <<>>]
      /\ UNCHANGED <<task, local, mixed>>
  BY DEF TransferInv, TypeInv, TypeOK, Leave
<1>2. PICK u \in Seq(Messages) : u = up[c]
  BY <1>1
<1>3. PICK k \in 0 .. Len(u) : up' = [up EXCEPT ![c] = SubSeq(@, 1, k)]
  BY <1>2 DEF Leave
<1>4. PICK t : t = SubSeq(u, 1, k)
  OBVIOUS
<1>5. cst'[c] = "gone" /\ up'[c] = t /\ down'[c] = <<>> /\ task'[c] = task[c]
  BY <1>1, <1>2, <1>3, <1>4
<1>6. t \in Seq(Messages) /\ Len(t) = k /\ Len(u) \in Nat
  BY <1>2, <1>4, FrontSeq, EmptyLen
<1>7. /\ \A s, m : m \in Nat /\ Follows(s, u, m) => Follows("gone", t, m)
      /\ \A s, m : m \in Nat /\ Sizes(s, u, m) =>
            t = <<>> \/ (Sizes("gone", t, m) /\ Head(t) = Head(u))
      /\ u = <<>> => t = <<>>
  <2>1. u = <<>> => t = <<>>
    BY <1>2, <1>6, EmptyLen
  <2>2. ASSUME NEW s, NEW m \in Nat, Follows(s, u, m) PROVE Follows("gone", t, m)
    BY <1>2, <1>3, <1>4, <2>2, FollowsCut
  <2>3. ASSUME NEW s, NEW m \in Nat, Sizes(s, u, m)
        PROVE  t = <<>> \/ (Sizes("gone", t, m) /\ Head(t) = Head(u))
    BY <1>2, <1>3, <1>4, <2>3, SizesCut
  <2> QED BY <2>1, <2>2, <2>3
<1>8. Missing(task[c].stat) \in Nat /\ Missing(task[c].total) \in Nat
  BY <1>1, ClientTypes, MissingType
<1>9. (\A m \in Nat : Follows("gone", <<>>, m)) /\ task[c].stage \in {"idle", "getsSize", "send", "putsSize", "recv", "record"}
  BY <1>1, ClientTypes, NothingSent DEF Task
<1>10. CASE task[c].stage = "idle"
  <2>1. Follows("gone", t, 0)
    BY <1>1, <1>2, <1>7, <1>9, <1>10 DEF Linked, IdleOK
  <2>2. IdleOK(c)'
    BY <1>5, <2>1 DEF IdleOK, Extras
  <2> QED BY <1>5, <1>10, <2>2 DEF Linked
<1>11. CASE task[c].stage = "getsSize"
  <2>1. PICK n \in Nat : n = task[c].stat
    BY <1>1, ClientTypes
  <2>2. CASE u = <<>>
    <3>1. GetsSizeOK(c)'
      BY <1>5, <1>7, <2>2 DEF GetsSizeOK
    <3> QED BY <1>5, <1>11, <3>1 DEF Linked
  <2>3. CASE u # <<>>
    <3>1. \/ u = <<Msg("size", Len(local[c]))>>
          \/ Sizes(cst[c], u, 0) /\ (Head(u).n >= n \/ Len(u) = 1)
      BY <1>1, <1>2, <1>11, <2>1, <2>3 DEF Linked, GetsSizeOK
    <3>2. t = <<>> \/ (Sizes("gone", t, 0) /\ (Head(t).n >= n \/ Len(t) = 1))
      <4>1. CASE u = <<Msg("size", Len(local[c]))>>
        <5>1. PICK l \in Nat : l = Len(local[c])
          BY <1>1, ClientTypes
        <5>2. Sizes("gone", u, 0) /\ Len(u) = 1
          BY <4>1, <5>1, SizeSent
        <5>3. t = <<>> \/ Sizes("gone", t, 0)
          BY <1>7, <5>2
        <5>4. t = <<>> \/ Len(t) = 1
          BY <1>6, <5>2, EmptyLen
        <5> QED BY <5>3, <5>4
      <4>2. CASE Sizes(cst[c], u, 0) /\ (Head(u).n >= n \/ Len(u) = 1)
        <5>1. t = <<>> \/ (Sizes("gone", t, 0) /\ Head(t) = Head(u))
          BY <1>7, <4>2
        <5>2. Len(u) = 1 => t = <<>> \/ Len(t) = 1
          BY <1>6, EmptyLen
        <5> QED BY <4>2, <5>1, <5>2
      <4> QED BY <3>1, <4>1, <4>2
    <3>3. GetsSizeOK(c)'
      BY <1>5, <2>1, <3>2 DEF GetsSizeOK
    <3> QED BY <1>5, <1>11, <3>3 DEF Linked
  <2> QED BY <2>2, <2>3
<1>12. CASE task[c].stage = "send"
  <2>1. SendOK(c)'
    BY <1>1, <1>2, <1>5, <1>7, <1>12 DEF Linked, SendOK
  <2> QED BY <1>5, <1>12, <2>1 DEF Linked
<1>13. CASE task[c].stage = "putsSize"
  <2>1. PICK m \in Nat : m = Missing(task[c].stat)
    BY <1>8
  <2>2. CASE u = <<>>
    <3>1. PutsSizeOK(c)'
      BY <1>1, <1>5, <1>7, <1>13, <2>2 DEF Linked, PutsSizeOK
    <3> QED BY <1>5, <1>13, <3>1 DEF Linked
  <2>3. CASE u # <<>>
    <3>1. task[c].total = task[c].stat /\ (u = <<Msg("size", Size)>> \/ (Sizes(cst[c], u, m) /\ Head(u).n = Size))
      BY <1>1, <1>2, <1>13, <2>1, <2>3 DEF Linked, PutsSizeOK
    <3>2. \E s : Sizes(s, u, m) /\ Head(u).n = Size
      <4>1. Sizes("gone", <<Msg("size", Size)>>, m) /\ Head(<<Msg("size", Size)>>).n = Size
        BY TransferConstants, SizeSent
      <4> QED BY <3>1, <4>1
    <3>3. t = <<>> \/ (Sizes("gone", t, m) /\ Head(t).n = Size)
      BY <1>7, <3>2
    <3>4. PutsSizeOK(c)'
      BY <1>5, <2>1, <3>1, <3>3 DEF PutsSizeOK, Missing
    <3> QED BY <1>5, <1>13, <3>4 DEF Linked
  <2> QED BY <2>2, <2>3
<1>14. CASE task[c].stage = "recv"
  <2>1. PICK m \in Nat : m = Missing(task[c].total)
    BY <1>8
  <2>2. Follows("gone", t, m) /\ task[c].want = Size /\ task[c].total < Size
    BY <1>1, <1>2, <1>7, <1>9, <1>14, <2>1 DEF Linked, RecvOK
  <2>3. RecvOK(c)'
    BY <1>5, <2>1, <2>2 DEF RecvOK, Missing
  <2> QED BY <1>5, <1>14, <2>3 DEF Linked
<1>15. CASE task[c].stage = "record"
  <2>1. RecordOK(c)'
    BY <1>1, <1>2, <1>5, <1>7, <1>15 DEF Linked, RecordOK
  <2> QED BY <1>5, <1>15, <2>1 DEF Linked
<1> QED BY <1>9, <1>10, <1>11, <1>12, <1>13, <1>14, <1>15

LEMMA ReturnLinked == ASSUME TransferInv, NEW c \in Clients, Return(c) PROVE Linked(c)'
<1>1. /\ cst \in [Clients -> ClientStates] /\ task[c].stage = "idle"
      /\ up \in [Clients -> Seq(Messages)] /\ down \in [Clients -> Seq(Messages)]
      /\ cst' = [cst EXCEPT ![c] = "prompt"] /\ UNCHANGED task
      /\ up' = [up EXCEPT ![c] = <<>>] /\ down' = [down EXCEPT ![c] = <<>>]
  BY DEF TransferInv, TypeInv, TypeOK, Return, Idle
<1>2. cst'[c] = "prompt" /\ up'[c] = <<>> /\ down'[c] = <<>> /\ task'[c].stage = "idle"
  BY <1>1
<1>3. IdleOK(c)'
  BY <1>2, NothingSent DEF IdleOK, Extras
<1> QED BY <1>2, <1>3 DEF Linked

----------------------------------------------------------------------------
(* The workers keep to the protocol *)

\* A command arrives at an idle connection with nothing behind it.
LEMMA CommandOf ==
    ASSUME TypeInv, NEW c \in Clients, Linked(c), Idle(c), NEW op \in {"gets", "puts"}, Arrived(c, op)
    PROVE  Tail(up[c]) = <<>> /\ cst[c] \in {op, "gone"} /\ Extras(down[c])
<1>1. up[c] \in Seq(Messages) /\ up[c] # <<>> /\ Head(up[c]).type = op /\ task[c].stage = "idle"
  BY ClientTypes DEF Arrived, Idle
<1>2. Follows(cst[c], up[c], 0) /\ Extras(down[c])
  BY <1>1 DEF Linked, IdleOK
<1>3. /\ up[c] = <<>> \/ Tail(up[c]) = <<>>
      /\ cst[c] = "prompt" => up[c] = <<>>
      /\ cst[c] \in {"gets", "puts"} => Head(up[c]).type \in {cst[c], "tail"}
  BY <1>1, <1>2, FollowsNone
<1>4. cst[c] \in {"prompt", "gets", "puts", "gone"}
  BY <1>2 DEF Follows
<1> QED BY <1>1, <1>2, <1>3, <1>4

\* The reply is the last thing on the way, unless the client has left.
LEMMA Replied ==
    ASSUME TypeInv, NEW c \in Clients, Extras(down[c]), mixed => mixed',
           NEW type \in {"gets", "puts", "size", "byte", "tail", "header", "refused"}, NEW n \in Nat,
           Reply(c, <<Msg(type, n)>>)
    PROVE  /\ cst[c] = "gone" => down'[c] = down[c]
           /\ cst[c] # "gone" => Answers(down[c], type, n)'
<1>1. down \in [Clients -> Seq(Messages)] /\ down[c] \in Seq(Messages)
  BY DEF TypeInv, TypeOK
<1>2. CASE cst[c] = "gone"
  BY <1>2 DEF Reply
<1>3. CASE cst[c] # "gone"
  <2>1. PICK v : v = down[c] \o <<Msg(type, n)>>
    OBVIOUS
  <2>2. down'[c] = v
    BY <1>1, <1>3, <2>1 DEF Reply
  <2>3. Answers(v, type, n)
    BY <1>1, <2>1, ExtrasAdd
  <2>4. Answers(down[c], type, n)'
    BY <2>2, <2>3 DEF Answers
  <2> QED BY <1>3, <2>4
<1> QED BY <1>2, <1>3

LEMMA StartGetsLinked ==
    ASSUME TransferInv, NEW c \in Clients, StartGets(c) PROVE Linked(c)' /\ (mixed => mixed')
<1>1. /\ TypeInv /\ Linked(c) /\ Idle(c) /\ Arrived(c, "gets") /\ up \in [Clients -> Seq(Messages)]
      /\ task \in [Clients -> Task] /\ up' = [up EXCEPT ![c] = Tail(@)] /\ UNCHANGED <<cst, local, cwant, disk>>
  BY DEF TransferInv, TypeInv, TypeOK, StartGets, Take, clientVars, storeVars
<1>2. Tail(up[c]) = <<>> /\ cst[c] \in {"gets", "gone"} /\ Extras(down[c])
  BY <1>1, CommandOf
<1>3. up'[c] = <<>> /\ cst'[c] = cst[c] /\ (cst[c] = "gone" => down[c] = <<>>)
  BY <1>1, <1>2 DEF Linked
<1>4. mixed => mixed'
  BY DEF StartGets
<1>5. PICK n \in Nat : n = Len(disk)
  BY <1>1, ClientTypes
<1>6. CASE Owned(c)
  <2>1. Reply(c, <<Msg("header", n)>>)
    BY <1>5, <1>6 DEF StartGets
  <2>2. task' = [task EXCEPT ![c] = [NoTask EXCEPT !.stage = "getsSize", !.stat = n]]
    BY <1>5, <1>6 DEF StartGets, Begin
  <2>3. task'[c].stage = "getsSize" /\ task'[c].stat = n
    BY <1>1, <2>2 DEF NoTask
  <2>4. /\ cst[c] = "gone" => down'[c] = down[c]
        /\ cst[c] # "gone" => Answers(down[c], "header", n)'
    BY <1>1, <1>2, <1>4, <2>1, Replied
  <2>5. Answers(down[c], "header", n)' => Answers(down[c], "header", task[c].stat)'
    BY <2>3 DEF Answers
  <2>6. GetsSizeOK(c)'
    BY <1>2, <1>3, <2>3, <2>4, <2>5 DEF GetsSizeOK
  <2> QED BY <1>3, <1>4, <2>3, <2>4, <2>6 DEF Linked
<1>7. CASE ~Owned(c)
  <2>1. Reply(c, <<Msg("refused", 0)>>) /\ task'[c].stage = "idle"
    BY <1>1, <1>7 DEF StartGets, Idle
  <2>2. /\ cst[c] = "gone" => down'[c] = down[c]
        /\ cst[c] # "gone" => Answers(down[c], "refused", 0)'
    BY <1>1, <1>2, <1>4, <2>1, Replied
  <2>3. IdleOK(c)'
    <3>1. CASE cst[c] = "gone"
      <4>1. Follows("gone", <<>>, 0)
        BY NothingSent
      <4> QED BY <1>3, <2>2, <3>1, <4>1 DEF IdleOK, Extras
    <3>2. CASE cst[c] # "gone"
      BY <1>2, <1>3, <2>2, <3>2 DEF IdleOK
    <3> QED BY <3>1, <3>2
  <2> QED BY <1>3, <1>4, <2>1, <2>2, <2>3 DEF Linked
<1> QED BY <1>6, <1>7

LEMMA StartPutsLinked ==
    ASSUME TransferInv, NEW c \in Clients, StartPuts(c) PROVE Linked(c)' /\ (mixed => mixed')
<1>1. /\ TypeInv /\ Linked(c) /\ Idle(c) /\ Arrived(c, "puts") /\ up \in [Clients -> Seq(Messages)]
      /\ task \in [Clients -> Task] /\ up' = [up EXCEPT ![c] = Tail(@)] /\ UNCHANGED <<cst, local, cwant>>
  BY DEF TransferInv, TypeInv, TypeOK, StartPuts, Take, clientVars
<1>2. Tail(up[c]) = <<>> /\ cst[c] \in {"puts", "gone"} /\ Extras(down[c])
  BY <1>1, CommandOf
<1>3. up'[c] = <<>> /\ cst'[c] = cst[c] /\ (cst[c] = "gone" => down[c] = <<>>)
  BY <1>1, <1>2 DEF Linked
<1>4. mixed => mixed'
  BY DEF StartPuts
<1>5. PICK n \in Nat : n = Len(disk)
  BY <1>1, ClientTypes
<1>6. CASE ~Owned(c)
  <2>1. Reply(c, <<Msg("header", n)>>)
    BY <1>5, <1>6 DEF StartPuts
  <2>2. task' = [task EXCEPT ![c] = [NoTask EXCEPT !.stage = "putsSize", !.stat = n,
                                                  !.total = n, !.appends = exists]]
    BY <1>5, <1>6 DEF StartPuts, Begin
  <2>3. task'[c].stage = "putsSize" /\ task'[c].stat = n /\ task'[c].total = n
    BY <1>1, <2>2 DEF NoTask
  <2>4. /\ cst[c] = "gone" => down'[c] = down[c]
        /\ cst[c] # "gone" => Answers(down[c], "header", n)'
    BY <1>1, <1>2, <1>4, <2>1, Replied
  <2>5. Answers(down[c], "header", n)' => Answers(down[c], "header", task[c].stat)'
    BY <2>3 DEF Answers
  <2>6. PutsSizeOK(c)'
    BY <1>2, <1>3, <2>3, <2>4, <2>5 DEF PutsSizeOK
  <2> QED BY <1>3, <1>4, <2>3, <2>4, <2>6 DEF Linked
<1>7. CASE Owned(c)
  <2>1. Reply(c, <<Msg("refused", 0)>>) /\ task'[c].stage = "idle"
    BY <1>1, <1>7 DEF StartPuts, Idle
  <2>2. /\ cst[c] = "gone" => down'[c] = down[c]
        /\ cst[c] # "gone" => Answers(down[c], "refused", 0)'
    BY <1>1, <1>2, <1>4, <2>1, Replied
  <2>3. IdleOK(c)'
    <3>1. CASE cst[c] = "gone"
      <4>1. Follows("gone", <<>>, 0)
        BY NothingSent
      <4> QED BY <1>3, <2>2, <3>1, <4>1 DEF IdleOK, Extras
    <3>2. CASE cst[c] # "gone"
      BY <1>2, <1>3, <2>2, <3>2 DEF IdleOK
    <3> QED BY <3>1, <3>2
  <2> QED BY <1>3, <1>4, <2>1, <2>2, <2>3 DEF Linked
<1> QED BY <1>6, <1>7

\* A task of a client that left ends, and nothing is on the way.
LEMMA EndedLinked ==
    ASSUME NEW c \in Clients, cst'[c] = "gone", up'[c] = <<>>, down'[c] = <<>>, task'[c] = NoTask
    PROVE  Linked(c)'
<1>1. IdleOK(c)'
  BY NothingSent DEF IdleOK, Extras
<1>2. task'[c].stage = "idle"
  BY DEF NoTask
<1> QED BY <1>1, <1>2 DEF Linked

LEMMA GetsSizeLinked == ASSUME TransferInv, NEW c \in Clients, GetsSize(c) PROVE Linked(c)'
<1>1. /\ TypeInv /\ Linked(c) /\ task[c].stage = "getsSize" /\ up[c] # <<>> /\ Head(up[c]).type = "size"
      /\ up \in [Clients -> Seq(Messages)] /\ task \in [Clients -> Task]
      /\ up' = [up EXCEPT ![c] = Tail(@)] /\ UNCHANGED <<cst, local, cwant, down, mixed>>
  BY DEF TransferInv, TypeInv, TypeOK, GetsSize, Arrived, Take, clientVars
<1>2. PICK n : n = Head(up[c]).n
  OBVIOUS
<1>3. PICK t \in Task : t = task[c]
  BY <1>1
<1>4. task' = [task EXCEPT ![c] = IF t.stat <= n THEN NoTask ELSE [t EXCEPT !.stage = "send", !.want = n]]
  BY <1>2, <1>3 DEF GetsSize, Begin, End
<1>5. up'[c] = Tail(up[c]) /\ cst'[c] = cst[c] /\ down'[c] = down[c] /\ local'[c] = local[c] /\ cwant'[c] = cwant[c]
  BY <1>1
<1>6. CASE /\ cst[c] = "download" /\ up[c] = <<Msg("size", Len(local[c]))>> /\ down[c] = <<>>
           /\ Len(local[c]) < t.stat /\ cwant[c] = t.stat
  <2>1. PICK l \in Nat : l = Len(local[c])
    BY <1>1, ClientTypes
  <2>2. n = l /\ up'[c] = <<>>
    BY <1>2, <1>5, <1>6, <2>1, SizeSent
  <2>3. ~(t.stat <= n)
    BY <1>3, <1>6, <2>1, <2>2 DEF Task
  <2>4. task'[c] = [t EXCEPT !.stage = "send", !.want = n]
    BY <1>1, <1>4, <2>3
  <2>5. task'[c].stage = "send" /\ task'[c].want = n /\ task'[c].stat = t.stat
    BY <1>3, <2>4 DEF Task
  <2>6. SendOK(c)'
    BY <1>5, <1>6, <2>1, <2>2, <2>5 DEF SendOK
  <2> QED BY <1>5, <1>6, <2>5, <2>6 DEF Linked
<1>7. CASE /\ Sizes(cst[c], up[c], 0) /\ down[c] = <<>>
           /\ n >= t.stat \/ (Len(up[c]) = 1 /\ cst[c] = "gone")
  <2>1. Follows(cst[c], Tail(up[c]), 0)
    BY <1>7 DEF Sizes
  <2>2. CASE t.stat <= n
    <3>1. task'[c].stage = "idle"
      BY <1>1, <1>4, <2>2 DEF NoTask
    <3>2. IdleOK(c)'
      BY <1>5, <1>7, <2>1 DEF IdleOK, Extras
    <3> QED BY <1>5, <1>7, <3>1, <3>2 DEF Linked
  <2>3. CASE ~(t.stat <= n)
    <3>1. task'[c] = [t EXCEPT !.stage = "send", !.want = n]
      BY <1>1, <1>4, <2>3
    <3>2. task'[c].stage = "send"
      BY <1>3, <3>1 DEF Task
    <3>3. ~(n >= t.stat)
      BY <2>3
    <3>4. cst[c] = "gone" /\ Tail(up[c]) = <<>>
      <4>1. PICK u \in Seq(Messages) : u = up[c]
        BY <1>1
      <4>2. Tail(u) \in Seq(Messages) /\ Len(Tail(u)) = 0
        BY <1>1, <1>7, <3>3, <4>1
      <4> QED BY <1>7, <3>3, <4>1, <4>2, EmptyLen
    <3>5. SendOK(c)'
      BY <1>5, <3>4 DEF SendOK
    <3> QED BY <1>5, <1>7, <3>2, <3>5 DEF Linked
  <2> QED BY <2>2, <2>3
<1> QED BY <1>1, <1>2, <1>3, <1>6, <1>7 DEF Linked, GetsSizeOK

LEMMA PartSeq ==
    ASSUME NEW S, NEW s \in Seq(S), NEW m \in Nat \ {0}, NEW n \in 0 .. Len(s)
    PROVE  /\ SubSeq(s, m, n) \in Seq(S) /\ Len(SubSeq(s, m, n)) = IF m <= n THEN n - m + 1 ELSE 0
           /\ m <= n => \A i \in 1 .. n - m + 1 : SubSeq(s, m, n)[i] = s[m - 1 + i]
  OBVIOUS

\* What sendfile sends to a client: what follows its offset, if that is not less than
\* the size of the file.
Part(s, w, n) == SubSeq(s, w + 1, Least(w + n, Len(s)))
Body(s, w, n) == Bytes(Part(s, w, n))

LEMMA BytesOf ==
    ASSUME NEW r \in Seq(Nat)
    PROVE  \A j \in 1 .. Len(r) : Bytes(r)[j].type = "byte" /\ Bytes(r)[j].n = r[j]
<1>1. ASSUME NEW j \in 1 .. Len(r) PROVE Bytes(r)[j].type = "byte" /\ Bytes(r)[j].n = r[j]
  <2>1. Bytes(r)[j] = Msg("byte", r[j]) /\ r[j] \in Nat
    BY BytesSeq
  <2> QED BY <2>1, MsgType
<1> QED BY <1>1

LEMMA PartOf ==
    ASSUME NEW s \in Seq(Nat), NEW w \in Nat, NEW n \in Nat
    PROVE  /\ Part(s, w, n) \in Seq(Nat)
           /\ n = Len(s) /\ w < n => Len(Part(s, w, n)) = n - w /\ \A j \in 1 .. n - w : Part(s, w, n)[j] = s[w + j]
<1>1. PICK m \in Nat \ {0}, last \in {Least(w + n, Len(s))} : m = w + 1
  OBVIOUS
<1>2. Len(s) \in Nat
  BY EmptyLen
<1>3. last \in 0 .. Len(s) /\ (n = Len(s) => last = n)
  BY <1>1, <1>2 DEF Least
<1>4. PICK r : r = SubSeq(s, m, last)
  OBVIOUS
<1>5. /\ r \in Seq(Nat) /\ Len(r) = IF m <= last THEN last - m + 1 ELSE 0
      /\ m <= last => \A i \in 1 .. last - m + 1 : r[i] = s[m - 1 + i]
  BY <1>3, <1>4, PartSeq
<1>6. ASSUME n = Len(s), w < n PROVE Len(r) = n - w /\ \A i \in 1 .. n - w : r[i] = s[w + i]
  <2>1. last = n /\ m <= last
    BY <1>1, <1>2, <1>3, <1>6
  <2>2. last - m + 1 = n - w
    BY <1>1, <2>1
  <2>3. \A i \in 1 .. n - w : m - 1 + i = w + i
    BY <1>1
  <2> QED BY <1>5, <2>1, <2>2, <2>3
<1>7. r = Part(s, w, n)
  BY <1>1, <1>4 DEF Part
<1> QED BY <1>5, <1>6, <1>7

LEMMA BodySeq ==
    ASSUME NEW s \in Seq(Nat), NEW w \in Nat, NEW n \in Nat
    PROVE  /\ Body(s, w, n) \in Seq(Messages)
           /\ \A j \in 1 .. Len(Body(s, w, n)) : Body(s, w, n)[j].type = "byte"
           /\ n = Len(s) /\ w < n => Len(Body(s, w, n)) = n - w /\ \A j \in 1 .. n - w : Body(s, w, n)[j].n = s[w + j]
<1>1. PICK r \in Seq(Nat) : r = Part(s, w, n)
  BY PartOf
<1>2. n = Len(s) /\ w < n => Len(r) = n - w /\ \A j \in 1 .. n - w : r[j] = s[w + j]
  BY <1>1, PartOf
<1>3. PICK b : b = Bytes(r) /\ b = Body(s, w, n)
  BY <1>1 DEF Body
<1>4. b \in Seq(Messages) /\ Len(b) = Len(r)
  BY <1>1, <1>3, BytesSeq
<1>5. \A j \in 1 .. Len(r) : b[j].type = "byte" /\ b[j].n = r[j]
  BY <1>1, <1>3, BytesOf
<1> QED BY <1>2, <1>3, <1>4, <1>5

LEMMA SendBodyLinked == ASSUME TransferInv, NEW c \in Clients, SendBody(c) PROVE Linked(c)'
<1>1. /\ TypeInv /\ Linked(c) /\ task[c].stage = "send" /\ SendOK(c) /\ (mixed \/ Apart)
      /\ down \in [Clients -> Seq(Messages)] /\ task \in [Clients -> Task]
      /\ UNCHANGED <<cst, local, cwant, up, mixed>>
  BY DEF TransferInv, TypeInv, TypeOK, SendBody, SendBytes, Linked, clientVars
<1>2. PICK w \in Nat, n \in Nat, s \in Seq(Nat) : w = task[c].want /\ n = task[c].stat /\ s = disk
  BY <1>1, ClientTypes
<1>3. PICK b : b = Body(s, w, n)
  OBVIOUS
<1>4. Reply(c, b)
  BY <1>2, <1>3 DEF SendBody, SendBytes, Body, Part
<1>5. task' = [task EXCEPT ![c] = NoTask]
  BY DEF SendBody, SendBytes, End
<1>6. task'[c] = NoTask /\ cst'[c] = cst[c] /\ up'[c] = <<>> /\ local'[c] = local[c] /\ cwant'[c] = cwant[c]
  BY <1>1, <1>5 DEF SendOK
<1>7. CASE cst[c] = "gone"
  <2>1. down'[c] = <<>>
    BY <1>1, <1>4, <1>7 DEF Linked, Reply
  <2> QED BY <1>6, <1>7, <2>1, EndedLinked
<1>8. CASE cst[c] # "gone"
  <2>1. cst[c] = "download" /\ down[c] = <<>> /\ w = Len(local[c]) /\ w < n /\ cwant[c] = n
    BY <1>1, <1>2, <1>8 DEF SendOK
  <2>2. b \in Seq(Messages) /\ \A j \in 1 .. Len(b) : b[j].type = "byte"
    <3>1. b \in Seq(Messages)
      BY <1>2, <1>3, BodySeq
    <3>2. \A j \in 1 .. Len(Body(s, w, n)) : Body(s, w, n)[j].type = "byte"
      BY <1>2, BodySeq
    <3> QED BY <1>3, <3>1, <3>2
  <2>3. down'[c] = b
    <3>1. down' = [down EXCEPT ![c] = @ \o b]
      BY <1>4, <1>8 DEF Reply
    <3>2. <<>> \o b = b
      BY <2>2
    <3> QED BY <1>1, <2>1, <3>1, <3>2
  <2>4. mixed \/ w + Len(b) = n
    <3>1. ASSUME Apart PROVE w + Len(b) = n
      <4>1. n = Len(s)
        BY <1>1, <1>2, <3>1 DEF Apart, OneWriter
      <4>2. Len(b) = n - w
        BY <1>2, <1>3, <2>1, <4>1, BodySeq
      <4> QED BY <1>2, <4>2
    <3> QED BY <1>1, <3>1
  <2>5. IdleOK(c)'
    BY <1>1, <1>6, <2>1, <2>2, <2>3, <2>4 DEF IdleOK
  <2>6. task'[c].stage = "idle"
    BY <1>6 DEF NoTask
  <2> QED BY <1>6, <1>8, <2>5, <2>6 DEF Linked
<1> QED BY <1>7, <1>8

LEMMA KilledLinked == ASSUME NEW c \in Clients, Killed(c) PROVE \A d \in Clients : Linked(d)'
<1>1. ASSUME NEW d \in Clients
      PROVE  cst'[d] = "gone" /\ up'[d] = <<>> /\ down'[d] = <<>> /\ task'[d] = NoTask
  BY DEF Killed
<1> QED BY <1>1, EndedLinked

LEMMA GetsBrokenLinked == ASSUME TransferInv, NEW c \in Clients, GetsBroken(c) PROVE Linked(c)'
<1>1. /\ Linked(c) /\ up[c] = <<>> /\ cst[c] = "gone" /\ task \in [Clients -> Task]
      /\ task' = [task EXCEPT ![c] = NoTask] /\ UNCHANGED <<cst, up, down>>
  BY DEF TransferInv, TypeInv, TypeOK, GetsBroken, AtEof, End, clientVars
<1>2. cst'[c] = "gone" /\ up'[c] = <<>> /\ down'[c] = <<>> /\ task'[c] = NoTask
  BY <1>1 DEF Linked
<1> QED BY <1>2, EndedLinked

LEMMA PutsSizeLinked == ASSUME TransferInv, NEW c \in Clients, PutsSize(c) PROVE Linked(c)'
<1>1. /\ TypeInv /\ Linked(c) /\ task[c].stage = "putsSize" /\ up[c] # <<>> /\ PutsSizeOK(c)
      /\ up \in [Clients -> Seq(Messages)] /\ task \in [Clients -> Task]
      /\ up' = [up EXCEPT ![c] = Tail(@)] /\ UNCHANGED <<cst, local, cwant, down, mixed>>
  BY DEF TransferInv, TypeInv, TypeOK, PutsSize, Arrived, Take, Linked, clientVars
<1>2. PICK n : n = Head(up[c]).n
  OBVIOUS
<1>3. PICK t \in Task, a \in Nat : t = task[c] /\ a = t.stat /\ a = t.total
  BY <1>1, ClientTypes DEF PutsSizeOK
<1>4. task' = [task EXCEPT ![c] = [t EXCEPT !.stage = IF a >= n THEN "record" ELSE "recv", !.want = n]]
  BY <1>2, <1>3 DEF PutsSize, Begin
<1>5. up'[c] = Tail(up[c]) /\ cst'[c] = cst[c] /\ down'[c] = down[c] /\ cwant'[c] = cwant[c]
  BY <1>1
<1>6. /\ task'[c].stage = IF a >= n THEN "record" ELSE "recv"
      /\ task'[c].want = n /\ task'[c].stat = a /\ task'[c].total = a
  BY <1>1, <1>3, <1>4 DEF Task
<1>7. CASE /\ cst[c] = "upload" /\ up[c] = <<Msg("size", Size)>> /\ down[c] = <<>>
           /\ a < Size /\ cwant[c] = a
  <2>1. n = Size /\ up'[c] = <<>> /\ ~(a >= n)
    <3>1. Size \in Nat
      BY TransferConstants
    <3>2. Head(<<Msg("size", Size)>>).n = Size /\ Tail(<<Msg("size", Size)>>) = <<>>
      BY <3>1, SizeSent
    <3> QED BY <1>2, <1>3, <1>5, <1>7, <3>1, <3>2
  <2>2. RecvOK(c)'
    BY <1>5, <1>6, <1>7, <2>1 DEF RecvOK
  <2> QED BY <1>5, <1>6, <1>7, <2>1, <2>2 DEF Linked
<1>8. CASE Sizes(cst[c], up[c], Missing(a)) /\ down[c] = <<>> /\ n = Size
  <2>1. Follows(cst'[c], up'[c], Missing(a))
    BY <1>5, <1>8 DEF Sizes
  <2>2. CASE a >= n
    <3>1. Missing(a) = 0
      BY <1>3, <1>8, <2>2, MissingType
    <3>2. RecordOK(c)'
      BY <1>5, <1>6, <1>8, <2>1, <2>2, <3>1 DEF RecordOK
    <3> QED BY <1>5, <1>6, <1>8, <2>2, <3>2 DEF Linked
  <2>3. CASE ~(a >= n)
    <3>1. a < Size
      BY <1>3, <1>8, <2>3, TransferConstants
    <3>2. RecvOK(c)'
      BY <1>5, <1>6, <1>8, <2>1, <3>1 DEF RecvOK, Missing
    <3> QED BY <1>5, <1>6, <1>8, <2>3, <3>2 DEF Linked
  <2> QED BY <2>2, <2>3
<1> QED BY <1>1, <1>2, <1>3, <1>7, <1>8 DEF PutsSizeOK

\* What one recv has taken is the content from the number of bytes on that were there.
LEMMA RecvOf ==
    ASSUME TransferInv, NEW c \in Clients, NEW k \in 1 .. Least(Chunk, Len(up[c])), Recv(c, k)
    PROVE  /\ task[c].stage = "recv" /\ task[c].want = Size /\ task[c].total < Size /\ down[c] = <<>>
           /\ k \in 1 .. Len(up[c]) /\ k <= Missing(task[c].total) + 1
           /\ up'[c] = Left(up[c], k) /\ Left(up[c], k) \in Seq(Messages)
           /\ Follows(cst[c], Left(up[c], k), Missing(task[c].total + k))
           /\ \A i \in 1 .. k : i <= Size - task[c].total => up[c][i] = Msg("byte", task[c].total + i)
<1>1. /\ TypeInv /\ Linked(c) /\ up \in [Clients -> Seq(Messages)] /\ task[c].stage = "recv" /\ RecvOK(c)
      /\ Received(c, k)
  BY DEF TransferInv, TypeInv, TypeOK, Recv, Linked
<1>2. PICK u \in Seq(Messages), b \in Nat, s \in ClientStates : u = up[c] /\ b = task[c].total /\ s = cst[c]
  BY <1>1, ClientTypes
<1>3. task[c].want = Size /\ b < Size /\ down[c] = <<>>
  BY <1>1, <1>2 DEF RecvOK
<1>4. k \in 1 .. Len(u) /\ Len(u) \in Nat /\ u # <<>>
  BY <1>2, EmptyLen, TransferConstants DEF Least
<1>5. PICK m \in 1 .. Size : m = Missing(b) /\ m = Size - b
  BY <1>2, <1>3, MissingType
<1>6. Follows(s, u, m)
  BY <1>1, <1>2, <1>4, <1>5 DEF RecvOK
<1>7. \A i \in 1 .. k - 1 : u[i].type = "byte"
  BY <1>1, <1>2 DEF Received
<1>8. PICK t : t = Left(u, k)
  OBVIOUS
<1>9. up'[c] = t
  BY <1>1, <1>2, <1>8 DEF Received, Left
<1>10. /\ t \in Seq(Messages) /\ Follows(s, t, IF k < m THEN m - k ELSE 0) /\ k <= m + 1
       /\ \A i \in 1 .. k : i <= m => u[i] = Msg("byte", (Size - m) + i)
  BY <1>2, <1>4, <1>5, <1>6, <1>7, <1>8, FollowsTake
<1>11. (IF k < m THEN m - k ELSE 0) = Missing(b + k)
  <2>1. PICK z \in Nat : z = Size /\ m \in 1 .. z /\ m = z - b /\ k \in Nat
    BY <1>3, <1>4, <1>5, TransferConstants
  <2>2. (IF k < m THEN m - k ELSE 0) = IF b + k < z THEN z - (b + k) ELSE 0
    BY <1>2, <2>1
  <2> QED BY <2>1, <2>2 DEF Missing
<1>12. Size - m = b /\ Size - b = m
  BY <1>2, <1>3, <1>5, TransferConstants
<1> QED BY <1>1, <1>2, <1>3, <1>4, <1>5, <1>8, <1>9, <1>10, <1>11, <1>12

LEMMA RecvBodyLinked == ASSUME TransferInv, NEW c \in Clients, RecvBody(c) PROVE Linked(c)'
<1>1. PICK k \in 1 .. Least(Chunk, Len(up[c])) : Recv(c, k)
  BY DEF RecvBody
<1>2. TypeInv /\ task \in [Clients -> Task] /\ UNCHANGED <<cst, local, cwant, down, mixed>>
  BY <1>1 DEF TransferInv, TypeInv, TypeOK, Recv, clientVars
<1>3. PICK t \in Task, b \in Nat : t = task[c] /\ b = t.total
  BY <1>2, ClientTypes
<1>4. PICK n \in Nat : n = b + k
  BY <1>3, <1>1
<1>5. t.want = Size /\ down[c] = <<>> /\ Follows(cst[c], up'[c], Missing(n))
  BY <1>1, <1>3, <1>4, RecvOf
<1>6. task' = [task EXCEPT ![c] = [t EXCEPT !.total = n, !.stage = IF n >= Size THEN "record" ELSE "recv"]]
  BY <1>1, <1>3, <1>4, <1>5 DEF Recv, Begin
<1>7. /\ task'[c].stage = IF n >= Size THEN "record" ELSE "recv"
      /\ task'[c].want = Size /\ task'[c].total = n /\ cst'[c] = cst[c] /\ down'[c] = <<>>
  BY <1>2, <1>3, <1>5, <1>6 DEF Task
<1>8. CASE n >= Size
  <2>1. Missing(n) = 0
    BY <1>4, <1>8, MissingType
  <2>2. RecordOK(c)'
    BY <1>5, <1>7, <1>8, <2>1 DEF RecordOK
  <2> QED BY <1>7, <1>8, <2>2 DEF Linked
<1>9. CASE ~(n >= Size)
  <2>1. n < Size
    BY <1>4, <1>9, TransferConstants
  <2>2. RecvOK(c)'
    BY <1>5, <1>7, <2>1 DEF RecvOK, Missing
  <2> QED BY <1>7, <1>9, <2>2 DEF Linked
<1> QED BY <1>8, <1>9

LEMMA RecordLinked ==
    ASSUME TransferInv, NEW c \in Clients, Record(c) \/ RecordBroken(c) PROVE Linked(c)'
<1>1. /\ Linked(c) /\ task \in [Clients -> Task] /\ task' = [task EXCEPT ![c] = NoTask]
      /\ UNCHANGED <<cst, up, down, mixed>>
  BY DEF TransferInv, TypeInv, TypeOK, Record, RecordBroken, Insert, End, clientVars
<1>2. task'[c] = NoTask /\ task'[c].stage = "idle" /\ cst'[c] = cst[c] /\ up'[c] = up[c] /\ down'[c] = down[c]
  BY <1>1 DEF NoTask
<1>3. CASE Record(c)
  <2>1. Follows(cst[c], up[c], 0) /\ down[c] = <<>>
    BY <1>1, <1>3 DEF Record, Linked, RecordOK
  <2>2. IdleOK(c)'
    BY <1>2, <2>1 DEF IdleOK, Extras
  <2> QED BY <1>2, <2>1, <2>2 DEF Linked
<1>4. CASE RecordBroken(c)
  <2>1. up[c] = <<>> /\ cst[c] = "gone" /\ down[c] = <<>>
    BY <1>1, <1>4 DEF RecordBroken, AtEof, Linked
  <2> QED BY <1>2, <2>1, EndedLinked
<1> QED BY <1>3, <1>4

\* Every step keeps what a client and its task assume of each other.
LEMMA LinkedNext == ASSUME TransferInv, Next PROVE (\A c \in Clients : Linked(c)') /\ (mixed => mixed')
<1>1. PICK c \in Clients : Command(c) \/ ClientStep(c) \/ Leave(c) \/ Return(c) \/ WorkerStep(c)
  BY DEF Next
<1>2. /\ cst \in [Clients -> ClientStates] /\ up \in [Clients -> Seq(Messages)] /\ down \in [Clients -> Seq(Messages)]
      /\ task \in [Clients -> Task] /\ local \in [Clients -> Seq(Nat)] /\ cwant \in [Clients -> Nat]
  BY DEF TransferInv, TypeInv, TypeOK
<1>3. CASE Command(c) \/ ClientStep(c) \/ Leave(c) \/ Return(c)
  <2>1. UNCHANGED mixed
    BY <1>3 DEF Command, ClientStep, Refused, AskRest, Download, DownloadTo, OfferRest, Upload, UploadFrom, Leave, Return
  <2>2. Linked(c)'
    BY <1>3, CommandLinked, RefusedLinked, AskRestLinked, DownloadLinked, OfferRestLinked, UploadLinked,
       LeaveLinked, ReturnLinked DEF ClientStep
  <2>3. ASSUME NEW d \in Clients \ {c} PROVE Same(d)
    <3>1. CASE Command(c)
      BY <1>2, <3>1 DEF Command, Send, Same
    <3>2. CASE Refused(c)
      BY <1>2, <3>2 DEF Refused, Receive, Same
    <3>3. CASE AskRest(c)
      BY <1>2, <3>3 DEF AskRest, Receive, Send, Continue, Same
    <3>4. CASE Download(c)
      BY <1>2, <3>4 DEF Download, DownloadTo, Continue, Same
    <3>5. CASE OfferRest(c)
      BY <1>2, <3>5 DEF OfferRest, Receive, Send, Continue, Same
    <3>6. CASE Upload(c)
      BY <1>2, <3>6 DEF Upload, UploadFrom, Send, Continue, Same
    <3>7. CASE Leave(c)
      BY <1>2, <3>7 DEF Leave, Same
    <3>8. CASE Return(c)
      BY <1>2, <3>8 DEF Return, Same
    <3> QED BY <1>3, <3>1, <3>2, <3>3, <3>4, <3>5, <3>6, <3>7, <3>8 DEF ClientStep
  <2> QED BY <2>1, <2>2, <2>3, OneLinked
<1>4. CASE Killed(c)
  BY <1>4, KilledLinked DEF Killed
<1>5. CASE WorkerStep(c) /\ ~Killed(c)
  <2>1. mixed => mixed'
    BY <1>5, StartGetsLinked, StartPutsLinked
       DEF WorkerStep, DoTaskGets, DoTaskPuts, GetsSize, SendBody, SendBytes, GetsBroken, PutsSize, RecvBody, Recv,
           Record, RecordBroken, Insert
  <2>2. Linked(c)'
    BY <1>5, StartGetsLinked, GetsSizeLinked, SendBodyLinked, GetsBrokenLinked, StartPutsLinked, PutsSizeLinked,
       RecvBodyLinked, RecordLinked DEF WorkerStep, DoTaskGets, DoTaskPuts
  <2>3. ASSUME NEW d \in Clients \ {c} PROVE Same(d)
    <3>1. CASE StartGets(c)
      BY <1>2, <3>1 DEF StartGets, Take, Begin, Reply, Same, clientVars
    <3>2. CASE GetsSize(c)
      BY <1>2, <3>2 DEF GetsSize, Take, Begin, End, Same, clientVars
    <3>3. CASE SendBody(c)
      BY <1>2, <3>3 DEF SendBody, SendBytes, Reply, End, Same, clientVars
    <3>4. CASE GetsBroken(c)
      BY <1>2, <3>4 DEF GetsBroken, End, Same, clientVars
    <3>5. CASE StartPuts(c)
      BY <1>2, <3>5 DEF StartPuts, Take, Begin, Reply, Same, clientVars
    <3>6. CASE PutsSize(c)
      BY <1>2, <3>6 DEF PutsSize, Take, Begin, Same, clientVars
    <3>7. CASE RecvBody(c)
      BY <1>2, <3>7 DEF RecvBody, Recv, Received, Begin, Same, clientVars
    <3>8. CASE Record(c) \/ RecordBroken(c)
      BY <1>2, <3>8 DEF Record, RecordBroken, Insert, End, Same, clientVars
    <3> QED BY <1>5, <3>1, <3>2, <3>3, <3>4, <3>5, <3>6, <3>7, <3>8 DEF WorkerStep, DoTaskGets, DoTaskPuts
  <2> QED BY <2>1, <2>2, <2>3, OneLinked
<1> QED BY <1>1, <1>3, <1>4, <1>5

----------------------------------------------------------------------------
(* The state has its type *)

LEMMA SendType ==
    ASSUME up \in [Clients -> Seq(Messages)], NEW c \in Clients, NEW s \in Seq(Messages), Send(c, s)
    PROVE  up' \in [Clients -> Seq(Messages)]
<1>1. up[c] \o s \in Seq(Messages)
  BY ConcatSeq
<1> QED BY <1>1 DEF Send

LEMMA ReplyType ==
    ASSUME down \in [Clients -> Seq(Messages)], NEW c \in Clients, NEW s \in Seq(Messages), Reply(c, s)
    PROVE  down' \in [Clients -> Seq(Messages)]
<1>1. down[c] \o s \in Seq(Messages)
  BY ConcatSeq
<1> QED BY <1>1 DEF Reply

LEMMA OneMessage ==
    ASSUME NEW type \in {"gets", "puts", "size", "byte", "tail", "header", "refused"}, NEW n \in Nat
    PROVE  <<Msg(type, n)>> \in Seq(Messages)
<1>1. Msg(type, n) \in Messages
  BY MsgType
<1> QED BY <1>1

LEMMA ReceiveType ==
    ASSUME down \in [Clients -> Seq(Messages)], NEW c \in Clients, NEW type, Receive(c, type)
    PROVE  down' \in [Clients -> Seq(Messages)] /\ Head(down[c]).n \in Nat
<1>1. Tail(down[c]) \in Seq(Messages) /\ Head(down[c]) \in Messages
  BY DEF Receive, Answered
<1> QED BY <1>1 DEF Receive, Messages

LEMMA TakeType ==
    ASSUME up \in [Clients -> Seq(Messages)], NEW c \in Clients, NEW type, Arrived(c, type), Take(c)
    PROVE  up' \in [Clients -> Seq(Messages)] /\ Head(up[c]).n \in Nat
<1>1. Tail(up[c]) \in Seq(Messages) /\ Head(up[c]) \in Messages
  BY DEF Arrived
<1> QED BY <1>1 DEF Take, Messages

LEMMA ContinueType ==
    ASSUME cst \in [Clients -> ClientStates], cwant \in [Clients -> Nat], NEW c \in Clients,
           NEW more, NEW s \in ClientStates, NEW n \in Nat, Continue(c, more, s, n)
    PROVE  cst' \in [Clients -> ClientStates] /\ cwant' \in [Clients -> Nat]
<1>1. "prompt" \in ClientStates /\ 0 \in Nat
  BY DEF ClientStates
<1> QED BY <1>1 DEF Continue

LEMMA ClientTypeNext ==
    ASSUME TransferInv, NEW c \in Clients, Command(c) \/ ClientStep(c) \/ Leave(c) \/ Return(c)
    PROVE  TypeInv' /\ UNCHANGED <<disk, rows, task>>
<1>1. TypeInv /\ TypeOK /\ Linked(c)
  BY DEF TransferInv, TypeInv
<1>2. UNCHANGED <<disk, exists, rows, task, mixed>>
  BY DEF Command, ClientStep, Refused, AskRest, Download, DownloadTo, OfferRest, Upload, UploadFrom, Leave, Return, storeVars
<1>3. SUFFICES /\ cst' \in [Clients -> ClientStates] /\ local' \in [Clients -> Seq(Nat)]
               /\ cwant' \in [Clients -> Nat] /\ sent' \in [Clients -> Nat] /\ breaks' \in Nat
               /\ up' \in [Clients -> Seq(Messages)] /\ down' \in [Clients -> Seq(Messages)]
  BY <1>1, <1>2 DEF TypeInv, TypeOK
<1>4. /\ cst \in [Clients -> ClientStates] /\ local \in [Clients -> Seq(Nat)]
      /\ cwant \in [Clients -> Nat] /\ sent \in [Clients -> Nat] /\ breaks \in Nat
      /\ up \in [Clients -> Seq(Messages)] /\ down \in [Clients -> Seq(Messages)]
  BY <1>1 DEF TypeOK
<1>5. {"gone", "prompt", "gets", "puts", "download", "upload"} \subseteq ClientStates
  BY DEF ClientStates
<1>6. CASE Command(c)
  <2>1. PICK op \in {"gets", "puts"} : cst' = [cst EXCEPT ![c] = op] /\ Send(c, <<Msg(op, 0)>>)
    BY <1>6 DEF Command
  <2>2. up' \in [Clients -> Seq(Messages)]
    BY <1>4, <2>1, OneMessage, SendType
  <2>3. sent' \in [Clients -> Nat] /\ UNCHANGED <<local, cwant, down, breaks>>
    BY <1>4, <1>6 DEF Command
  <2>4. cst' \in [Clients -> ClientStates]
    BY <1>4, <1>5, <2>1
  <2> QED BY <1>4, <2>2, <2>3, <2>4
<1>7. CASE Refused(c)
  <2>1. cst' \in [Clients -> ClientStates]
    BY <1>4, <1>5, <1>7 DEF Refused
  <2> QED BY <1>4, <1>7, <2>1, ReceiveType DEF Refused
<1>8. CASE AskRest(c)
  <2>1. PICK l \in Nat, n \in Nat : l = Len(local[c]) /\ n = Head(down[c]).n
    BY <1>1, <1>4, <1>8, ClientTypes, ReceiveType DEF AskRest
  <2>2. Receive(c, "header") /\ Send(c, <<Msg("size", l)>>) /\ Continue(c, l < n, "download", n)
        /\ UNCHANGED <<local, sent, breaks>>
    BY <1>8, <2>1 DEF AskRest
  <2>3. <<Msg("size", l)>> \in Seq(Messages)
    BY OneMessage
  <2> QED BY <1>4, <1>5, <2>2, <2>3, ReceiveType, SendType, ContinueType
<1>9. CASE Download(c)
  <2>1. PICK l \in Seq(Nat), v \in Seq(Messages) : l = local[c] /\ v = down[c]
    BY <1>4
  <2>2. PICK k \in 1 .. Least(Chunk, Len(v)) : DownloadTo(c, l \o Values(SubSeq(v, 1, k)), k)
    BY <1>9, <2>1 DEF Download
  <2>3. k \in 0 .. Len(v)
    BY <2>1, EmptyLen, TransferConstants DEF Least
  <2>4. SubSeq(v, 1, k) \in Seq(Messages) /\ SubSeq(v, k + 1, Len(v)) \in Seq(Messages)
    BY <2>1, <2>3, FrontSeq, RestSeq
  <2>5. Values(SubSeq(v, 1, k)) \in Seq(Nat)
    BY <2>4, ValuesSeq
  <2>6. PICK t \in Seq(Nat) : t = l \o Values(SubSeq(v, 1, k))
    BY <2>1, <2>5, ConcatSeq
  <2>7. /\ local' = [local EXCEPT ![c] = t] /\ down' = [down EXCEPT ![c] = SubSeq(v, k + 1, Len(v))]
        /\ Continue(c, Len(t) < cwant[c], "download", cwant[c]) /\ UNCHANGED <<sent, up, breaks>>
    BY <1>4, <2>1, <2>2, <2>6 DEF DownloadTo
  <2>8. cst' \in [Clients -> ClientStates] /\ cwant' \in [Clients -> Nat]
    BY <1>4, <1>5, <2>7, ContinueType
  <2> QED BY <1>4, <2>4, <2>6, <2>7, <2>8
<1>10. CASE OfferRest(c)
  <2>1. PICK n \in Nat : n = Head(down[c]).n
    BY <1>4, <1>10, ReceiveType DEF OfferRest
  <2>2. Receive(c, "header") /\ Send(c, <<Msg("size", Size)>>) /\ Continue(c, n < Size, "upload", n)
        /\ UNCHANGED <<local, sent, breaks>>
    BY <1>10, <2>1 DEF OfferRest
  <2>3. <<Msg("size", Size)>> \in Seq(Messages)
    BY OneMessage, TransferConstants
  <2> QED BY <1>4, <1>5, <2>2, <2>3, ReceiveType, SendType, ContinueType
<1>11. CASE Upload(c)
  <2>1. PICK n \in Nat : n = cwant[c]
    BY <1>4
  <2>2. PICK t : t = Bytes([i \in 1 .. Size - n |-> n + i])
    OBVIOUS
  <2>3. n < Size
    BY <1>1, <1>11, <2>1, UploadOf DEF Upload, UploadFrom
  <2>4. t \in Seq(Messages)
    BY <2>2, <2>3, FollowsUpload
  <2>5. Send(c, t) /\ Continue(c, FALSE, "upload", 0) /\ UNCHANGED <<local, sent, down, breaks>>
    BY <1>11, <2>1, <2>2 DEF Upload, UploadFrom
  <2> QED BY <1>4, <1>5, <2>4, <2>5, SendType, ContinueType
<1>12. CASE Leave(c)
  <2>1. PICK k \in 0 .. Len(up[c]) : up' = [up EXCEPT ![c] = SubSeq(@, 1, k)]
    BY <1>12 DEF Leave
  <2>2. SubSeq(up[c], 1, k) \in Seq(Messages)
    BY <1>4, <2>1, FrontSeq
  <2>3. up' \in [Clients -> Seq(Messages)]
    BY <1>4, <2>1, <2>2
  <2>4. /\ cst' = [cst EXCEPT ![c] = "gone"] /\ cwant' = [cwant EXCEPT ![c] = 0] /\ breaks' = breaks + 1
        /\ down' = [down EXCEPT ![c] = <<>>] /\ UNCHANGED <<local, sent>>
    BY <1>12 DEF Leave
  <2>5. <<>> \in Seq(Messages)
    OBVIOUS
  <2> QED BY <1>4, <1>5, <2>3, <2>4, <2>5
<1>13. CASE Return(c)
  <2>1. <<>> \in Seq(Messages)
    OBVIOUS
  <2> QED BY <1>4, <1>5, <1>13, <2>1 DEF Return
<1> QED BY <1>6, <1>7, <1>8, <1>9, <1>10, <1>11, <1>12, <1>13 DEF ClientStep

\* A write leaves no less than there was, nor less than the task has written; a write
\* at the end appends.
LEMMA WrittenSeq ==
    ASSUME NEW t \in Task, NEW s \in Seq(Nat), disk \in Seq(Nat), t.total <= Len(disk)
    PROVE  /\ Written(t, s) \in Seq(Nat)
           /\ Len(Written(t, s)) >= Len(disk) /\ Len(Written(t, s)) >= t.total + Len(s)
           /\ t.total = Len(disk) => Written(t, s) = disk \o s
<1>1. PICK v \in Seq(Nat) : v = disk
  OBVIOUS
<1>2. PICK n \in Nat : n = (IF t.appends THEN Len(v) ELSE t.total)
  <2>1. Len(v) \in Nat /\ t.total \in Nat
    BY <1>1, EmptyLen DEF Task
  <2> QED BY <2>1
<1>3. PICK a \in Nat, b \in Nat : a = Len(v) /\ b = Len(s)
  BY <1>1, EmptyLen
<1>4. n <= a /\ t.total <= n /\ t.total \in Nat /\ (t.total = a => n = a)
  BY <1>1, <1>2, <1>3 DEF Task
<1>5. PICK f : f = SubSeq(v, 1, n)
  OBVIOUS
<1>6. f \in Seq(Nat) /\ Len(f) = n /\ \A i \in 1 .. n : f[i] = v[i]
  BY <1>1, <1>3, <1>4, <1>5, FrontSeq
<1>7. PICK p \in Nat : p = n + b
  OBVIOUS
<1>8. PICK r : r = IF p < a THEN SubSeq(v, p + 1, a) ELSE <<>>
  OBVIOUS
<1>9. r \in Seq(Nat) /\ Len(r) = IF p < a THEN a - p ELSE 0
  <2>1. CASE p < a
    <3>1. p \in 0 .. Len(v)
      BY <1>3, <1>7, <2>1
    <3>2. SubSeq(v, p + 1, Len(v)) \in Seq(Nat) /\ Len(SubSeq(v, p + 1, Len(v))) = Len(v) - p
      BY <1>1, <3>1, RestSeq
    <3> QED BY <1>3, <1>8, <2>1, <3>2
  <2>2. CASE ~(p < a)
    BY <1>8, <2>2
  <2> QED BY <2>1, <2>2
<1>10. Written(t, s) = f \o s \o r
  <2>1. Written(t, s) = SubSeq(v, 1, n) \o s \o (IF b < a - n THEN SubSeq(v, n + b + 1, a) ELSE <<>>)
    BY <1>1, <1>2, <1>3 DEF Written
  <2>2. b < a - n <=> p < a
    BY <1>3, <1>7
  <2>3. n + b + 1 = p + 1
    BY <1>7
  <2> QED BY <1>5, <1>8, <2>1, <2>2, <2>3
<1>11. PICK g \in Seq(Nat) : g = f \o s /\ Len(g) = p
  <2>1. f \o s \in Seq(Nat) /\ Len(f \o s) = n + b
    BY <1>3, <1>6, ConcatSeq
  <2> QED BY <1>7, <2>1
<1>12. Written(t, s) \in Seq(Nat) /\ Len(Written(t, s)) = p + (IF p < a THEN a - p ELSE 0)
  <2>1. g \o r \in Seq(Nat) /\ Len(g \o r) = Len(g) + Len(r)
    BY <1>9, <1>11, ConcatSeq
  <2> QED BY <1>9, <1>10, <1>11, <2>1
<1>13. Len(Written(t, s)) >= a /\ Len(Written(t, s)) >= t.total + b
  <2>1. PICK d \in Nat : d = t.total /\ d <= n
    BY <1>4
  <2>2. PICK q : q = p + (IF p < a THEN a - p ELSE 0)
    OBVIOUS
  <2>3. q >= a /\ q >= d + b
    <3>1. p \in Nat /\ p >= d + b
      BY <1>2, <1>3, <1>7, <2>1
    <3>2. CASE p < a
      <4>1. q = a
        BY <1>3, <2>2, <3>1, <3>2
      <4> QED BY <1>3, <2>1, <3>1, <3>2, <4>1
    <3>3. CASE ~(p < a)
      <4>1. q = p
        BY <1>3, <2>2, <3>1, <3>3
      <4> QED BY <1>3, <2>1, <3>1, <3>3, <4>1
    <3> QED BY <3>2, <3>3
  <2> QED BY <1>12, <2>1, <2>2, <2>3
<1>14. ASSUME t.total = a PROVE Written(t, s) = v \o s
  <2>1. n = a /\ ~(p < a)
    BY <1>3, <1>4, <1>7, <1>14
  <2>2. r = <<>>
    BY <1>8, <2>1
  <2>3. f = v
    BY <1>1, <1>3, <1>6, <2>1, SeqEqual
  <2>4. g \o <<>> = g
    BY <1>11
  <2> QED BY <1>10, <1>11, <2>2, <2>3, <2>4
<1> QED BY <1>1, <1>3, <1>12, <1>13, <1>14

\* What one recv stores: the file does not shrink, holds what the task has written, and
\* grows by what was received where the task wrote at its end.
LEMMA RecvStored ==
    ASSUME TransferInv, NEW c \in Clients, NEW k \in 1 .. Least(Chunk, Len(up[c])), Recv(c, k)
    PROVE  /\ disk' \in Seq(Nat) /\ Len(disk') >= Len(disk) /\ Len(disk') >= task[c].total + k
           /\ task[c].total = Len(disk) => disk' = disk \o Values(SubSeq(up[c], 1, k))
           /\ Len(Values(SubSeq(up[c], 1, k))) = k /\ Values(SubSeq(up[c], 1, k)) \in Seq(Nat)
           /\ k \in 0 .. Len(up[c])
<1>1. TypeInv /\ task[c] \in Task /\ up[c] \in Seq(Messages) /\ disk \in Seq(Nat) /\ task[c].stage = "recv"
  BY ClientTypes DEF TransferInv, Recv
<1>2. task[c].total <= Len(disk)
  BY <1>1 DEF TypeInv
<1>3. k \in 0 .. Len(up[c])
  BY <1>1, EmptyLen, TransferConstants DEF Least
<1>4. SubSeq(up[c], 1, k) \in Seq(Messages) /\ Len(SubSeq(up[c], 1, k)) = k
  BY <1>1, <1>3, FrontSeq
<1>5. PICK s \in Seq(Nat) : s = Values(SubSeq(up[c], 1, k)) /\ Len(s) = k
  BY <1>4, ValuesSeq
<1>6. disk' = Written(task[c], s)
  BY <1>5 DEF Recv
<1> QED BY <1>1, <1>2, <1>3, <1>5, <1>6, WrittenSeq

LEMMA DiskGrows ==
    ASSUME TransferInv, NEW c \in Clients, WorkerStep(c) PROVE Len(disk') >= Len(disk)
<1>1. Len(disk) \in Nat
  BY EmptyLen DEF TransferInv, TypeInv, TypeOK
<1>2. CASE RecvBody(c)
  BY <1>2, RecvStored DEF RecvBody
<1>3. CASE ~RecvBody(c)
  <2>1. disk' = disk
    BY <1>3 DEF WorkerStep, DoTaskGets, DoTaskPuts, StartGets, GetsSize, SendBody, SendBytes, Killed,
       GetsBroken, StartPuts, OpenStored, PutsSize, Record, RecordBroken, Insert, storeVars
  <2> QED BY <1>1, <2>1
<1> QED BY <1>2, <1>3

\* An action that gives the task of c the value t keeps the type of the others.
LEMMA TaskType ==
    ASSUME TypeInv, NEW c \in Clients, NEW t \in Task, task' = [task EXCEPT ![c] = t],
           disk' \in Seq(Nat), Len(disk') >= Len(disk),
           t.stage \in {"putsSize", "recv", "record"} => t.total <= Len(disk'),
           up' \in [Clients -> Seq(Messages)], down' \in [Clients -> Seq(Messages)],
           exists' \in BOOLEAN, mixed' \in BOOLEAN,
           rows' \subseteq [owner : Clients, size : Nat, ok : BOOLEAN],
           UNCHANGED clientVars, UNCHANGED breaks
    PROVE  TypeInv'
<1> DEFINE Bound(d) == task[d].stage \in {"putsSize", "recv", "record"} => task[d].total <= Len(disk)
<1>1. TypeOK /\ task \in [Clients -> Task] /\ disk \in Seq(Nat) /\ \A d \in Clients : Bound(d)
  BY DEF TypeInv, TypeOK
<1>2. task' \in [Clients -> Task] /\ UNCHANGED <<cst, local, cwant, sent, breaks>>
  BY <1>1 DEF clientVars
<1>3. PICK a \in Nat, b \in Nat : a = Len(disk) /\ b = Len(disk') /\ b >= a
  BY <1>1, EmptyLen
<1>4. ASSUME NEW d \in Clients PROVE Bound(d)'
  <2>1. CASE d = c
    BY <1>1, <2>1
  <2>2. CASE d # c
    <3>1. task'[d] = task[d]
      BY <1>1, <2>2
    <3>2. PICK n \in Nat : n = task[d].total
      BY ClientTypes
    <3>3. task[d].stage \in {"putsSize", "recv", "record"} => n <= b
      BY <1>1, <1>3, <3>2
    <3> QED BY <1>3, <3>1, <3>2, <3>3
  <2> QED BY <2>1, <2>2
<1>5. \A d \in Clients : task'[d].stage = "recv" => task'[d].total <= Len(disk')
  BY <1>4
<1>6. TypeOK'
  BY <1>1, <1>2, <1>5 DEF TypeOK
<1> QED BY <1>4, <1>6 DEF TypeInv

LEMMA WorkerTypeNext == ASSUME TransferInv, NEW c \in Clients, WorkerStep(c) PROVE TypeInv'
<1>1. TypeInv /\ TypeOK /\ Linked(c)
  BY DEF TransferInv, TypeInv
<1>2. /\ cst \in [Clients -> ClientStates] /\ local \in [Clients -> Seq(Nat)]
      /\ cwant \in [Clients -> Nat] /\ sent \in [Clients -> Nat] /\ breaks \in Nat
      /\ up \in [Clients -> Seq(Messages)] /\ down \in [Clients -> Seq(Messages)]
      /\ task \in [Clients -> Task] /\ disk \in Seq(Nat) /\ Len(disk) \in Nat
      /\ exists \in BOOLEAN /\ mixed \in BOOLEAN /\ rows \subseteq [owner : Clients, size : Nat, ok : BOOLEAN]
  BY <1>1, EmptyLen DEF TypeOK
<1>3. NoTask \in Task
  BY DEF NoTask, Task
<1>4. \A d \in Clients : task[d].stage \in {"putsSize", "recv", "record"} => task[d].total <= Len(disk)
  BY <1>1 DEF TypeInv
<1>5. Len(disk') >= Len(disk)
  BY DiskGrows
<1>6. CASE StartGets(c)
  <2>1. PICK n \in Nat : n = Len(disk)
    BY <1>2
  <2>2. PICK t : t = IF Owned(c) THEN [NoTask EXCEPT !.stage = "getsSize", !.stat = n] ELSE task[c]
    OBVIOUS
  <2>3. t \in Task /\ task' = [task EXCEPT ![c] = t] /\ t.stage \notin {"putsSize", "recv", "record"}
    <3>1. task = [task EXCEPT ![c] = task[c]]
      BY <1>2
    <3>2. task' = [task EXCEPT ![c] = t]
      BY <1>6, <2>1, <2>2, <3>1 DEF StartGets, Begin
    <3>3. t \in Task /\ t.stage \in {"idle", "getsSize"}
      BY <1>2, <1>6, <2>1, <2>2 DEF StartGets, Idle, NoTask, Task
    <3> QED BY <3>2, <3>3
  <2>4. up' \in [Clients -> Seq(Messages)]
    BY <1>2, <1>6, TakeType DEF StartGets
  <2>5. down' \in [Clients -> Seq(Messages)]
    <3>1. \E s \in Seq(Messages) : Reply(c, s)
      BY <1>6, <2>1, OneMessage DEF StartGets
    <3> QED BY <1>2, <3>1, ReplyType
  <2>6. mixed' \in BOOLEAN
    BY <1>2, <1>6 DEF StartGets
  <2>7. UNCHANGED <<disk, exists, rows>> /\ UNCHANGED clientVars /\ UNCHANGED breaks
    BY <1>6 DEF StartGets, storeVars
  <2> QED BY <1>1, <1>2, <1>5, TaskType, <2>3, <2>4, <2>5, <2>6, <2>7
<1>7. CASE GetsSize(c)
  <2>1. up' \in [Clients -> Seq(Messages)] /\ Head(up[c]).n \in Nat
    BY <1>2, <1>7, TakeType DEF GetsSize
  <2>2. PICK n \in Nat : n = Head(up[c]).n
    BY <2>1
  <2>3. PICK t : t = IF task[c].stat <= n THEN NoTask ELSE [task[c] EXCEPT !.stage = "send", !.want = n]
    OBVIOUS
  <2>4. t \in Task /\ t.stage \notin {"putsSize", "recv", "record"}
    BY <1>2, <2>2, <2>3 DEF NoTask, Task
  <2>5. task' = [task EXCEPT ![c] = t] /\ UNCHANGED <<down, disk, exists, rows, mixed>> /\ UNCHANGED clientVars /\ UNCHANGED breaks
    BY <1>7, <2>2, <2>3 DEF GetsSize, Begin, End, storeVars
  <2> QED BY <1>1, <1>2, <1>5, TaskType, <2>1, <2>4, <2>5
<1>8. CASE SendBody(c)
  <2>1. PICK b : b = Body(disk, task[c].want, task[c].stat)
    OBVIOUS
  <2>2. Reply(c, b) /\ task' = [task EXCEPT ![c] = NoTask] /\ UNCHANGED <<up, disk, exists, rows, mixed>> /\ UNCHANGED clientVars /\ UNCHANGED breaks
    BY <1>8, <2>1 DEF SendBody, SendBytes, Body, Part, End, storeVars
  <2>3. b \in Seq(Messages)
    <3>1. PICK w \in Nat, n \in Nat, s \in Seq(Nat) : w = task[c].want /\ n = task[c].stat /\ s = disk
      BY <1>1, ClientTypes
    <3> QED BY <2>1, <3>1, BodySeq
  <2>4. down' \in [Clients -> Seq(Messages)]
    BY <1>2, <2>2, <2>3, ReplyType
  <2>5. NoTask.stage = "idle"
    BY DEF NoTask
  <2> QED BY <1>1, <1>2, <1>3, <1>5, TaskType, <2>2, <2>4, <2>5
<1>9. CASE Killed(c)
  <2>1. UNCHANGED <<local, sent, disk, exists, rows, mixed, breaks>>
    BY <1>9 DEF Killed, storeVars
  <2>2. /\ cst' = [d \in Clients |-> "gone"] /\ cwant' = [d \in Clients |-> 0]
        /\ up' = [d \in Clients |-> <<>>] /\ down' = [d \in Clients |-> <<>>]
        /\ task' = [d \in Clients |-> NoTask]
    BY <1>9 DEF Killed
  <2>3. <<>> \in Seq(Messages) /\ "gone" \in ClientStates /\ NoTask.stage = "idle"
    BY DEF ClientStates, NoTask
  <2> QED BY <1>2, <1>3, <2>1, <2>2, <2>3 DEF TypeInv, TypeOK
<1>10. CASE GetsBroken(c)
  <2>1. task' = [task EXCEPT ![c] = NoTask] /\ UNCHANGED <<up, down, disk, exists, rows, mixed>> /\ UNCHANGED clientVars /\ UNCHANGED breaks
    BY <1>10 DEF GetsBroken, End, storeVars
  <2>2. NoTask.stage = "idle"
    BY DEF NoTask
  <2> QED BY <1>1, <1>2, <1>3, <1>5, TaskType, <2>1, <2>2
<1>11. CASE StartPuts(c)
  <2>1. PICK n \in Nat : n = Len(disk)
    BY <1>2
  <2>2. PICK t : t = IF Owned(c) THEN task[c]
                     ELSE [NoTask EXCEPT !.stage = "putsSize", !.stat = n, !.total = n, !.appends = exists]
    OBVIOUS
  <2>3. task' = [task EXCEPT ![c] = t]
    <3>1. task = [task EXCEPT ![c] = task[c]]
      BY <1>2
    <3> QED BY <1>11, <2>1, <2>2, <3>1 DEF StartPuts, Begin
  <2>4. t \in Task /\ (t.stage \in {"putsSize", "recv", "record"} => t.total = n)
    BY <1>2, <1>11, <2>1, <2>2 DEF StartPuts, Idle, NoTask, Task
  <2>5. up' \in [Clients -> Seq(Messages)]
    BY <1>2, <1>11, TakeType DEF StartPuts
  <2>6. down' \in [Clients -> Seq(Messages)]
    <3>1. \E s \in Seq(Messages) : Reply(c, s)
      BY <1>11, <2>1, OneMessage DEF StartPuts
    <3> QED BY <1>2, <3>1, ReplyType
  <2>7. mixed' \in BOOLEAN
    BY <1>2, <1>11 DEF StartPuts
  <2>8. UNCHANGED <<disk, rows>> /\ UNCHANGED clientVars /\ UNCHANGED breaks /\ exists' \in BOOLEAN
    BY <1>2, <1>11 DEF StartPuts, OpenStored
  <2>9. Len(disk') >= Len(disk) /\ (t.stage \in {"putsSize", "recv", "record"} => t.total <= Len(disk'))
    BY <2>1, <2>4, <2>8
  <2> QED BY <1>1, <1>2, <1>5, TaskType, <2>3, <2>4, <2>5, <2>6, <2>7, <2>8, <2>9
<1>12. CASE PutsSize(c)
  <2>1. up' \in [Clients -> Seq(Messages)] /\ Head(up[c]).n \in Nat
    BY <1>2, <1>12, TakeType DEF PutsSize
  <2>2. PICK n \in Nat : n = Head(up[c]).n
    BY <2>1
  <2>3. PICK t : t = [task[c] EXCEPT !.stage = IF task[c].stat >= n THEN "record" ELSE "recv", !.want = n]
    OBVIOUS
  <2>4. t \in Task /\ t.total = task[c].total
    BY <1>2, <2>2, <2>3 DEF Task
  <2>5. task' = [task EXCEPT ![c] = t] /\ UNCHANGED <<down, disk, exists, rows, mixed>> /\ UNCHANGED clientVars /\ UNCHANGED breaks
    BY <1>12, <2>2, <2>3 DEF PutsSize, Begin, storeVars
  <2>6. t.total <= Len(disk')
    BY <1>4, <1>12, <2>4, <2>5 DEF PutsSize
  <2> QED BY <1>1, <1>2, <1>5, TaskType, <2>1, <2>4, <2>5, <2>6
<1>13. CASE RecvBody(c)
  <2>1. PICK k \in 1 .. Least(Chunk, Len(up[c])) : Recv(c, k)
    BY <1>13 DEF RecvBody
  <2>2. /\ disk' \in Seq(Nat) /\ Len(disk') >= Len(disk) /\ Len(disk') >= task[c].total + k /\ k \in 0 .. Len(up[c])
        /\ up'[c] \in Seq(Messages)
    BY <2>1, RecvStored, RecvOf
  <2>3. PICK t : t = [task[c] EXCEPT !.total = task[c].total + k,
                                     !.stage = IF task[c].total + k >= task[c].want THEN "record" ELSE "recv"]
    OBVIOUS
  <2>4. t \in Task /\ t.total = task[c].total + k
    <3>1. PICK n \in Nat, g \in {"record", "recv"} :
             n = task[c].total + k /\ t = [task[c] EXCEPT !.total = n, !.stage = g]
      <4>1. task[c].total + k \in Nat
        BY <1>1, <2>2, ClientTypes
      <4> QED BY <2>3, <4>1
    <3>2. task[c] \in Task
      BY <1>2
    <3> QED BY <3>1, <3>2 DEF Task
  <2>5. task' = [task EXCEPT ![c] = t] /\ UNCHANGED <<down, exists, rows, mixed>> /\ UNCHANGED clientVars /\ UNCHANGED breaks
    BY <2>1, <2>3 DEF Recv, Begin
  <2>6. up' \in [Clients -> Seq(Messages)]
    BY <1>2, <2>1, <2>2 DEF Recv, Received
  <2>7. t.total <= Len(disk')
    <3>1. PICK a \in Nat, b \in Nat : a = Len(disk') /\ b = t.total
      BY <2>2, <2>4, EmptyLen DEF Task
    <3> QED BY <2>2, <2>4, <3>1
  <2> QED BY <1>1, <1>2, <1>5, TaskType, <2>2, <2>4, <2>5, <2>6, <2>7
<1>14. CASE Record(c) \/ RecordBroken(c)
  <2>1. PICK z, ok : Insert(c, z, ok) /\ z \in Nat /\ ok \in BOOLEAN
    <3>1. task[c].want \in Nat /\ task[c].stat \in Nat
      BY <1>1, ClientTypes
    <3>2. CASE Record(c)
      <4>1. PICK ok \in BOOLEAN : ok = (task[c].stat < task[c].want)
        <5>1. CASE task[c].stat < task[c].want
          <6>1. (task[c].stat < task[c].want) = TRUE
            BY <5>1
          <6> QED BY <6>1
        <5>2. CASE ~(task[c].stat < task[c].want)
          <6>1. (task[c].stat < task[c].want) = FALSE
            BY <3>1, <5>2
          <6> QED BY <6>1
        <5> QED BY <5>1, <5>2
      <4>2. Insert(c, task[c].want, ok)
        BY <3>2, <4>1 DEF Record
      <4> QED BY <3>1, <4>1, <4>2
    <3>3. CASE RecordBroken(c)
      <4>1. PICK z : z = IF task[c].stage = "recv" THEN task[c].want ELSE task[c].stat
        OBVIOUS
      <4> QED BY <3>1, <3>3, <4>1 DEF RecordBroken
    <3> QED BY <1>14, <3>2, <3>3
  <2>2. /\ task' = [task EXCEPT ![c] = NoTask] /\ UNCHANGED <<up, down, disk, exists, mixed>> /\ UNCHANGED clientVars /\ UNCHANGED breaks
        /\ rows' \subseteq [owner : Clients, size : Nat, ok : BOOLEAN]
    BY <1>2, <2>1 DEF Insert, End
  <2>3. NoTask.stage = "idle"
    BY DEF NoTask
  <2> QED BY <1>1, <1>2, <1>3, <1>5, TaskType, <2>2, <2>3
<1> QED BY <1>6, <1>7, <1>8, <1>9, <1>10, <1>11, <1>12, <1>13, <1>14 DEF WorkerStep, DoTaskGets, DoTaskPuts

LEMMA TypeNext == ASSUME TransferInv, Next PROVE TypeInv' /\ Len(disk') >= Len(disk)
<1>1. PICK c \in Clients : Command(c) \/ ClientStep(c) \/ Leave(c) \/ Return(c) \/ WorkerStep(c)
  BY DEF Next
<1>2. Len(disk) \in Nat
  BY EmptyLen DEF TransferInv, TypeInv, TypeOK
<1>3. CASE WorkerStep(c)
  BY <1>3, WorkerTypeNext, DiskGrows
<1>4. CASE ~WorkerStep(c)
  BY <1>1, <1>2, <1>4, ClientTypeNext
<1> QED BY <1>3, <1>4

----------------------------------------------------------------------------
(* A successful upload is complete *)

LEMMA CompleteNext == ASSUME TransferInv, Next PROVE UploadComplete'
<1>1. PICK c \in Clients : Command(c) \/ ClientStep(c) \/ Leave(c) \/ Return(c) \/ WorkerStep(c)
  BY DEF Next
<1>2. TypeInv /\ UploadComplete /\ Linked(c) /\ Size \in Nat
  BY TransferConstants DEF TransferInv
<1>3. PICK a \in Nat, b \in Nat : a = Len(disk) /\ b = Len(disk') /\ b >= a
  BY TypeNext, EmptyLen DEF TransferInv, TypeInv, TypeOK
<1>4. \A r \in rows : r.ok => b >= Size
  BY <1>2, <1>3 DEF UploadComplete
<1>5. CASE Record(c)
  <2>1. rows' = rows \cup {[owner |-> c, size |-> task[c].want, ok |-> (task[c].stat < task[c].want)]}
    BY <1>5 DEF Record, Insert
  <2>2. task[c].stat < task[c].want => b >= Size
    <3>1. PICK s \in Nat, w \in Nat, t \in Nat : s = task[c].stat /\ w = task[c].want /\ t = task[c].total
      BY <1>2, ClientTypes
    <3>2. w = Size /\ (s >= Size \/ t >= Size) /\ t <= a
      BY <1>2, <1>3, <1>5, <3>1 DEF Record, Linked, RecordOK, TypeInv
    <3> QED BY <1>2, <1>3, <3>1, <3>2
  <2>3. PICK e : e = [owner |-> c, size |-> task[c].want, ok |-> (task[c].stat < task[c].want)]
    OBVIOUS
  <2>4. e.ok => b >= Size
    BY <2>2, <2>3
  <2>5. rows' = rows \cup {e}
    BY <2>1, <2>3
  <2> QED BY <1>3, <1>4, <2>4, <2>5 DEF UploadComplete
<1>6. CASE RecordBroken(c)
  <2>1. PICK z : rows' = rows \cup {[owner |-> c, size |-> z, ok |-> FALSE]}
    BY <1>6 DEF RecordBroken, Insert
  <2> QED BY <1>3, <1>4, <2>1 DEF UploadComplete
<1>7. CASE ~Record(c) /\ ~RecordBroken(c)
  <2>1. rows' = rows
    <3>1. CASE WorkerStep(c)
      BY <1>7, <3>1 DEF WorkerStep, DoTaskGets, DoTaskPuts, StartGets, GetsSize, SendBody, SendBytes, Killed,
         GetsBroken, StartPuts, PutsSize, RecvBody, Recv, storeVars
    <3>2. CASE ~WorkerStep(c)
      BY <1>1, <3>2, ClientTypeNext
    <3> QED BY <3>1, <3>2
  <2> QED BY <1>3, <1>4, <2>1 DEF UploadComplete
<1> QED BY <1>5, <1>6, <1>7

----------------------------------------------------------------------------
(* Uploads that do not overlap *)

LEMMA OneWriterKept ==
    ASSUME OneWriter, UNCHANGED disk,
           \A d \in Clients :
              \/ task'[d] = task[d]
              \/ task'[d].stage \in {"idle", "record"}
              \/ /\ task[d].stage = "getsSize" /\ task'[d].stage = "send"
                 /\ task'[d].stat = task[d].stat
              \/ /\ task[d].stage = "putsSize" /\ task'[d].stage = "recv"
                 /\ task'[d].total = task[d].total
    PROVE  OneWriter'
<1>1. ASSUME NEW d \in Clients
      PROVE  /\ Writing(d)' => Writing(d) /\ task'[d].total = task[d].total
             /\ Open(d)' => Open(d)
             /\ task'[d].stage \in {"getsSize", "send"} =>
                   task[d].stage \in {"getsSize", "send"} /\ task'[d].stat = task[d].stat
  BY DEF Writing, Open
<1>2. Len(disk') = Len(disk)
  OBVIOUS
<1>3. \A c, d \in Clients : Writing(c)' /\ Open(d)' => c = d
  BY <1>1 DEF OneWriter
<1>4. \A c \in Clients : Writing(c)' => task'[c].total = Len(disk')
  BY <1>1, <1>2 DEF OneWriter
<1>5. \A c \in Clients : task'[c].stage \in {"getsSize", "send"} => task'[c].stat = Len(disk')
  BY <1>1, <1>2 DEF OneWriter
<1> QED BY <1>3, <1>4, <1>5 DEF OneWriter

LEMMA CopySame ==
    ASSUME NEW d \in Clients, CopyOK(d), cst'[d] = cst[d], down'[d] = down[d], local'[d] = local[d]
    PROVE  CopyOK(d)'
<1>1. IsContent(local[d])'
  BY DEF CopyOK, IsContent, Least
<1> QED BY <1>1 DEF CopyOK

\* A client that does not receive content keeps its copy.
LEMMA CopyKept ==
    ASSUME NEW d \in Clients, CopyOK(d), local'[d] = local[d], cst'[d] # "download" \/ down'[d] = <<>>
    PROVE  CopyOK(d)'
<1>1. IsContent(local[d])'
  BY DEF CopyOK, IsContent, Least
<1> QED BY <1>1 DEF CopyOK

\* More of the content at the end.
LEMMA ContentGrows ==
    ASSUME NEW v \in Seq(Nat), IsContent(v), NEW s \in Seq(Nat),
           \A j \in 1 .. Len(s) : Len(v) + j <= Size => s[j] = Len(v) + j
    PROVE  IsContent(v \o s)
<1>1. PICK a \in Nat, b \in Nat, z \in Nat : a = Len(v) /\ b = Len(s) /\ z = Size
  BY EmptyLen, TransferConstants
<1>2. PICK t : t = v \o s
  OBVIOUS
<1>3. Len(t) = a + b /\ (\A i \in 1 .. a : t[i] = v[i]) /\ (\A i \in 1 .. b : t[a + i] = s[i])
  BY <1>1, <1>2, ConcatSeq
<1>4. \A i \in 1 .. a : i <= z => v[i] = i
  BY <1>1 DEF IsContent, Least
<1>5. ASSUME NEW i \in 1 .. a + b, i <= z PROVE t[i] = i
  <2>1. CASE i <= a
    BY <1>1, <1>3, <1>4, <1>5, <2>1
  <2>2. CASE ~(i <= a)
    <3>1. PICK j \in 1 .. b : i = a + j
      <4>1. i - a \in 1 .. b /\ i = a + (i - a)
        BY <1>1, <1>5, <2>2
      <4> QED BY <4>1
    <3>2. s[j] = a + j
      BY <1>1, <1>5, <3>1
    <3> QED BY <1>3, <3>1, <3>2
  <2> QED BY <2>1, <2>2
<1>6. \A i \in 1 .. Least(Len(t), Size) : i \in 1 .. a + b /\ i <= z
  BY <1>1, <1>3 DEF Least
<1> QED BY <1>2, <1>5, <1>6 DEF IsContent

LEMMA Position ==
    \A a, b \in Nat : \A k \in 1 .. b : \A j \in 1 .. b - k : k + j \in 1 .. b /\ (a + k) + j = a + (k + j)
  OBVIOUS

LEMMA DownloadCopies ==
    ASSUME TransferInv, NEW c \in Clients, Download(c), CopyOK(c)
    PROVE  CopyOK(c)'
<1>1. /\ TypeInv /\ Linked(c) /\ down \in [Clients -> Seq(Messages)] /\ local \in [Clients -> Seq(Nat)]
      /\ cst[c] = "download"
  BY DEF TransferInv, TypeInv, TypeOK, Download, DownloadTo
<1>2. PICK v \in Seq(Messages), l \in Seq(Nat), a \in Nat : v = down[c] /\ l = local[c] /\ a = Len(l)
  BY <1>1, EmptyLen
<1>3. PICK k \in 1 .. Least(Chunk, Len(v)) : DownloadTo(c, l \o Values(SubSeq(v, 1, k)), k)
  BY <1>2 DEF Download
<1>4. k \in 0 .. Len(v) /\ k # 0 /\ Len(v) \in Nat
  BY <1>3, EmptyLen, TransferConstants DEF Least
<1>5. \A j \in 1 .. Len(v) : v[j].type = "byte"
  <2>1. v # <<>>
    BY <1>4, EmptyLen
  <2> QED BY <1>1, <1>2, <2>1, DownloadOf
<1>6. \A j \in 1 .. Len(v) : a + j <= Size => v[j].n = a + j
  BY <1>1, <1>2 DEF CopyOK
<1>7. PICK f \in Seq(Messages) : f = SubSeq(v, 1, k) /\ Len(f) = k /\ \A i \in 1 .. k : f[i] = v[i]
  BY <1>4, FrontSeq
<1>8. PICK s \in Seq(Nat) : s = Values(f) /\ Len(s) = k
  BY <1>7, ValuesSeq
<1>9. \A i \in 1 .. k : s[i] = v[i].n
  <2>1. ASSUME NEW i \in 1 .. k PROVE s[i] = v[i].n
    <3>1. i \in 1 .. Len(v) /\ f[i] = v[i] /\ f[i].type = "byte"
      BY <1>4, <1>5, <1>7
    <3>2. \A j \in 1 .. Len(f) : f[j].type = "byte" => Values(f)[j] = f[j].n
      BY <1>7, ValuesSeq
    <3> QED BY <1>7, <1>8, <3>1, <3>2
  <2> QED BY <2>1
<1>10. PICK t : t = l \o s
  OBVIOUS
<1>11. IsContent(t)
  <2>1. IsContent(l)
    BY <1>2 DEF CopyOK
  <2>2. \A j \in 1 .. Len(s) : Len(l) + j <= Size => s[j] = Len(l) + j
    <3>1. ASSUME NEW j \in 1 .. k, a + j <= Size PROVE s[j] = a + j
      <4>1. j \in 1 .. Len(v)
        BY <1>4
      <4> QED BY <1>6, <1>9, <3>1, <4>1
    <3> QED BY <1>2, <1>8, <3>1
  <2> QED BY <1>2, <1>8, <1>10, <2>1, <2>2, ContentGrows
<1>12. Len(t) = a + k
  BY <1>2, <1>8, <1>10, ConcatSeq
<1>13. PICK r : r = SubSeq(v, k + 1, Len(v))
  OBVIOUS
<1>14. r \in Seq(Messages) /\ Len(r) = Len(v) - k /\ \A i \in 1 .. Len(v) - k : r[i] = v[k + i]
  BY <1>4, <1>13, RestSeq
<1>15. local'[c] = t /\ down'[c] = r
  BY <1>1, <1>2, <1>3, <1>7, <1>8, <1>10, <1>13 DEF DownloadTo
<1>16. \A j \in 1 .. Len(r) : Len(t) + j <= Size => r[j].n = Len(t) + j
  <2>1. ASSUME NEW j \in 1 .. Len(r), Len(t) + j <= Size PROVE r[j].n = Len(t) + j
    <3>1. r[j] = v[k + j] /\ k + j \in 1 .. Len(v) /\ Len(t) + j = a + (k + j)
      <4>1. PICK b \in Nat : b = Len(v)
        BY <1>4
      <4>2. j \in 1 .. b - k /\ k \in 1 .. b
        BY <1>4, <1>14, <4>1
      <4>3. r[j] = v[k + j]
        BY <1>14, <4>1, <4>2
      <4>4. k + j \in 1 .. b /\ (a + k) + j = a + (k + j)
        BY <1>2, <4>1, <4>2, Position
      <4> QED BY <1>12, <4>1, <4>3, <4>4
    <3> QED BY <1>6, <2>1, <3>1
  <2> QED BY <2>1
<1>17. IsContent(local[c])'
  BY <1>11, <1>15 DEF IsContent, Least
<1> QED BY <1>15, <1>16, <1>17 DEF CopyOK

LEMMA ClientApart ==
    ASSUME TransferInv, NEW c \in Clients, Command(c) \/ ClientStep(c) \/ Leave(c) \/ Return(c), Apart
    PROVE  Apart'
<1>1. /\ cst \in [Clients -> ClientStates] /\ down \in [Clients -> Seq(Messages)] /\ local \in [Clients -> Seq(Nat)]
      /\ TypeInv /\ Linked(c) /\ OneWriter /\ IsContent(disk) /\ CopyOK(c)
  BY DEF TransferInv, TypeInv, TypeOK, Apart
<1>2. UNCHANGED <<disk, task>>
  BY ClientTypeNext
<1>3. OneWriter'
  BY <1>1, <1>2, OneWriterKept
<1>4. IsContent(disk)'
  BY <1>1, <1>2 DEF IsContent, Least
<1>5. ASSUME NEW d \in Clients \ {c} PROVE CopyOK(d)'
  <2>1. cst'[d] = cst[d] /\ down'[d] = down[d] /\ local'[d] = local[d]
    BY <1>1 DEF Command, ClientStep, Refused, AskRest, Download, DownloadTo, OfferRest, Upload, UploadFrom,
       Leave, Return, Receive, Continue
  <2>2. CopyOK(d)
    BY DEF Apart
  <2> QED BY <2>1, <2>2, CopySame
<1>6. CopyOK(c)'
  <2>1. CASE Download(c)
    BY <1>1, <2>1, DownloadCopies
  <2>2. CASE AskRest(c)
    <3>1. local'[c] = local[c] /\ down'[c] = Tail(down[c]) /\ cst[c] = "gets" /\ down[c] # <<>>
          /\ Head(down[c]).type = "header"
      BY <1>1, <2>2 DEF AskRest, Receive, Answered
    <3>2. Tail(down[c]) = <<>>
      BY <1>1, <3>1, AnswerOf
    <3> QED BY <1>1, <3>1, <3>2, CopyKept
  <2>3. CASE ~Download(c) /\ ~AskRest(c)
    <3>1. local'[c] = local[c] /\ cst'[c] # "download"
      BY <1>1, <2>3 DEF Command, ClientStep, Refused, OfferRest, Upload, UploadFrom, Leave, Return, Continue
    <3> QED BY <1>1, <3>1, CopyKept
  <2> QED BY <2>1, <2>2, <2>3
<1> QED BY <1>3, <1>4, <1>5, <1>6 DEF Apart

\* The bytes of one recv are the content from the end of the file on.
LEMMA RecvApart ==
    ASSUME TransferInv, NEW c \in Clients, RecvBody(c), Apart
    PROVE  OneWriter' /\ IsContent(disk)'
<1>1. PICK k \in 1 .. Least(Chunk, Len(up[c])) : Recv(c, k)
  BY DEF RecvBody
<1>2. /\ TypeInv /\ task \in [Clients -> Task] /\ disk \in Seq(Nat) /\ up[c] \in Seq(Messages)
      /\ OneWriter /\ IsContent(disk)
  BY ClientTypes DEF TransferInv, TypeInv, TypeOK, Apart
<1>3. PICK u \in Seq(Messages), v \in Seq(Nat), a \in Nat : u = up[c] /\ v = disk /\ a = Len(v)
  BY <1>2, EmptyLen
<1>4. PICK f : f = SubSeq(u, 1, k)
  OBVIOUS
<1>5. PICK s : s = Values(f)
  OBVIOUS
<1>6. /\ task[c].stage = "recv" /\ k \in 1 .. Len(u) /\ k \in 0 .. Len(u)
      /\ \A i \in 1 .. k : i <= Size - task[c].total => u[i] = Msg("byte", task[c].total + i)
  BY <1>1, <1>3, RecvOf, RecvStored
<1>7. Writing(c) /\ task[c].total = a
  BY <1>2, <1>3, <1>6 DEF Writing, OneWriter
<1>8. s \in Seq(Nat) /\ Len(s) = k /\ disk' = v \o s
  BY <1>1, <1>3, <1>4, <1>5, <1>7, RecvStored
<1>9. f \in Seq(Messages) /\ Len(f) = k /\ \A i \in 1 .. k : f[i] = u[i]
  BY <1>4, <1>6, FrontSeq
<1>10. ASSUME NEW j \in 1 .. Len(s), Len(v) + j <= Size PROVE s[j] = Len(v) + j
  <2>1. j \in 1 .. k /\ a + j \in Nat /\ j <= Size - a
    BY <1>3, <1>8, <1>10, TransferConstants
  <2>2. f[j] = Msg("byte", a + j)
    BY <1>6, <1>7, <1>9, <2>1
  <2>3. f[j].type = "byte" /\ f[j].n = a + j
    BY <2>1, <2>2, MsgType
  <2>4. \A i \in 1 .. Len(f) : f[i].type = "byte" => Values(f)[i] = f[i].n
    BY <1>9, ValuesSeq
  <2> QED BY <1>3, <1>5, <1>9, <2>1, <2>3, <2>4
<1>11. IsContent(v \o s)
  BY <1>2, <1>3, <1>8, <1>10, ContentGrows
<1>12. IsContent(disk)'
  BY <1>8, <1>11 DEF IsContent, Least
<1>13. Len(disk') = a + k
  BY <1>3, <1>8, ConcatSeq
<1>14. /\ task'[c].stage \in {"recv", "record"} /\ task'[c].total = a + k
       /\ \A d \in Clients \ {c} : task'[d] = task[d]
  <2>1. PICK g \in {"record", "recv"} : task' = [task EXCEPT ![c] = [task[c] EXCEPT !.total = @ + k, !.stage = g]]
    <3>1. PICK g : g = IF task[c].total + k >= task[c].want THEN "record" ELSE "recv"
      OBVIOUS
    <3> QED BY <1>1, <3>1 DEF Recv, Begin
  <2> QED BY <1>2, <1>7, <2>1 DEF Task
<1>15. ASSUME NEW d \in Clients \ {c} PROVE ~Writing(d)' /\ ~Open(d)'
  <2>1. ~Open(d)
    BY <1>2, <1>7 DEF OneWriter
  <2> QED BY <1>14, <2>1 DEF Open, Writing
<1>16. ~(task'[c].stage \in {"getsSize", "send"})
  BY <1>14
<1>17. OneWriter'
  <2>1. \A d, e \in Clients : Writing(d)' /\ Open(e)' => d = e
    BY <1>15
  <2>2. \A d \in Clients : Writing(d)' => task'[d].total = Len(disk')
    BY <1>13, <1>14, <1>15
  <2>3. \A d \in Clients : task'[d].stage \in {"getsSize", "send"} => task'[d].stat = Len(disk')
    BY <1>15, <1>16 DEF Open
  <2> QED BY <2>1, <2>2, <2>3 DEF OneWriter
<1> QED BY <1>12, <1>17

\* A file is opened for writing when no other task has it open, and for reading when
\* nobody writes.
LEMMA StartApart ==
    ASSUME TransferInv, NEW c \in Clients, StartGets(c) \/ StartPuts(c), OneWriter, ~mixed'
    PROVE  OneWriter'
<1>1. task \in [Clients -> Task] /\ task[c].stage = "idle" /\ UNCHANGED disk
  BY DEF TransferInv, TypeInv, TypeOK, StartGets, StartPuts, OpenStored, Idle, storeVars
<1>2. CASE task' = task
  BY <1>1, <1>2, OneWriterKept
<1>3. CASE StartGets(c) /\ Owned(c)
  <2>1. /\ task'[c].stage = "getsSize" /\ task'[c].stat = Len(disk')
        /\ \A d \in Clients \ {c} : task'[d] = task[d]
    BY <1>1, <1>3 DEF StartGets, Begin, NoTask
  <2>2. \A d \in Clients : ~Writing(d)
    BY <1>3 DEF StartGets
  <2>3. \A d \in Clients : ~Writing(d)'
    BY <2>1, <2>2 DEF Writing
  <2>4. \A d \in Clients : task'[d].stage \in {"getsSize", "send"} => task'[d].stat = Len(disk')
    BY <1>1, <2>1 DEF OneWriter
  <2> QED BY <2>3, <2>4 DEF OneWriter
<1>4. CASE StartPuts(c) /\ ~Owned(c)
  <2>1. /\ task'[c].stage = "putsSize" /\ task'[c].total = Len(disk')
        /\ \A d \in Clients \ {c} : task'[d] = task[d]
    BY <1>1, <1>4 DEF StartPuts, Begin, NoTask
  <2>2. \A d \in Clients : ~Open(d)
    BY <1>4 DEF StartPuts
  <2>3. \A d \in Clients \ {c} : ~Writing(d)' /\ ~Open(d)'
    BY <2>1, <2>2 DEF Writing, Open
  <2>4. \A d, e \in Clients : Writing(d)' /\ Open(e)' => d = e
    BY <2>3
  <2>5. \A d \in Clients : Writing(d)' => task'[d].total = Len(disk')
    BY <2>1, <2>3
  <2>6. \A d \in Clients : task'[d].stage \in {"getsSize", "send"} => task'[d].stat = Len(disk')
    BY <2>1, <2>3 DEF Open
  <2> QED BY <2>4, <2>5, <2>6 DEF OneWriter
<1> QED BY <1>2, <1>3, <1>4 DEF StartGets, StartPuts

LEMMA WorkerApart ==
    ASSUME TransferInv, NEW c \in Clients, WorkerStep(c), Apart, ~mixed'
    PROVE  Apart'
<1>1. /\ cst \in [Clients -> ClientStates] /\ down \in [Clients -> Seq(Messages)] /\ local \in [Clients -> Seq(Nat)]
      /\ task \in [Clients -> Task] /\ TypeInv /\ Linked(c) /\ OneWriter /\ IsContent(disk)
      /\ \A d \in Clients : CopyOK(d)
  BY DEF TransferInv, TypeInv, TypeOK, Apart
<1>2. UNCHANGED local
  BY DEF WorkerStep, DoTaskGets, DoTaskPuts, StartGets, GetsSize, SendBody, SendBytes, Killed, GetsBroken,
     StartPuts, PutsSize, RecvBody, Recv, Record, RecordBroken, Insert, clientVars
<1>3. OneWriter' /\ IsContent(disk)'
  <2>1. CASE RecvBody(c)
    BY <2>1, RecvApart
  <2>2. CASE StartGets(c) \/ StartPuts(c)
    <3>1. disk' = disk
      BY <2>2 DEF StartGets, StartPuts, OpenStored, storeVars
    <3>2. IsContent(disk)'
      BY <1>1, <3>1 DEF IsContent, Least
    <3> QED BY <1>1, <2>2, <3>2, StartApart
  <2>3. CASE ~RecvBody(c) /\ ~StartGets(c) /\ ~StartPuts(c)
    <3>1. disk' = disk
      BY <2>3 DEF WorkerStep, DoTaskGets, DoTaskPuts, GetsSize, SendBody, SendBytes, Killed, GetsBroken,
         PutsSize, Record, RecordBroken, Insert, storeVars
    <3>2. IsContent(disk)'
      BY <1>1, <3>1 DEF IsContent, Least
    <3>3. ASSUME NEW d \in Clients
          PROVE  \/ task'[d] = task[d]
                 \/ task'[d].stage \in {"idle", "record"}
                 \/ /\ task[d].stage = "getsSize" /\ task'[d].stage = "send"
                    /\ task'[d].stat = task[d].stat
                 \/ /\ task[d].stage = "putsSize" /\ task'[d].stage = "recv"
                    /\ task'[d].total = task[d].total
      <4>1. CASE GetsSize(c)
        <5>0. PICK n : n = Head(up[c]).n
          OBVIOUS
        <5>1. PICK e \in Task : e = task[c]
          BY <1>1
        <5>2. task'[c].stage = "idle" \/ (task'[c].stage = "send" /\ task'[c].stat = e.stat)
          <6>1. CASE task' = [task EXCEPT ![c] = NoTask]
            BY <1>1, <6>1 DEF NoTask
          <6>2. CASE task' = [task EXCEPT ![c] = [e EXCEPT !.stage = "send", !.want = n]]
            BY <1>1, <5>1, <6>2 DEF Task
          <6> QED BY <4>1, <5>0, <5>1, <6>1, <6>2 DEF GetsSize, Begin, End
        <5>3. task[c].stage = "getsSize"
          BY <4>1 DEF GetsSize
        <5>4. \A x \in Clients \ {c} : task'[x] = task[x]
          BY <1>1, <4>1 DEF GetsSize, Begin, End
        <5> QED BY <5>1, <5>2, <5>3, <5>4
      <4>2. CASE PutsSize(c)
        BY <1>1, <4>2 DEF PutsSize, Begin, Task
      <4>3. CASE ~GetsSize(c) /\ ~PutsSize(c)
        BY <1>1, <2>3, <4>3 DEF WorkerStep, DoTaskGets, DoTaskPuts, SendBody, SendBytes, Killed, GetsBroken,
           Record, RecordBroken, Insert, End, NoTask
      <4> QED BY <4>1, <4>2, <4>3
    <3>4. OneWriter'
      BY <1>1, <3>1, <3>3, OneWriterKept
    <3> QED BY <3>2, <3>4
  <2> QED BY <2>1, <2>2, <2>3
<1>4. ASSUME NEW d \in Clients PROVE CopyOK(d)'
  <2>1. CopyOK(d) /\ local'[d] = local[d]
    BY <1>1, <1>2
  <2>2. CASE Killed(c)
    <3>1. cst'[d] = "gone"
      BY <2>2 DEF Killed
    <3> QED BY <2>1, <3>1, CopyKept
  <2>3. CASE ~Killed(c)
    <3>1. cst' = cst
      BY <2>3 DEF WorkerStep, DoTaskGets, DoTaskPuts, StartGets, GetsSize, SendBody, SendBytes, GetsBroken,
         StartPuts, PutsSize, RecvBody, Recv, Record, RecordBroken, Insert, clientVars
    <3>2. CASE down'[d] = down[d]
      BY <2>1, <3>1, <3>2, CopySame
    <3>3. CASE d # c \/ (~StartGets(c) /\ ~StartPuts(c) /\ ~SendBody(c))
      <4>1. down'[d] = down[d]
        BY <1>1, <2>3, <3>3 DEF WorkerStep, DoTaskGets, DoTaskPuts, StartGets, GetsSize, SendBody, SendBytes, GetsBroken,
           StartPuts, PutsSize, RecvBody, Recv, Record, RecordBroken, Insert, Reply
      <4> QED BY <3>2, <4>1
    <3>4. CASE d = c /\ (StartGets(c) \/ StartPuts(c))
      <4>1. cst[c] # "download"
        BY <1>1, <3>4, CommandOf DEF StartGets, StartPuts
      <4> QED BY <2>1, <3>1, <3>4, <4>1, CopyKept
    <3>5. CASE d = c /\ SendBody(c)
      <4>1. SendOK(c)
        BY <1>1, <3>5 DEF SendBody, SendBytes, Linked
      <4>2. CASE cst[c] # "download"
        BY <2>1, <3>1, <3>5, <4>2, CopyKept
      <4>3. CASE cst[c] = "download"
        <5>1. PICK w \in Nat, n \in Nat, s \in Seq(Nat) : w = task[c].want /\ n = task[c].stat /\ s = disk
          BY <1>1, ClientTypes
        <5>2. down[c] = <<>> /\ w = Len(local[c]) /\ w < n /\ n = Len(s)
          BY <1>1, <3>5, <4>1, <4>3, <5>1 DEF SendOK, OneWriter, SendBody, SendBytes
        <5>3. PICK b \in Seq(Messages) : b = Body(s, w, n)
          BY <5>1, BodySeq
        <5>4. Len(b) = n - w /\ \A j \in 1 .. n - w : b[j].n = s[w + j]
          BY <5>1, <5>2, <5>3, BodySeq
        <5>5. down'[c] = b
          <6>1. Reply(c, b)
            BY <3>5, <5>1, <5>3 DEF SendBody, SendBytes, Body, Part
          <6>2. down' = [down EXCEPT ![c] = @ \o b]
            BY <4>3, <6>1 DEF Reply
          <6>3. <<>> \o b = b
            BY <5>3
          <6> QED BY <1>1, <5>2, <6>2, <6>3
        <5>6. \A i \in 1 .. n : i <= Size => s[i] = i
          BY <1>1, <5>1, <5>2, TransferConstants DEF IsContent, Least
        <5>7. ASSUME NEW j \in 1 .. n - w, w + j <= Size PROVE b[j].n = w + j
          <6>1. w + j \in 1 .. n
            BY <5>1, <5>2
          <6> QED BY <5>4, <5>6, <5>7, <6>1
        <5>8. \A j \in 1 .. Len(down'[c]) : Len(local'[c]) + j <= Size => down'[c][j].n = Len(local'[c]) + j
          BY <2>1, <3>5, <5>2, <5>4, <5>5, <5>7
        <5>9. IsContent(local[c])'
          BY <2>1, <3>5 DEF CopyOK, IsContent, Least
        <5> QED BY <3>5, <5>8, <5>9 DEF CopyOK
      <4> QED BY <4>2, <4>3
    <3> QED BY <3>3, <3>4, <3>5
  <2> QED BY <2>2, <2>3
<1> QED BY <1>3, <1>4 DEF Apart

----------------------------------------------------------------------------
(* The invariant *)

LEMMA InitTransfer == Init => TransferInv
<1> SUFFICES ASSUME Init PROVE TransferInv
  OBVIOUS
<1> USE DEF Init
<1>1. NoTask \in Task /\ NoTask.stage = "idle" /\ "prompt" \in ClientStates
  BY DEF NoTask, Task, ClientStates
<1>2. TypeOK
  <2>1. <<>> \in Seq(Nat) /\ <<>> \in Seq(Messages) /\ 0 \in Nat
    OBVIOUS
  <2>2. cst \in [Clients -> ClientStates] /\ task \in [Clients -> Task]
    BY <1>1
  <2>3. local \in [Clients -> Seq(Nat)] /\ cwant \in [Clients -> Nat] /\ sent \in [Clients -> Nat]
    BY <2>1
  <2>4. up \in [Clients -> Seq(Messages)] /\ down \in [Clients -> Seq(Messages)]
    BY <2>1
  <2>5. disk \in Seq(Nat) /\ exists \in BOOLEAN /\ mixed \in BOOLEAN /\ breaks \in Nat
        /\ rows \subseteq [owner : Clients, size : Nat, ok : BOOLEAN]
    BY <2>1
  <2>6. \A c \in Clients : task[c].stage = "idle"
    BY <1>1
  <2> QED BY <2>2, <2>3, <2>4, <2>5, <2>6 DEF TypeOK
<1>3. TypeInv
  BY <1>1, <1>2 DEF TypeInv
<1>4. UploadComplete
  BY DEF UploadComplete
<1>5. \A c \in Clients : Linked(c)
  BY <1>1, NothingSent DEF Linked, IdleOK, Extras
<1>6. IsContent(<<>>)
  BY TransferConstants DEF IsContent, Least
<1>7. Apart
  BY <1>1, <1>6 DEF Apart, OneWriter, CopyOK, Writing
<1> QED BY <1>3, <1>4, <1>5, <1>7 DEF TransferInv

LEMMA NextTransfer == TransferInv /\ [Next]_vars => TransferInv'
<1> SUFFICES ASSUME TransferInv, [Next]_vars PROVE TransferInv'
  OBVIOUS
<1>1. CASE Next
  <2>1. TypeInv' /\ UploadComplete'
    BY <1>1, TypeNext, CompleteNext
  <2>2. (\A c \in Clients : Linked(c))' /\ (mixed => mixed')
    BY <1>1, LinkedNext
  <2>3. ASSUME ~mixed' PROVE Apart'
    <3>1. Apart
      BY <2>2, <2>3 DEF TransferInv
    <3> QED BY <1>1, <2>3, <3>1, ClientApart, WorkerApart DEF Next
  <2> QED BY <2>1, <2>2, <2>3 DEF TransferInv
<1>2. CASE UNCHANGED vars
  <2>1. /\ UNCHANGED <<cst, local, cwant, sent, up, down, task, disk, exists, rows, mixed, breaks>>
    BY <1>2 DEF vars, clientVars, storeVars
  <2>2. TypeInv' /\ UploadComplete'
    BY <2>1 DEF TransferInv, TypeInv, TypeOK, UploadComplete
  <2>3. \A c \in Clients : Linked(c)'
    <3>1. ASSUME NEW c \in Clients PROVE Linked(c)'
      <4>1. Same(c) /\ Linked(c)
        BY <2>1 DEF Same, TransferInv
      <4> QED BY <2>1, <4>1, LinkedSame
    <3> QED BY <3>1
  <2>4. ASSUME Apart PROVE Apart'
    <3>1. OneWriter'
      BY <2>1, <2>4, OneWriterKept DEF Apart
    <3>2. IsContent(disk)'
      BY <2>1, <2>4 DEF Apart, IsContent, Least
    <3>3. ASSUME NEW c \in Clients PROVE CopyOK(c)'
      <4>1. CopyOK(c)
        BY <2>4 DEF Apart
      <4> QED BY <2>1, <4>1, CopySame
    <3> QED BY <3>1, <3>2, <3>3 DEF Apart
  <2> QED BY <2>1, <2>2, <2>3, <2>4 DEF TransferInv
<1> QED BY <1>1, <1>2

LEMMA TransferInvariant == Spec => []TransferInv
  BY InitTransfer, NextTransfer, PTL DEF Spec

----------------------------------------------------------------------------
(* What follows *)

\* The state has its type; and what is stored under the MD5, and every client's file,
\* begins with the content, whatever breaks off and is resumed: recv_file and send_file
\* go on where the other side says it stopped.
THEOREM CopiesAreContent == Spec => []CopiesArePrefixes
<1>1. TransferInv => CopiesArePrefixes
  BY DEF TransferInv, TypeInv, CopiesArePrefixes, Apart, CopyOK
<1> QED BY <1>1, TransferInvariant, PTL

\* An upload that recv_file reports as done has stored as many bytes as the content has.
THEOREM DoneMeansStored == Spec => []UploadComplete
<1>1. TransferInv => UploadComplete
  BY DEF TransferInv
<1> QED BY <1>1, TransferInvariant, PTL

\* No byte of content is left where main of the server reads a command or the client
\* program an answer.
THEOREM NoByteLeftOver == Spec => []InStep
<1>1. ASSUME TransferInv PROVE InStep
  <2>1. SUFFICES ASSUME ~mixed, NEW c \in Clients
                 PROVE  /\ Idle(c) => ~Arrived(c, "byte")
                        /\ cst[c] \in {"prompt", "gets", "puts"} => ~Answered(c, "byte")
    BY DEF InStep
  <2>2. TypeInv /\ Linked(c) /\ up[c] \in Seq(Messages) /\ down[c] \in Seq(Messages)
    BY <1>1, ClientTypes DEF TransferInv
  <2>3. ASSUME Idle(c), Arrived(c, "byte") PROVE FALSE
    <3>1. up[c] # <<>> /\ Head(up[c]).type = "byte" /\ Follows(cst[c], up[c], 0)
      BY <2>2, <2>3 DEF Idle, Arrived, Linked, IdleOK
    <3>2. Head(up[c]).type \in {"gets", "puts", "tail"}
      BY <2>2, <3>1, FollowsNone
    <3> QED BY <3>1, <3>2
  <2>4. ASSUME cst[c] \in {"prompt", "gets", "puts"}, Answered(c, "byte") PROVE FALSE
    <3>1. down[c] # <<>> /\ Head(down[c]).type = "byte"
      BY <2>4 DEF Answered
    <3>2. \A type, n : Answers(down[c], type, n) => Head(down[c]) = Msg(type, n)
      <4>1. ASSUME NEW type, NEW n, Answers(down[c], type, n) PROVE Head(down[c]) = Msg(type, n)
        <5>1. Len(down[c]) = 1 /\ down[c][1] = Msg(type, n)
          BY <2>1, <4>1 DEF Answers
        <5> QED BY <2>2, <3>1, <5>1
      <4> QED BY <4>1
    <3>3. \A n \in Nat : Msg("refused", n).type = "refused" /\ Msg("header", n).type = "header"
      BY MsgType
    <3>4. \A n \in Nat : ~Answers(down[c], "refused", n) /\ ~Answers(down[c], "header", n)
      BY <3>1, <3>2, <3>3
    <3>5. ~Extras(down[c])
      BY <2>1, <3>1 DEF Extras
    <3>6. task[c].stage \in {"idle", "getsSize", "send", "putsSize", "recv", "record"} /\ task[c].stat \in Nat
      BY <2>2, ClientTypes DEF Task
    <3>7. cst[c] # "gone" /\ cst[c] # "download" /\ cst[c] # "upload"
      BY <2>4
    <3> QED BY <2>2, <3>1, <3>4, <3>5, <3>6, <3>7
            DEF Linked, IdleOK, GetsSizeOK, SendOK, PutsSizeOK, RecvOK, RecordOK
  <2> QED BY <2>3, <2>4
<1> QED BY <1>1, TransferInvariant, PTL

\* No step shortens the stored file, and none changes what it begins with unless uploads
\* overlapped: a resumed upload appends, and the server may have died in between.
THEOREM NothingStoredIsLost == Spec => StoredStays
<1>1. ASSUME TransferInv, Next
      PROVE  Len(disk') >= Len(disk) /\ (mixed' \/ SubSeq(disk', 1, Len(disk)) = disk)
  <2>1. TypeInv /\ disk \in Seq(Nat) /\ disk' \in Seq(Nat) /\ Len(disk') >= Len(disk)
    BY <1>1, TypeNext DEF TransferInv, TypeInv, TypeOK
  <2>2. PICK v \in Seq(Nat), w \in Seq(Nat), a \in Nat : v = disk /\ w = disk' /\ a = Len(v)
    BY <2>1, EmptyLen
  <2>3. ASSUME ~mixed' PROVE \A i \in 1 .. a : w[i] = v[i]
    <3>1. Apart
      BY <1>1, <2>3, LinkedNext DEF TransferInv
    <3>2. CASE w = v
      BY <3>2
    <3>3. CASE w # v
      <4>1. PICK c \in Clients : RecvBody(c)
        BY <1>1, <2>2, <3>3, ClientTypeNext
           DEF Next, WorkerStep, DoTaskGets, DoTaskPuts, StartGets, GetsSize, SendBody, SendBytes, Killed,
               GetsBroken, StartPuts, OpenStored, PutsSize, Record, RecordBroken, Insert, storeVars
      <4>2. PICK k \in 1 .. Least(Chunk, Len(up[c])) : Recv(c, k)
        BY <4>1 DEF RecvBody
      <4>3. task[c].total = a
        BY <2>2, <3>1, <4>2 DEF Apart, OneWriter, Recv, Writing
      <4>4. PICK s \in Seq(Nat) : w = v \o s
        BY <1>1, <2>2, <4>2, <4>3, RecvStored
      <4> QED BY <2>2, <4>4, ConcatSeq
    <3> QED BY <3>2, <3>3
  <2>4. ASSUME \A i \in 1 .. a : w[i] = v[i] PROVE SubSeq(w, 1, a) = v
    <3>1. a \in 0 .. Len(w)
      BY <2>1, <2>2, EmptyLen
    <3>2. PICK f : f = SubSeq(w, 1, a)
      OBVIOUS
    <3>3. f \in Seq(Nat) /\ Len(f) = a /\ \A i \in 1 .. a : f[i] = w[i]
      BY <2>2, <3>1, <3>2, FrontSeq
    <3>4. f = v
      BY <2>2, <2>4, <3>3, SeqEqual
    <3> QED BY <3>2, <3>4
  <2> QED BY <2>1, <2>2, <2>3, <2>4
<1>2. TransferInv /\ [Next]_vars =>
         [Len(disk') >= Len(disk) /\ (mixed' \/ SubSeq(disk', 1, Len(disk)) = disk)]_vars
  BY <1>1
<1> QED BY <1>2, TransferInvariant, PTL DEF Spec, StoredStays

============================================================================
