----------------------------- MODULE FileProofs ------------------------------
(***************************************************************************)
(* Programs about files and lists.  Downloads of the thread pool and       *)
(* process pool servers, for files, messages and old local files of any    *)
(* size: a client writes nothing but the beginning of the file, and has    *)
(* all of it when it ends well.  The linked list, for any elements.  The   *)
(* directory walks, for any directory tree: a walk prints every entry      *)
(* that stays reachable, once.                                             *)
(***************************************************************************)
EXTENDS FileTransfer, LinkList, DirectoryWalk, Integers, SequenceTheorems,
        FiniteSetTheorems, WellFoundedInduction, TLAPS

----------------------------------------------------------------------------
(* The messages of a framed content *)

\* The length of the message that starts at byte p of the file.
Frame(p) == Shorter(FrameSize, FileSize - p)

\* The first m tokens of c are whole messages.  They start at the positions in starts, and at
\* tells with which byte of the file; after them may come the beginning of one more.
Chain(c, m, starts, at) ==
    /\ 1 \in starts /\ m + 1 \in starts
    /\ \A i \in starts : i # m + 1 =>
          /\ c[i] = Token("len", Frame(at[i]))
          /\ \A r \in 1 .. Frame(at[i]) : c[i + r] = Token("byte", at[i] + r)
          /\ i + Frame(at[i]) + 1 \in starts
          /\ at[i + Frame(at[i]) + 1] = at[i] + Frame(at[i])
    /\ Len(c) - m <= Frame(at[m + 1])
    /\ \A r \in 1 .. Len(c) - m :
          c[m + r] = IF r = 1 THEN Token("len", Frame(at[m + 1]))
                              ELSE Token("byte", at[m + 1] + (r - 1))

\* c is what the client has yet to read of a framed content, from byte p of the file on, when
\* the server in state s has sent q bytes of it: whole messages unless the server was
\* killed, and an empty one at the end if it has closed the connection.
Framed(c, p, q, s) ==
    \E m \in 0 .. Len(c) : \E starts \in SUBSET (1 .. m + 1) : \E at \in [starts -> 0 .. FileSize] :
        /\ Chain(c, m, starts, at) /\ at[1] = p /\ at[m + 1] = q
        /\ s # "killed" => m = Len(c)
        /\ s = "closed" => m >= 1 /\ m \in starts /\ at[m] = FileSize

Tokens == [type : {"name", "size", "len", "byte"}, n : Nat]

LEMMA FrameSizes ==
    ASSUME NEW p \in 0 .. FileSize
    PROVE  /\ Frame(p) \in Nat /\ p + Frame(p) \in 0 .. FileSize
           /\ Frame(p) = 0 <=> p = FileSize
  BY TransferConstants DEF Frame, Shorter

LEMMA TokenTyped == ASSUME NEW n \in Nat, NEW type \in {"name", "size", "len", "byte"}
                    PROVE  Token(type, n) \in Tokens
  BY DEF Token, Tokens

\* The message that starts at byte p.
FrameMessage(p) == <<Token("len", Frame(p))>> \o Bytes(p, Frame(p))

LEMMA MessageIs ==
    ASSUME NEW p \in 0 .. FileSize
    PROVE  /\ FrameMessage(p) \in Seq(Tokens) /\ Len(FrameMessage(p)) = Frame(p) + 1
           /\ FrameMessage(p)[1] = Token("len", Frame(p))
           /\ \A r \in 1 .. Frame(p) : FrameMessage(p)[r + 1] = Token("byte", p + r)
<1>1. Frame(p) \in Nat
  BY FrameSizes
<1>2. \A r \in 1 .. Frame(p) : Token("byte", p + r) \in Tokens
  BY <1>1, TokenTyped, TransferConstants
<1>3. Bytes(p, Frame(p)) \in Seq(Tokens) /\ Len(Bytes(p, Frame(p))) = Frame(p)
  BY <1>1, <1>2 DEF Bytes
<1>4. \A r \in 1 .. Frame(p) : Bytes(p, Frame(p))[r] = Token("byte", p + r)
  BY <1>1 DEF Bytes
<1>5. PICK b \in Seq(Tokens) : b = Bytes(p, Frame(p))
  BY <1>3
<1>6. PICK t \in Tokens : t = Token("len", Frame(p))
  BY <1>1, TokenTyped
<1>7. /\ <<t>> \o b \in Seq(Tokens) /\ Len(<<t>> \o b) = Len(b) + 1 /\ (<<t>> \o b)[1] = t
      /\ \A r \in 1 .. Len(b) : (<<t>> \o b)[r + 1] = b[r]
  OBVIOUS
<1> QED BY <1>3, <1>4, <1>5, <1>6, <1>7 DEF FrameMessage

LEMMA Joined ==
    ASSUME NEW a \in Seq(Tokens), NEW b \in Seq(Tokens)
    PROVE  /\ a \o b \in Seq(Tokens) /\ Len(a \o b) = Len(a) + Len(b)
           /\ \A i \in 1 .. Len(a) : (a \o b)[i] = a[i]
           /\ \A i \in 1 .. Len(b) : (a \o b)[Len(a) + i] = b[i]
  OBVIOUS

LEMMA Prefix ==
    ASSUME NEW s \in Seq(Tokens), NEW k \in 0 .. Len(s)
    PROVE  /\ SubSeq(s, 1, k) \in Seq(Tokens) /\ Len(SubSeq(s, 1, k)) = k
           /\ \A i \in 1 .. k : SubSeq(s, 1, k)[i] = s[i]
  OBVIOUS

LEMMA Suffix ==
    ASSUME NEW s \in Seq(Tokens), NEW k \in 0 .. Len(s)
    PROVE  /\ SubSeq(s, k + 1, Len(s)) \in Seq(Tokens)
           /\ Len(SubSeq(s, k + 1, Len(s))) = Len(s) - k
           /\ \A i \in 1 .. Len(s) - k : SubSeq(s, k + 1, Len(s))[i] = s[i + k]
  OBVIOUS

\* A whole message is appended ...
LEMMA AppendMessage ==
    ASSUME NEW c \in Seq(Tokens), NEW starts \in SUBSET (1 .. Len(c) + 1),
           NEW at \in [starts -> 0 .. FileSize], Chain(c, Len(c), starts, at),
           NEW p \in 0 .. FileSize, p = at[Len(c) + 1], NEW d \in Seq(Tokens), d = c \o FrameMessage(p)
    PROVE  Framed(d, at[1], p + Frame(p), IF p = FileSize THEN "closed" ELSE "content")
<1>1. /\ Frame(p) \in Nat /\ p + Frame(p) \in 0 .. FileSize
  BY FrameSizes
<1>2. /\ FrameMessage(p) \in Seq(Tokens) /\ Len(FrameMessage(p)) = Frame(p) + 1
      /\ FrameMessage(p)[1] = Token("len", Frame(p))
      /\ \A r \in 1 .. Frame(p) : FrameMessage(p)[r + 1] = Token("byte", p + r)
  BY MessageIs
<1>3. PICK m \in Nat : m = Len(c)
  OBVIOUS
<1>4. PICK f \in Nat : f = Frame(p)
  BY <1>1
<1>5. /\ Len(d) = m + f + 1
      /\ \A i \in 1 .. m : d[i] = c[i]
      /\ \A r \in 1 .. f + 1 : d[m + r] = FrameMessage(p)[r]
  <2>1. PICK b \in Seq(Tokens) : b = FrameMessage(p)
    BY <1>2
  <2>2. d = c \o b /\ Len(b) = f + 1
    BY <2>1, <1>2, <1>4
  <2>3. /\ Len(c \o b) = Len(c) + Len(b)
        /\ \A i \in 1 .. Len(c) : (c \o b)[i] = c[i]
        /\ \A i \in 1 .. Len(b) : (c \o b)[Len(c) + i] = b[i]
    BY Joined
  <2>4. Len(d) = m + (f + 1)
    BY <1>3, <2>2, <2>3
  <2>5. \A r \in 1 .. f + 1 : d[m + r] = b[r]
    BY <1>3, <2>2, <2>3
  <2> QED BY <1>3, <2>1, <2>2, <2>3, <2>4, <2>5
<1> DEFINE more == starts \cup {m + f + 2}
           to   == [i \in more |-> IF i = m + f + 2 THEN p + f ELSE at[i]]
<1>6. more \in SUBSET (1 .. Len(d) + 1) /\ to \in [more -> 0 .. FileSize]
  <2>1. m + f + 2 = Len(d) + 1 /\ p + f \in 0 .. FileSize
    BY <1>1, <1>4, <1>5
  <2>2. \A i \in starts : i \in 1 .. Len(d) + 1 /\ at[i] \in 0 .. FileSize
    BY <1>3, <1>5
  <2>3. \A i \in more : (i = m + f + 2 \/ i \in starts) /\ i \in 1 .. Len(d) + 1
    <3>1. m + f + 2 \in 1 .. Len(d) + 1
      BY <1>5
    <3>2. \A i \in more : i = m + f + 2 \/ i \in starts
      OBVIOUS
    <3> QED BY <2>2, <3>1, <3>2
  <2>4. \A i \in more : to[i] \in 0 .. FileSize
    BY <2>1, <2>2, <2>3
  <2> QED BY <2>3, <2>4
<1>7. /\ 1 \in starts /\ m + 1 \in starts /\ \A i \in starts : i \in 1 .. m + 1
  BY <1>3 DEF Chain
<1>8. /\ \A i \in starts : i \in more /\ to[i] = at[i]
      /\ m + f + 2 \in more /\ to[m + f + 2] = p + f
  BY <1>7
<1>9. ASSUME NEW i \in starts, i # m + 1
      PROVE  /\ d[i] = Token("len", Frame(at[i]))
             /\ \A r \in 1 .. Frame(at[i]) : d[i + r] = Token("byte", at[i] + r)
             /\ i + Frame(at[i]) + 1 \in starts
             /\ at[i + Frame(at[i]) + 1] = at[i] + Frame(at[i])
  <2>1. PICK g \in Nat : g = Frame(at[i])
    BY FrameSizes
  <2>2. /\ c[i] = Token("len", g) /\ \A r \in 1 .. g : c[i + r] = Token("byte", at[i] + r)
        /\ i + g + 1 \in starts /\ at[i + g + 1] = at[i] + g
    BY <1>3, <1>9, <2>1 DEF Chain
  <2>3. i + g + 1 <= m + 1 /\ i \in 1 .. m
    BY <1>7, <1>9, <2>2
  <2>4. \A r \in 1 .. g : i + r \in 1 .. m
    BY <2>3
  <2> QED BY <1>5, <2>1, <2>2, <2>3, <2>4
<1>10. /\ d[m + 1] = Token("len", f) /\ \A r \in 1 .. f : d[m + 1 + r] = Token("byte", p + r)
  <2>1. 1 \in 1 .. f + 1 /\ \A r \in 1 .. f : r + 1 \in 1 .. f + 1 /\ m + 1 + r = m + (r + 1)
    OBVIOUS
  <2> QED BY <1>2, <1>4, <1>5, <2>1
<1>11. at[m + 1] = p
  BY <1>3
<1> HIDE DEF more, to
<1>12. \A i \in more : i # Len(d) + 1 => i \in starts
  BY <1>5 DEF more
<1>13. ASSUME NEW i \in more, i # Len(d) + 1
       PROVE  /\ d[i] = Token("len", Frame(to[i]))
              /\ \A r \in 1 .. Frame(to[i]) : d[i + r] = Token("byte", to[i] + r)
              /\ i + Frame(to[i]) + 1 \in more
              /\ to[i + Frame(to[i]) + 1] = to[i] + Frame(to[i])
  <2>1. i \in starts /\ to[i] = at[i]
    BY <1>8, <1>12, <1>13
  <2>2. CASE i = m + 1
    <3>1. to[i] = p /\ Frame(to[i]) = f /\ i + f + 1 = m + f + 2
      BY <1>4, <1>11, <2>1, <2>2
    <3> QED BY <1>8, <1>10, <2>2, <3>1
  <2>3. CASE i # m + 1
    <3>1. PICK g \in Nat : g = Frame(at[i])
      BY <2>1, FrameSizes
    <3>2. /\ d[i] = Token("len", g) /\ \A r \in 1 .. g : d[i + r] = Token("byte", at[i] + r)
          /\ i + g + 1 \in starts /\ at[i + g + 1] = at[i] + g
      BY <1>9, <2>1, <2>3, <3>1
    <3>3. i + g + 1 \in more /\ to[i + g + 1] = at[i] + g
      BY <1>8, <3>2
    <3> QED BY <2>1, <3>1, <3>2, <3>3
  <2> QED BY <2>2, <2>3
<1>14. Len(d) - Len(d) = 0 /\ Frame(to[Len(d) + 1]) \in Nat
  BY <1>5, <1>6, <1>8, FrameSizes
<1>15. Len(d) + 1 = m + f + 2 /\ Len(d) \in Nat
  BY <1>5
<1>16. 1 \in more /\ Len(d) + 1 \in more
  BY <1>7, <1>8, <1>15
<1>17. Len(d) - Len(d) <= Frame(to[Len(d) + 1]) /\ 1 .. Len(d) - Len(d) = {}
  BY <1>14
<1>18. Chain(d, Len(d), more, to)
  BY <1>13, <1>16, <1>17 DEF Chain
<1>19. to[1] = at[1] /\ to[Len(d) + 1] = p + Frame(p) /\ Len(c) + 1 \in more /\ to[Len(c) + 1] = p
  BY <1>3, <1>4, <1>7, <1>8, <1>11, <1>15
<1>20. p = FileSize => Len(d) = Len(c) + 1 /\ Len(c) + 1 >= 1 /\ to[Len(d)] = FileSize /\ Len(d) \in more
  <2>1. p = FileSize => f = 0
    BY <1>4, FrameSizes
  <2> QED BY <1>3, <1>15, <1>19, <2>1
<1>21. Len(d) \in 0 .. Len(d) /\ Len(d) = Len(d)
  BY <1>15
<1> QED BY <1>6, <1>18, <1>19, <1>20, <1>21 DEF Framed

\* ... or the beginning of one, ...
LEMMA AppendPart ==
    ASSUME NEW c \in Seq(Tokens), NEW starts \in SUBSET (1 .. Len(c) + 1),
           NEW at \in [starts -> 0 .. FileSize], Chain(c, Len(c), starts, at),
           NEW p \in 0 .. FileSize, p = at[Len(c) + 1],
           NEW k \in 0 .. Frame(p), NEW d \in Seq(Tokens), d = c \o SubSeq(FrameMessage(p), 1, k)
    PROVE  Chain(d, Len(c), starts, at) /\ Len(c) <= Len(d)
<1>1. PICK f \in Nat : f = Frame(p)
  BY FrameSizes
<1>2. PICK b \in Seq(Tokens) : b = FrameMessage(p) /\ Len(b) = f + 1
  BY <1>1, MessageIs
<1>3. PICK e \in Seq(Tokens) : e = SubSeq(b, 1, k)
  <2>1. k \in 0 .. Len(b)
    BY <1>1, <1>2
  <2> QED BY <2>1, Prefix
<1>4. Len(e) = k /\ \A r \in 1 .. k : e[r] = b[r]
  <2>1. k \in 0 .. Len(b)
    BY <1>1, <1>2
  <2> QED BY <2>1, <1>3, Prefix
<1>5. /\ Len(d) = Len(c) + k /\ k \in 0 .. f
      /\ \A i \in 1 .. Len(c) : d[i] = c[i]
      /\ \A r \in 1 .. k : d[Len(c) + r] = e[r]
  <2>1. d = c \o e
    BY <1>2, <1>3
  <2>2. /\ Len(c \o e) = Len(c) + Len(e)
        /\ \A i \in 1 .. Len(c) : (c \o e)[i] = c[i]
        /\ \A i \in 1 .. Len(e) : (c \o e)[Len(c) + i] = e[i]
    BY Joined
  <2> QED BY <2>1, <2>2, <1>1, <1>4
<1>6. \A r \in 1 .. k : e[r] = IF r = 1 THEN Token("len", f) ELSE Token("byte", p + (r - 1))
  <2>1. b[1] = Token("len", f) /\ \A r \in 1 .. f : b[r + 1] = Token("byte", p + r)
    BY <1>1, <1>2, MessageIs
  <2>2. \A r \in 1 .. k : r # 1 => r - 1 \in 1 .. f /\ (r - 1) + 1 = r
    BY <1>5
  <2> QED BY <1>4, <2>1, <2>2
<1>7. PICK m \in Nat : m = Len(c)
  OBVIOUS
<1>8. ASSUME NEW i \in starts, i # m + 1
      PROVE  /\ d[i] = Token("len", Frame(at[i]))
             /\ \A r \in 1 .. Frame(at[i]) : d[i + r] = Token("byte", at[i] + r)
             /\ i + Frame(at[i]) + 1 \in starts
             /\ at[i + Frame(at[i]) + 1] = at[i] + Frame(at[i])
  <2>1. PICK g \in Nat : g = Frame(at[i])
    BY FrameSizes
  <2>2. /\ c[i] = Token("len", g) /\ \A r \in 1 .. g : c[i + r] = Token("byte", at[i] + r)
        /\ i + g + 1 \in starts /\ at[i + g + 1] = at[i] + g
    BY <1>7, <1>8, <2>1 DEF Chain
  <2>3. i + g + 1 <= m + 1 /\ i \in 1 .. m
    BY <1>7, <1>8, <2>2
  <2>4. \A r \in 1 .. g : i + r \in 1 .. m
    BY <2>3
  <2> QED BY <1>5, <1>7, <2>1, <2>2, <2>3, <2>4
<1>9. Len(d) - m = k /\ k <= Frame(at[m + 1]) /\ m <= Len(d)
  BY <1>1, <1>5, <1>7
<1>10. \A r \in 1 .. k :
          d[m + r] = IF r = 1 THEN Token("len", Frame(at[m + 1])) ELSE Token("byte", at[m + 1] + (r - 1))
  BY <1>1, <1>5, <1>6, <1>7
<1>11. 1 \in starts /\ m + 1 \in starts
  BY <1>7 DEF Chain
<1>12. Chain(d, m, starts, at)
  BY <1>8, <1>9, <1>10, <1>11 DEF Chain
<1> QED BY <1>7, <1>9, <1>12

\* ... and a whole one is taken.
LEMMA FirstMessage ==
    ASSUME NEW c \in Seq(Tokens), NEW m \in 1 .. Len(c),
           NEW starts \in SUBSET (1 .. m + 1), NEW at \in [starts -> 0 .. FileSize],
           Chain(c, m, starts, at), NEW f \in Nat, f = Frame(at[1])
    PROVE  /\ c[1] = Token("len", f) /\ \A r \in 1 .. f : c[1 + r] = Token("byte", at[1] + r)
           /\ f + 2 \in starts /\ at[f + 2] = at[1] + f /\ f + 1 <= m
<1>1. 1 \in starts /\ m \in Nat /\ 1 # m + 1
  BY DEF Chain
<1>2. /\ c[1] = Token("len", f) /\ \A r \in 1 .. f : c[1 + r] = Token("byte", at[1] + r)
      /\ 1 + f + 1 \in starts /\ at[1 + f + 1] = at[1] + f
  BY <1>1 DEF Chain
<1>3. 1 + f + 1 = f + 2
  OBVIOUS
<1>4. \A i \in starts : i \in 1 .. m + 1
  OBVIOUS
<1>5. f + 2 \in 1 .. m + 1
  BY <1>2, <1>3, <1>4
<1> QED BY <1>1, <1>2, <1>3, <1>5

\* d is c without its first k tokens.
Without(c, k, d) ==
    /\ Len(d) = Len(c) - k
    /\ \A i \in 1 .. Len(d) : d[i] = c[i + k]

\* Places in front of which k bytes are taken.
LEMMA Shifted ==
    ASSUME NEW i \in Nat, NEW k \in Nat, NEW g \in Nat, NEW m \in Nat, NEW q \in Nat, q + k = m,
           NEW j \in Nat, j = i + k, NEW e \in Nat, e = j + g + 1, e <= m + 1, 1 <= i
    PROVE  e > k /\ e - k = i + g + 1 /\ i + g <= q
  OBVIOUS

LEMMA DropMessage ==
    ASSUME NEW c, NEW d, Len(c) \in Nat, Len(d) \in Nat,
           NEW m \in Nat, NEW k \in Nat, 1 <= k, k <= m, m <= Len(c), Without(c, k, d),
           NEW starts \in SUBSET (1 .. m + 1), NEW at \in [starts -> 0 .. FileSize],
           Chain(c, m, starts, at), k + 1 \in starts,
           NEW s, s # "killed" => m = Len(c),
           s = "closed" => m \in starts /\ at[m] = FileSize /\ m # k
    PROVE  Framed(d, at[k + 1], at[m + 1], s)
<1>1. PICK q \in Nat : q = m - k /\ q + k = m
  OBVIOUS
<1> DEFINE rest == {i \in 1 .. q + 1 : i + k \in starts}
           to   == [i \in rest |-> at[i + k]]
<1>2. /\ \A i \in rest : i + k \in starts /\ to[i] = at[i + k] /\ i \in 1 .. q + 1
      /\ \A i \in 1 .. q + 1 : i + k \in starts => i \in rest
      /\ rest \in SUBSET (1 .. q + 1)
  OBVIOUS
<1>3. to \in [rest -> 0 .. FileSize]
  BY <1>2
<1> HIDE DEF rest, to
<1>4. \A i \in starts : i > k => /\ i - k \in rest /\ to[i - k] = at[i]
  <2> SUFFICES ASSUME NEW i \in starts, i > k PROVE i - k \in rest /\ to[i - k] = at[i]
    OBVIOUS
  <2>1. i \in 1 .. m + 1
    OBVIOUS
  <2>2. i - k \in 1 .. q + 1 /\ (i - k) + k = i
    BY <1>1, <2>1
  <2> QED BY <1>2, <2>2
<1>5. 1 \in starts /\ m + 1 \in starts
  BY DEF Chain
<1>6. 1 \in rest /\ to[1] = at[k + 1]
  <2>1. k + 1 > k /\ (k + 1) - k = 1
    OBVIOUS
  <2> QED BY <1>4, <2>1
<1>7. q + 1 \in rest /\ to[q + 1] = at[m + 1]
  <2>1. m + 1 > k /\ (m + 1) - k = q + 1
    BY <1>1
  <2> QED BY <1>4, <1>5, <2>1
<1>8. \A i \in 1 .. Len(d) : d[i] = c[i + k]
  BY DEF Without
<1>9. PICK l \in Nat : l = Len(d) - q /\ l = Len(c) - m
  <2>1. PICK x \in Nat, y \in Nat : x = Len(c) /\ y = Len(d)
    OBVIOUS
  <2>2. y = x - k /\ m <= x
    BY <2>1 DEF Without
  <2>3. x - m \in Nat /\ y - q = x - m
    BY <1>1, <2>1, <2>2
  <2> QED BY <2>1, <2>3
<1>10. ASSUME NEW i \in rest, i # q + 1
       PROVE  /\ d[i] = Token("len", Frame(to[i]))
              /\ \A r \in 1 .. Frame(to[i]) : d[i + r] = Token("byte", to[i] + r)
              /\ i + Frame(to[i]) + 1 \in rest
              /\ to[i + Frame(to[i]) + 1] = to[i] + Frame(to[i])
  <2>1. i \in 1 .. q
    BY <1>2, <1>10
  <2>2. i + k \in starts /\ to[i] = at[i + k]
    BY <1>2
  <2>3. PICK j \in starts : j = i + k
    BY <2>2
  <2>4. j # m + 1 /\ to[i] = at[j] /\ j \in Nat
    BY <1>1, <2>1, <2>2, <2>3
  <2>5. PICK g \in Nat : g = Frame(at[j])
    BY <2>3, FrameSizes
  <2>6. /\ c[j] = Token("len", g) /\ \A r \in 1 .. g : c[j + r] = Token("byte", at[j] + r)
        /\ j + g + 1 \in starts /\ at[j + g + 1] = at[j] + g
    BY <2>3, <2>4, <2>5 DEF Chain
  <2>7. PICK e \in starts : e = j + g + 1 /\ e \in 1 .. m + 1
    BY <2>6
  <2>12. e > k /\ e - k = i + g + 1 /\ i + g <= q
    <3>1. i \in Nat /\ 1 <= i /\ e \in Nat /\ e <= m + 1
      BY <2>1, <2>7
    <3> QED BY <1>1, <2>3, <2>4, <2>7, <3>1, Shifted
  <2>8. i + g + 1 \in rest /\ to[i + g + 1] = at[j] + g
    BY <1>4, <2>6, <2>7, <2>12
  <2>9. i \in 1 .. Len(d) /\ i + g <= q /\ q <= Len(d)
    <3>1. i + g <= q
      BY <2>12
    <3>2. PICK y \in Nat : y = Len(d)
      OBVIOUS
    <3>3. q <= y
      BY <1>1, <1>9, <3>2
    <3>4. i <= y
      BY <2>1, <3>2, <3>3
    <3> QED BY <2>1, <3>1, <3>2, <3>3, <3>4
  <2>10. \A r \in 1 .. g : i + r \in 1 .. Len(d) /\ (i + r) + k = j + r
    BY <2>1, <2>3, <2>5, <2>9
  <2>11. d[i] = Token("len", g) /\ \A r \in 1 .. g : d[i + r] = Token("byte", at[j] + r)
    BY <1>8, <2>3, <2>6, <2>9, <2>10
  <2> QED BY <2>4, <2>5, <2>8, <2>11
<1>11. \A r \in 1 .. l : d[q + r] = c[m + r]
  <2> SUFFICES ASSUME NEW r \in 1 .. l PROVE d[q + r] = c[m + r]
    OBVIOUS
  <2>1. q + r \in 1 .. Len(d) /\ (q + r) + k = m + r
    BY <1>1, <1>9
  <2> QED BY <1>8, <2>1
<1>12. /\ l <= Frame(at[m + 1])
       /\ \A r \in 1 .. l : c[m + r] = IF r = 1 THEN Token("len", Frame(at[m + 1]))
                                                ELSE Token("byte", at[m + 1] + (r - 1))
  BY <1>9 DEF Chain
<1>13. Chain(d, q, rest, to)
  BY <1>6, <1>7, <1>9, <1>10, <1>11, <1>12 DEF Chain
<1>14. q \in 0 .. Len(d) /\ (s # "killed" => q = Len(d))
  <2>1. PICK y \in Nat : y = Len(d) /\ l = y - q
    BY <1>9
  <2>2. s # "killed" => l = 0
    BY <1>9
  <2> QED BY <2>1, <2>2
<1>15. s = "closed" => q >= 1 /\ q \in rest /\ to[q] = FileSize
  <2>1. s = "closed" => m > k /\ m - k = q /\ q >= 1
    BY <1>1
  <2> QED BY <1>4, <2>1
<1> QED BY <1>2, <1>3, <1>6, <1>7, <1>13, <1>14, <1>15 DEF Framed

LEMMA FramedNone ==
    ASSUME NEW p \in 0 .. FileSize PROVE \A s \in {"content", "killed"} : Framed(<<>>, p, p, s)
<1> DEFINE at == [i \in {1} |-> p]
<1>1. at \in [{1} -> 0 .. FileSize] /\ at[1] = p /\ {1} \in SUBSET (1 .. 0 + 1)
  OBVIOUS
<1> HIDE DEF at
<1>2. Frame(at[1]) \in Nat
  BY <1>1, FrameSizes
<1>3. Len(<<>>) = 0 /\ 0 + 1 = 1
  OBVIOUS
<1>4. Chain(<<>>, 0, {1}, at)
  BY <1>2, <1>3 DEF Chain
<1>5. 0 \in 0 .. Len(<<>>)
  BY <1>3
<1> QED BY <1>1, <1>3, <1>4, <1>5 DEF Framed

\* The server sends a message, the last of which is empty.
LEMMA FramedSend ==
    ASSUME NEW c \in Seq(Tokens), NEW p \in 0 .. FileSize, NEW q \in 0 .. FileSize,
           Framed(c, p, q, "content"), NEW d \in Seq(Tokens), d = c \o FrameMessage(q)
    PROVE  Framed(d, p, q + Frame(q), IF q = FileSize THEN "closed" ELSE "content")
<1>1. PICK starts, at :
         /\ starts \in SUBSET (1 .. Len(c) + 1) /\ at \in [starts -> 0 .. FileSize]
         /\ Chain(c, Len(c), starts, at) /\ at[1] = p /\ at[Len(c) + 1] = q
  BY DEF Framed
<1>2. q = at[Len(c) + 1]
  BY <1>1
<1>3. Framed(d, at[1], q + Frame(q), IF q = FileSize THEN "closed" ELSE "content")
  BY <1>1, <1>2, AppendMessage
<1> QED BY <1>1, <1>3

\* The server is killed within a message.
LEMMA FramedKill ==
    ASSUME NEW c \in Seq(Tokens), NEW p \in 0 .. FileSize, NEW q \in 0 .. FileSize,
           Framed(c, p, q, "content"), NEW k \in 0 .. Frame(q),
           NEW d \in Seq(Tokens), d = c \o SubSeq(FrameMessage(q), 1, k)
    PROVE  Framed(d, p, q, "killed")
<1>1. PICK starts, at :
         /\ starts \in SUBSET (1 .. Len(c) + 1) /\ at \in [starts -> 0 .. FileSize]
         /\ Chain(c, Len(c), starts, at) /\ at[1] = p /\ at[Len(c) + 1] = q
  BY DEF Framed
<1>2. Chain(d, Len(c), starts, at) /\ Len(c) <= Len(d)
  BY <1>1, AppendPart
<1>3. Len(c) \in 0 .. Len(d)
  BY <1>2
<1> QED BY <1>1, <1>2, <1>3 DEF Framed

\* The first message that is there in full: the client takes it.
LEMMA FramedTake ==
    ASSUME NEW c \in Seq(Tokens), NEW p \in 0 .. FileSize, NEW q \in 0 .. FileSize,
           NEW s \in {"content", "closed", "killed"}, Framed(c, p, q, s),
           c # <<>>, Len(c) > c[1].n
    PROVE  /\ c[1].n = Frame(p)
           /\ \A r \in 1 .. Frame(p) : c[1 + r] = Token("byte", p + r)
           /\ Frame(p) > 0 =>
                Framed(SubSeq(c, Frame(p) + 2, Len(c)), p + Frame(p), q, s)
<1>1. PICK m, starts, at :
        /\ m \in 0 .. Len(c) /\ starts \in SUBSET (1 .. m + 1) /\ at \in [starts -> 0 .. FileSize]
        /\ Chain(c, m, starts, at) /\ at[1] = p /\ at[m + 1] = q
        /\ s # "killed" => m = Len(c)
        /\ s = "closed" => m >= 1 /\ m \in starts /\ at[m] = FileSize
  BY DEF Framed
<1>2. PICK f \in Nat : f = Frame(p)
  BY FrameSizes
<1>3. PICK x \in Nat : x = Len(c) /\ x >= 1
  OBVIOUS
<1>4. m # 0
  <2> SUFFICES ASSUME m = 0 PROVE FALSE
    OBVIOUS
  <2>1. x - 0 <= f /\ c[0 + 1] = Token("len", f)
    <3>1. Len(c) - m <= Frame(at[m + 1]) /\ at[m + 1] = p
      BY <1>1 DEF Chain
    <3>2. 1 \in 1 .. Len(c) - m
      BY <1>3
    <3>3. c[m + 1] = Token("len", Frame(at[m + 1]))
      BY <1>1, <3>2 DEF Chain
    <3> QED BY <1>2, <1>3, <3>1, <3>3
  <2>2. c[1].n = f
    BY <2>1 DEF Token
  <2> QED BY <1>3, <2>1, <2>2
<1>5. m \in 1 .. Len(c) /\ m <= x
  BY <1>1, <1>3, <1>4
<1>6. /\ c[1] = Token("len", f) /\ \A r \in 1 .. f : c[1 + r] = Token("byte", p + r)
      /\ f + 2 \in starts /\ at[f + 2] = p + f /\ f + 1 <= m
  BY <1>1, <1>2, <1>5, FirstMessage
<1>7. ASSUME f > 0, NEW d \in Seq(Tokens), d = SubSeq(c, f + 2, Len(c))
      PROVE  Framed(d, p + f, q, s)
  <2>1. PICK k \in Nat : k = f + 1 /\ k + 1 = f + 2 /\ 1 <= k /\ k <= m /\ k <= x
    BY <1>2, <1>5, <1>6
  <2>2. Without(c, k, d)
    <3>1. k \in 0 .. Len(c) /\ d = SubSeq(c, k + 1, Len(c))
      BY <1>3, <1>7, <2>1
    <3> QED BY <3>1, Suffix DEF Without
  <2>3. m \in Nat /\ m <= Len(c) /\ Len(c) \in Nat /\ Len(d) \in Nat /\ k + 1 \in starts
    BY <1>5, <1>6, <2>1
  <2>4. ASSUME s = "closed" PROVE m \in starts /\ at[m] = FileSize /\ m # k
    <3>1. m \in starts /\ at[m] = FileSize /\ m # m + 1
      BY <1>1, <1>5, <2>4
    <3>2. c[m] = Token("len", Frame(at[m]))
      BY <1>1, <3>1 DEF Chain
    <3>3. c[1 + f] = Token("byte", p + f) /\ 1 + f = k
      BY <1>6, <1>7, <2>1
    <3> QED BY <3>1, <3>2, <3>3 DEF Token
  <2>5. Framed(d, at[k + 1], at[m + 1], s)
    BY <1>1, <2>1, <2>2, <2>3, <2>4, DropMessage
  <2>6. at[k + 1] = p + f /\ at[m + 1] = q
    BY <1>1, <1>6, <2>1
  <2> QED BY <2>5, <2>6
<1>8. SubSeq(c, f + 2, Len(c)) \in Seq(Tokens)
  <2>1. f + 1 \in 0 .. Len(c) /\ (f + 1) + 1 = f + 2
    BY <1>3, <1>5, <1>6
  <2>2. PICK k \in 0 .. Len(c) : k = f + 1
    BY <2>1
  <2> QED BY <2>1, <2>2, Suffix
<1>9. c[1].n = f
  BY <1>6 DEF Token
<1> QED BY <1>2, <1>6, <1>7, <1>8, <1>9

\* A closed connection has a message to read.
LEMMA FramedClosed ==
    ASSUME NEW c \in Seq(Tokens), NEW p \in 0 .. FileSize, NEW q \in 0 .. FileSize,
           Framed(c, p, q, "closed")
    PROVE  c # <<>> /\ Len(c) > c[1].n
<1>1. PICK starts, at :
         /\ starts \in SUBSET (1 .. Len(c) + 1) /\ at \in [starts -> 0 .. FileSize]
         /\ Chain(c, Len(c), starts, at) /\ at[1] = p /\ Len(c) >= 1
  BY DEF Framed
<1>2. PICK f \in Nat : f = Frame(p)
  BY FrameSizes
<1>3. Len(c) \in 1 .. Len(c)
  BY <1>1
<1>4. PICK m \in 1 .. Len(c) : m = Len(c)
  BY <1>3
<1>5. c[1] = Token("len", f) /\ f + 1 <= m
  <2>1. Chain(c, m, starts, at) /\ starts \in SUBSET (1 .. m + 1) /\ f = Frame(at[1])
    BY <1>1, <1>2, <1>4
  <2> QED BY <1>1, <2>1, FirstMessage
<1> QED BY <1>1, <1>4, <1>5 DEF Token

----------------------------------------------------------------------------
(* The inductive invariant *)

Reading == {"name", "size", "content"}

TransferTyped ==
    /\ protocol \in {"framed", "spinning", "sendfile"}
    /\ sender \in {"name", "size", "content", "closed", "killed"}
    /\ receiver \in Reading \cup {"spinning", "failed", "error", "ended", "success"}
    /\ sentBytes \in 0 .. FileSize /\ stream \in Seq(Tokens)
    /\ fileSize \in {0, FileSize} /\ localFile \in Seq(Nat)
    /\ filePos \in 0 .. FileSize /\ filePos <= Len(localFile)

\* What was written is right, and the rest is old.
LocalOK == \A i \in 1 .. Len(localFile) : localFile[i] = IF i <= filePos THEN i ELSE Old

\* Nothing is sent or written before the size is.
StartsOK ==
    /\ sender \in {"name", "size"} => sentBytes = 0
    /\ receiver \in {"name", "size"} => filePos = 0 /\ fileSize = 0

EndsOK ==
    /\ receiver = "success" /\ fileSize > 0 => filePos = FileSize
    /\ receiver = "ended" => filePos = FileSize \/ sender = "killed"

\* What is to be read before the content.
HeaderLeft(r) == IF r = "name" THEN <<Token("name", 0), Token("size", FileSize)>>
                 ELSE IF r = "size" THEN <<Token("size", FileSize)>> ELSE <<>>

\* The same as Framed, for a content without lengths.
Plain(c, p, q, s) ==
    /\ p + Len(c) = q /\ \A i \in 1 .. Len(c) : c[i] = Token("byte", p + i)
    /\ s = "content" => q = 0

ContentOK(c) == IF protocol = "sendfile" THEN Plain(c, filePos, sentBytes, sender)
                                         ELSE Framed(c, filePos, sentBytes, sender)

\* The client has yet to read all that the server has sent and it has not read.
StreamOK ==
    receiver \in Reading =>
        \/ sender \in {"name", "killed"} /\ receiver = "name" /\ stream = <<>> /\ sentBytes = 0
        \/ /\ sender \in {"size", "killed"} /\ sentBytes = 0
           /\ \/ receiver = "name" /\ stream = <<Token("name", 0)>>
              \/ receiver = "size" /\ stream = <<>>
        \/ /\ sender \in {"content", "closed", "killed"}
           /\ \E c \in Seq(Tokens) : stream = HeaderLeft(receiver) \o c /\ ContentOK(c)

DownloadInv == TransferTyped /\ LocalOK /\ StartsOK /\ EndsOK /\ StreamOK

LEMMA HeaderTyped == Token("name", 0) \in Tokens /\ Token("size", FileSize) \in Tokens
  BY TokenTyped, TransferConstants

LEMMA InitDownload == ASSUME TransferInit PROVE DownloadInv
<1>1. PICK old \in Nat : localFile = [i \in 1 .. old |-> Old]
  BY TransferConstants DEF TransferInit
<1>2. localFile \in Seq(Nat) /\ Len(localFile) = old /\ \A i \in 1 .. old : localFile[i] = Old
  BY <1>1 DEF Old
<1>3. stream \in Seq(Tokens) /\ 0 \in 0 .. FileSize
  BY TransferConstants DEF TransferInit
<1>4. TransferTyped
  <2>1. filePos \in 0 .. FileSize /\ filePos <= Len(localFile)
    <3>1. filePos = 0 /\ Len(localFile) = old
      BY <1>2 DEF TransferInit
    <3>2. 0 <= old
      BY <1>1
    <3> QED BY <1>3, <3>1, <3>2
  <2>2. sentBytes \in 0 .. FileSize /\ fileSize \in {0, FileSize}
    BY <1>3 DEF TransferInit
  <2>3. protocol \in {"framed", "spinning", "sendfile"} /\ sender = "name" /\ receiver = "name"
    BY DEF TransferInit
  <2> QED BY <1>2, <1>3, <2>1, <2>2, <2>3 DEF TransferTyped, Reading
<1>5. LocalOK
  <2>1. filePos = 0
    BY DEF TransferInit
  <2>2. \A i \in 1 .. Len(localFile) : i \in 1 .. old /\ ~(i <= filePos)
    BY <1>1, <1>2, <2>1
  <2> QED BY <1>2, <2>2 DEF LocalOK
<1>6. StartsOK /\ EndsOK /\ StreamOK
  BY DEF TransferInit, StartsOK, EndsOK, StreamOK
<1> QED BY <1>4, <1>5, <1>6 DEF DownloadInv

\* A content of which nothing was sent.
LEMMA NoContent ==
    ASSUME NEW s \in {"content", "killed"}
    PROVE  Plain(<<>>, 0, 0, s) /\ Framed(<<>>, 0, 0, s)
<1>1. 0 \in 0 .. FileSize /\ Len(<<>>) = 0
  BY TransferConstants
<1>2. Framed(<<>>, 0, 0, s)
  BY <1>1, FramedNone
<1>3. Plain(<<>>, 0, 0, s)
  BY <1>1 DEF Plain
<1> QED BY <1>2, <1>3

LEMMA Pair == ASSUME NEW a, NEW b PROVE Append(<<a>>, b) = <<a, b>> /\ Append(<<>>, b) = <<b>>
<1> DEFINE S == {a, b}
<1>1. <<a>> \in Seq(S) /\ <<>> \in Seq(S) /\ <<a, b>> \in Seq(S) /\ <<b>> \in Seq(S) /\ b \in S
  OBVIOUS
<1>2. Len(<<a>>) = 1 /\ Len(<<>>) = 0 /\ Len(<<a, b>>) = 2 /\ Len(<<b>>) = 1
  OBVIOUS
<1> HIDE DEF S
<1>3. /\ Append(<<a>>, b) \in Seq(S) /\ Len(Append(<<a>>, b)) = 2
      /\ Append(<<a>>, b)[1] = a /\ Append(<<a>>, b)[2] = b
  BY <1>1, <1>2
<1>4. Append(<<a>>, b) = <<a, b>>
  <2>1. <<a, b>>[1] = a /\ <<a, b>>[2] = b
    OBVIOUS
  <2>2. \A i \in 1 .. 2 : i = 1 \/ i = 2
    OBVIOUS
  <2>3. \A i \in 1 .. Len(Append(<<a>>, b)) : Append(<<a>>, b)[i] = <<a, b>>[i]
    BY <1>3, <2>1, <2>2
  <2> QED BY <1>1, <1>2, <1>3, <2>3, SeqEqual
<1>5. Append(<<>>, b) \in Seq(S) /\ Len(Append(<<>>, b)) = 1 /\ Append(<<>>, b)[1] = b
  BY <1>1, <1>2
<1>6. Append(<<>>, b) = <<b>>
  BY <1>1, <1>2, <1>5, SeqEqual
<1> QED BY <1>4, <1>6

LEMMA EmptyEnd == ASSUME NEW s \in Seq(Tokens) PROVE s \o <<>> = s /\ <<>> \o s = s
  OBVIOUS

----------------------------------------------------------------------------
(* The server *)

\* A step of the server: what it adds to the stream.
LEMMA ServerKeeps ==
    ASSUME DownloadInv, UNCHANGED <<protocol, receiver, fileSize, localFile, filePos>>,
           sender # "killed", sender' \in {"size", "content", "closed", "killed"},
           sentBytes' \in 0 .. FileSize, stream' \in Seq(Tokens),
           sender' = "size" => sentBytes' = 0, StreamOK'
    PROVE  DownloadInv'
<1>1. TransferTyped'
  BY DEF DownloadInv, TransferTyped
<1>2. LocalOK'
  BY DEF DownloadInv, LocalOK
<1>3. StartsOK' /\ EndsOK'
  BY DEF DownloadInv, StartsOK, EndsOK
<1> QED BY <1>1, <1>2, <1>3 DEF DownloadInv

LEMMA SendNameKeeps == ASSUME DownloadInv, SendName PROVE DownloadInv'
<1>1. /\ sender = "name" /\ sender' = "size" /\ stream' = Append(stream, Token("name", 0))
      /\ UNCHANGED <<protocol, sentBytes, receiver, fileSize, localFile, filePos>>
  BY DEF SendName
<1>2. stream \in Seq(Tokens) /\ sentBytes = 0
  BY <1>1 DEF DownloadInv, TransferTyped, StartsOK
<1>3. stream' \in Seq(Tokens)
  BY <1>1, <1>2, HeaderTyped
<1>4. receiver \in Reading => receiver = "name" /\ stream = <<>>
  BY <1>1 DEF DownloadInv, StreamOK
<1>5. stream = <<>> => stream' = <<Token("name", 0)>>
  BY <1>1
<1>6. StreamOK'
  BY <1>1, <1>2, <1>4, <1>5 DEF StreamOK
<1>7. sentBytes' \in 0 .. FileSize /\ sentBytes' = 0
  BY <1>1, <1>2 DEF DownloadInv, TransferTyped
<1> QED BY <1>1, <1>3, <1>6, <1>7, ServerKeeps

LEMMA SendSizeKeeps == ASSUME DownloadInv, SendSize PROVE DownloadInv'
<1>1. /\ sender = "size" /\ sender' = "content" /\ stream' = Append(stream, Token("size", FileSize))
      /\ UNCHANGED <<protocol, sentBytes, receiver, fileSize, localFile, filePos>>
  BY DEF SendSize
<1>2. stream \in Seq(Tokens) /\ sentBytes = 0
  BY <1>1 DEF DownloadInv, TransferTyped, StartsOK
<1>3. stream' \in Seq(Tokens)
  BY <1>1, <1>2, HeaderTyped
<1>4. receiver \in Reading =>
        \/ receiver = "name" /\ stream = <<Token("name", 0)>>
        \/ receiver = "size" /\ stream = <<>>
  BY <1>1 DEF DownloadInv, StreamOK
<1>5. receiver \in Reading => stream' = HeaderLeft(receiver) \o <<>> /\ filePos = 0
  <2>1. /\ Append(<<Token("name", 0)>>, Token("size", FileSize)) = <<Token("name", 0), Token("size", FileSize)>>
        /\ Append(<<>>, Token("size", FileSize)) = <<Token("size", FileSize)>>
    BY Pair
  <2>2. receiver \in Reading => stream' = HeaderLeft(receiver)
    BY <1>1, <1>4, <2>1 DEF HeaderLeft
  <2>3. filePos = 0 \/ receiver \notin {"name", "size"}
    BY DEF DownloadInv, StartsOK
  <2> QED BY <1>3, <1>4, <2>2, <2>3, EmptyEnd
<1>6. receiver \in Reading => ContentOK(<<>>)'
  BY <1>1, <1>2, <1>5, NoContent DEF ContentOK
<1>7. StreamOK'
  <2>1. <<>> \in Seq(Tokens)
    OBVIOUS
  <2> QED BY <1>1, <1>5, <1>6, <2>1 DEF StreamOK
<1>8. sentBytes' \in 0 .. FileSize
  BY <1>1 DEF DownloadInv, TransferTyped
<1> QED BY <1>1, <1>3, <1>7, <1>8, ServerKeeps

\* What is appended to the stream is appended to the content.
LEMMA ContentGrows ==
    ASSUME DownloadInv, sender = "content", receiver \in Reading,
           UNCHANGED <<protocol, receiver, filePos>>, sender' \in {"content", "closed", "killed"},
           NEW e \in Seq(Tokens), stream' = stream \o e,
           \A c \in Seq(Tokens) : ContentOK(c) => ContentOK(c \o e)'
    PROVE  StreamOK'
<1>1. PICK c \in Seq(Tokens) : stream = HeaderLeft(receiver) \o c /\ ContentOK(c)
  BY DEF DownloadInv, StreamOK
<1>2. PICK a \in Seq(Tokens) : a = HeaderLeft(receiver)
  <2>1. HeaderLeft(receiver) \in Seq(Tokens)
    BY HeaderTyped DEF HeaderLeft
  <2> QED BY <2>1
<1>3. (a \o c) \o e = a \o (c \o e) /\ c \o e \in Seq(Tokens)
  OBVIOUS
<1>4. stream' = HeaderLeft(receiver)' \o (c \o e)
  BY <1>1, <1>2, <1>3 DEF HeaderLeft
<1>5. ContentOK(c \o e)'
  BY <1>1
<1> QED BY <1>3, <1>4, <1>5 DEF StreamOK

LEMMA NextFrameIs ==
    ASSUME DownloadInv
    PROVE  /\ NextFrame = FrameMessage(sentBytes) /\ NextFrame \in Seq(Tokens)
           /\ Len(NextFrame) = Frame(sentBytes) + 1 /\ Frame(sentBytes) \in Nat
           /\ sentBytes \in 0 .. FileSize /\ stream \in Seq(Tokens)
<1>1. sentBytes \in 0 .. FileSize /\ stream \in Seq(Tokens)
  BY DEF DownloadInv, TransferTyped
<1>2. NextFrame = FrameMessage(sentBytes)
  BY DEF NextFrame, FrameMessage, Frame
<1> QED BY <1>1, <1>2, MessageIs, FrameSizes

LEMMA SendFrameKeeps == ASSUME DownloadInv, SendFrame PROVE DownloadInv'
<1>1. /\ sender = "content" /\ protocol # "sendfile"
      /\ stream' = stream \o NextFrame /\ sentBytes' = sentBytes + Len(NextFrame) - 1
      /\ sender' = IF Len(NextFrame) = 1 THEN "closed" ELSE "content"
      /\ UNCHANGED <<protocol, receiver, fileSize, localFile, filePos>>
  BY DEF SendFrame
<1>2. PICK q \in 0 .. FileSize : q = sentBytes
  BY NextFrameIs
<1>3. PICK f \in Nat : f = Frame(q) /\ Len(NextFrame) = f + 1
  BY <1>2, NextFrameIs
<1>4. PICK e \in Seq(Tokens) : e = FrameMessage(q) /\ stream' = stream \o e
  BY <1>1, <1>2, NextFrameIs
<1>5. q + f \in 0 .. FileSize /\ (f = 0 <=> q = FileSize)
  BY <1>3, FrameSizes
<1>6. sentBytes' = q + f /\ sender' = IF q = FileSize THEN "closed" ELSE "content"
  <2>1. sentBytes' = q + f
    BY <1>1, <1>2, <1>3
  <2>2. Len(NextFrame) = 1 <=> q = FileSize
    BY <1>3, <1>5
  <2> QED BY <1>1, <2>1, <2>2
<1>7. ASSUME NEW c \in Seq(Tokens), ContentOK(c) PROVE ContentOK(c \o e)'
  <2>1. filePos \in 0 .. FileSize
    BY DEF DownloadInv, TransferTyped
  <2>2. PICK p \in 0 .. FileSize : p = filePos
    BY <2>1
  <2>3. Framed(c, p, q, "content")
    BY <1>1, <1>2, <1>7, <2>2 DEF ContentOK
  <2>4. PICK d \in Seq(Tokens) : d = c \o e
    BY Joined
  <2>5. d = c \o FrameMessage(q)
    BY <1>4, <2>4
  <2>6. Framed(d, p, q + Frame(q), IF q = FileSize THEN "closed" ELSE "content")
    BY <2>3, <2>5, FramedSend
  <2> QED BY <1>1, <1>3, <1>6, <2>2, <2>4, <2>6 DEF ContentOK
<1>8. sender' \in {"content", "closed"}
  BY <1>6
<1>9. StreamOK'
  <2>1. CASE receiver \in Reading
    BY <1>1, <1>4, <1>7, <1>8, <2>1, ContentGrows
  <2>2. CASE receiver \notin Reading
    BY <1>1, <2>2 DEF StreamOK
  <2> QED BY <2>1, <2>2
<1>10. stream' \in Seq(Tokens)
  <2>1. stream \in Seq(Tokens)
    BY NextFrameIs
  <2> QED BY <1>4, <2>1
<1> QED BY <1>1, <1>5, <1>6, <1>8, <1>9, <1>10, ServerKeeps

LEMMA BytesAre ==
    ASSUME NEW p \in Nat, NEW n \in Nat
    PROVE  /\ Bytes(p, n) \in Seq(Tokens) /\ Len(Bytes(p, n)) = n
           /\ \A i \in 1 .. n : Bytes(p, n)[i] = Token("byte", p + i)
<1>1. \A i \in 1 .. n : Token("byte", p + i) \in Tokens
  BY TokenTyped
<1> QED BY <1>1 DEF Bytes

LEMMA SendFileKeeps == ASSUME DownloadInv, SendFile PROVE DownloadInv'
<1>1. PICK n \in 0 .. FileSize : stream' = stream \o Bytes(0, n) /\ sentBytes' = n
  BY DEF SendFile
<1>2. /\ sender = "content" /\ protocol = "sendfile" /\ sender' = "closed"
      /\ UNCHANGED <<protocol, receiver, fileSize, localFile, filePos>>
  BY DEF SendFile
<1>3. n \in Nat /\ 0 \in Nat
  BY TransferConstants
<1>4. PICK e \in Seq(Tokens) : /\ e = Bytes(0, n) /\ Len(e) = n
                               /\ \A i \in 1 .. n : e[i] = Token("byte", 0 + i)
  BY <1>3, BytesAre
<1>5. ASSUME NEW c \in Seq(Tokens), ContentOK(c) PROVE ContentOK(c \o e)'
  <2>1. filePos \in Nat
    BY TransferConstants DEF DownloadInv, TransferTyped
  <2>2. filePos + Len(c) = 0
    BY <1>2, <1>5 DEF ContentOK, Plain
  <2>3. filePos = 0 /\ Len(c) = 0
    BY <2>1, <2>2
  <2>4. c \o e = e
    <3>1. c = <<>>
      BY <2>3
    <3> QED BY <3>1, EmptyEnd
  <2>5. Plain(e, 0, n, "closed")
    BY <1>3, <1>4 DEF Plain
  <2> QED BY <1>1, <1>2, <2>3, <2>4, <2>5 DEF ContentOK
<1>6. StreamOK'
  <2>1. CASE receiver \in Reading
    BY <1>1, <1>2, <1>4, <1>5, <2>1, ContentGrows
  <2>2. CASE receiver \notin Reading
    BY <1>2, <2>2 DEF StreamOK
  <2> QED BY <2>1, <2>2
<1>7. stream' \in Seq(Tokens)
  <2>1. stream \in Seq(Tokens)
    BY NextFrameIs
  <2> QED BY <1>1, <1>4, <2>1
<1> QED BY <1>1, <1>2, <1>6, <1>7, ServerKeeps

LEMMA KilledKeeps == ASSUME DownloadInv, ServerKilled PROVE DownloadInv'
<1>1. /\ sender \in {"name", "size", "content"} /\ sender' = "killed"
      /\ UNCHANGED <<protocol, sentBytes, receiver, fileSize, localFile, filePos>>
  BY DEF ServerKilled
<1>2. PICK q \in 0 .. FileSize : q = sentBytes /\ NextFrame = FrameMessage(q)
  BY NextFrameIs
<1>3. CASE sender = "content" /\ protocol # "sendfile"
  <2>1. PICK k \in 0 .. Len(NextFrame) - 1 : stream' = stream \o SubSeq(NextFrame, 1, k)
    BY <1>3 DEF ServerKilled
  <2>2. k \in 0 .. Frame(q) /\ k \in 0 .. Len(NextFrame)
    BY <1>2, <2>1, NextFrameIs
  <2>3. PICK e \in Seq(Tokens) : e = SubSeq(FrameMessage(q), 1, k) /\ stream' = stream \o e
    <3>1. PICK b \in Seq(Tokens) : b = NextFrame
      BY NextFrameIs
    <3>2. SubSeq(b, 1, k) \in Seq(Tokens)
      BY <2>2, <3>1, Prefix
    <3> QED BY <1>2, <2>1, <3>1, <3>2
  <2>4. ASSUME NEW c \in Seq(Tokens), ContentOK(c) PROVE ContentOK(c \o e)'
    <3>1. filePos \in 0 .. FileSize
      BY DEF DownloadInv, TransferTyped
    <3>2. PICK p \in 0 .. FileSize : p = filePos
      BY <3>1
    <3>3. Framed(c, p, q, "content")
      BY <1>2, <1>3, <2>4, <3>2 DEF ContentOK
    <3>4. PICK d \in Seq(Tokens) : d = c \o e
      BY Joined
    <3>5. d = c \o SubSeq(FrameMessage(q), 1, k)
      BY <2>3, <3>4
    <3>6. Framed(d, p, q, "killed")
      BY <2>2, <3>3, <3>5, FramedKill
    <3> QED BY <1>1, <1>2, <1>3, <3>2, <3>4, <3>6 DEF ContentOK
  <2>5. StreamOK'
    <3>1. CASE receiver \in Reading
      BY <1>1, <1>3, <2>3, <2>4, <3>1, ContentGrows
    <3>2. CASE receiver \notin Reading
      BY <1>1, <3>2 DEF StreamOK
    <3> QED BY <3>1, <3>2
  <2>6. stream' \in Seq(Tokens) /\ sentBytes' \in 0 .. FileSize
    <3>1. stream \in Seq(Tokens)
      BY NextFrameIs
    <3> QED BY <1>1, <1>2, <2>3, <3>1
  <2> QED BY <1>1, <2>5, <2>6, ServerKeeps
<1>4. CASE sender # "content" \/ protocol = "sendfile"
  <2>1. PICK k \in 0 .. 0 : stream' = stream \o SubSeq(NextFrame, 1, k)
    BY <1>4 DEF ServerKilled
  <2>2. stream' = stream /\ stream \in Seq(Tokens)
    <3>1. PICK b \in Seq(Tokens) : b = NextFrame
      BY NextFrameIs
    <3>2. SubSeq(b, 1, 0) = <<>> /\ k = 0
      <4>1. 0 \in 0 .. Len(b)
        OBVIOUS
      <4>2. SubSeq(b, 1, 0) \in Seq(Tokens) /\ Len(SubSeq(b, 1, 0)) = 0
        BY <4>1, Prefix
      <4> QED BY <4>2, EmptySeq
    <3>3. stream \in Seq(Tokens)
      BY NextFrameIs
    <3> QED BY <2>1, <3>1, <3>2, <3>3, EmptyEnd
  <2>3. \A c \in Seq(Tokens) : sender = "content" /\ ContentOK(c) => ContentOK(c)'
    BY <1>1, <1>4 DEF ContentOK, Plain
  <2>4. StreamOK'
    <3>1. HeaderLeft(receiver)' = HeaderLeft(receiver)
      BY <1>1 DEF HeaderLeft
    <3> QED BY <1>1, <2>2, <2>3, <3>1 DEF DownloadInv, StreamOK
  <2>5. sentBytes' \in 0 .. FileSize
    BY <1>1, <1>2
  <2> QED BY <1>1, <2>2, <2>4, <2>5, ServerKeeps
<1> QED BY <1>3, <1>4

----------------------------------------------------------------------------
(* The client *)

\* A step of the client that writes nothing.
LEMMA ClientKeeps ==
    ASSUME DownloadInv, UNCHANGED <<protocol, sender, sentBytes, localFile, filePos>>,
           receiver \in Reading,
           receiver' \in Reading \cup {"spinning", "failed", "error", "ended", "success"},
           receiver' # "name", stream' \in Seq(Tokens), fileSize' \in {0, FileSize},
           receiver' = "size" => receiver = "name" /\ fileSize' = fileSize,
           receiver' = "success" => filePos >= fileSize',
           receiver' = "ended" => sender = "killed",
           StreamOK'
    PROVE  DownloadInv'
<1>1. TransferTyped'
  BY DEF DownloadInv, TransferTyped
<1>2. LocalOK'
  BY DEF DownloadInv, LocalOK
<1>3. StartsOK'
  BY DEF DownloadInv, StartsOK
<1>4. EndsOK'
  <2>1. receiver' = "success" /\ fileSize' > 0 => filePos = FileSize
    <3>1. filePos \in 0 .. FileSize
      BY DEF DownloadInv, TransferTyped
    <3> QED BY <3>1
  <2> QED BY <2>1 DEF DownloadInv, EndsOK
<1> QED BY <1>1, <1>2, <1>3, <1>4 DEF DownloadInv

LEMMA HeaderTaken ==
    ASSUME NEW c \in Seq(Tokens)
    PROVE  /\ Tail(HeaderLeft("name") \o c) = HeaderLeft("size") \o c
           /\ Tail(HeaderLeft("size") \o c) = c /\ Head(HeaderLeft("size") \o c) = Token("size", FileSize)
           /\ HeaderLeft("size") \o c # <<>> /\ HeaderLeft("content") \o c = c
<1>1. PICK a \in Tokens, b \in Tokens : a = Token("name", 0) /\ b = Token("size", FileSize)
  BY HeaderTyped
<1>2. HeaderLeft("name") = <<a, b>> /\ HeaderLeft("size") = <<b>> /\ HeaderLeft("content") = <<>>
  BY <1>1 DEF HeaderLeft
<1>3. /\ <<b>> \o c \in Seq(Tokens) /\ Len(<<b>> \o c) = Len(c) + 1
      /\ (<<b>> \o c)[1] = b /\ \A i \in 1 .. Len(c) : (<<b>> \o c)[i + 1] = c[i]
  OBVIOUS
<1>4. Tail(<<b>> \o c) = c
  <2>1. PICK s \in Seq(Tokens) : s = <<b>> \o c
    BY <1>3
  <2>2. s # <<>> /\ Len(s) = Len(c) + 1
    BY <1>3, <2>1
  <2>3. /\ Tail(s) \in Seq(Tokens) /\ Len(Tail(s)) = Len(c)
        /\ \A i \in 1 .. Len(c) : Tail(s)[i] = s[i + 1]
    BY <2>2
  <2>4. \A i \in 1 .. Len(c) : Tail(s)[i] = c[i]
    BY <1>3, <2>1, <2>3
  <2> QED BY <2>1, <2>3, <2>4, SeqEqual
<1>5. /\ <<a, b>> \o c \in Seq(Tokens) /\ Len(<<a, b>> \o c) = Len(c) + 2
      /\ (<<a, b>> \o c)[1] = a /\ (<<a, b>> \o c)[2] = b
      /\ \A i \in 1 .. Len(c) : (<<a, b>> \o c)[i + 2] = c[i]
  OBVIOUS
<1>6. Tail(<<a, b>> \o c) = <<b>> \o c
  <2>1. PICK s \in Seq(Tokens) : s = <<a, b>> \o c
    BY <1>5
  <2>2. s # <<>> /\ Len(s) = Len(c) + 2
    BY <1>5, <2>1
  <2>3. /\ Tail(s) \in Seq(Tokens) /\ Len(Tail(s)) = Len(c) + 1
        /\ \A i \in 1 .. Len(c) + 1 : Tail(s)[i] = s[i + 1]
    BY <2>2
  <2>4. Tail(s)[1] = b
    <3>1. 1 \in 1 .. Len(c) + 1 /\ 1 + 1 = 2
      OBVIOUS
    <3> QED BY <1>5, <2>1, <2>3, <3>1
  <2>5. \A i \in 1 .. Len(c) : Tail(s)[i + 1] = c[i]
    <3>1. \A i \in 1 .. Len(c) : i + 1 \in 1 .. Len(c) + 1 /\ (i + 1) + 1 = i + 2
      OBVIOUS
    <3> QED BY <1>5, <2>1, <2>3, <3>1
  <2>6. ASSUME NEW i \in 1 .. Len(c) + 1 PROVE Tail(s)[i] = (<<b>> \o c)[i]
    <3>1. CASE i = 1
      BY <1>3, <2>4, <3>1
    <3>2. CASE i # 1
      <4>1. PICK j \in 1 .. Len(c) : i = j + 1
        <5>1. i - 1 \in 1 .. Len(c) /\ i = (i - 1) + 1
          BY <3>2
        <5> QED BY <5>1
      <4> QED BY <1>3, <2>5, <4>1
    <3> QED BY <3>1, <3>2
  <2> QED BY <1>3, <2>1, <2>3, <2>6, SeqEqual
<1>7. <<b>> \o c # <<>> /\ Head(<<b>> \o c) = b
  BY <1>3
<1> QED BY <1>1, <1>2, <1>4, <1>6, <1>7, EmptyEnd

\* The size's message leaves the content.
LEMMA ContentSame ==
    ASSUME UNCHANGED <<protocol, sender, sentBytes, filePos>>, NEW c
    PROVE  ContentOK(c) <=> ContentOK(c)'
  BY DEF ContentOK

LEMMA RecvNameKeeps == ASSUME DownloadInv, RecvName PROVE DownloadInv'
<1>1. /\ receiver = "name"
      /\ UNCHANGED <<protocol, sender, sentBytes, fileSize, localFile, filePos>>
  BY DEF RecvName
<1>2. stream \in Seq(Tokens) /\ fileSize \in {0, FileSize}
  BY DEF DownloadInv, TransferTyped
<1>3. CASE stream # <<>> /\ receiver' = "size" /\ stream' = Tail(stream)
  <2>1. StreamOK'
    <3>1. CASE sender \in {"size", "killed"} /\ sentBytes = 0 /\ stream = <<Token("name", 0)>>
      <4>1. stream' = <<>>
        BY <1>3, <3>1
      <4> QED BY <1>1, <1>3, <3>1, <4>1 DEF StreamOK
    <3>2. CASE /\ sender \in {"content", "closed", "killed"}
               /\ \E c \in Seq(Tokens) : stream = HeaderLeft(receiver) \o c /\ ContentOK(c)
      <4>1. PICK c \in Seq(Tokens) : stream = HeaderLeft("name") \o c /\ ContentOK(c)
        BY <1>1, <3>2
      <4>2. stream' = HeaderLeft("size") \o c
        BY <1>3, <4>1, HeaderTaken
      <4>3. HeaderLeft(receiver)' = HeaderLeft("size") /\ ContentOK(c)'
        BY <1>1, <1>3, <4>1, ContentSame DEF HeaderLeft
      <4> QED BY <1>1, <3>2, <4>2, <4>3 DEF StreamOK
    <3> QED BY <1>1, <1>3, <3>1, <3>2 DEF DownloadInv, StreamOK, Reading
  <2>2. stream' \in Seq(Tokens)
    BY <1>2, <1>3
  <2> QED BY <1>1, <1>2, <1>3, <2>1, <2>2, ClientKeeps DEF Reading
<1>4. CASE receiver' \in {"spinning", "failed"} /\ stream' = stream
  <2>1. StreamOK'
    BY <1>4 DEF StreamOK, Reading
  <2> QED BY <1>1, <1>2, <1>4, <2>1, ClientKeeps DEF Reading
<1> QED BY <1>3, <1>4 DEF RecvName

LEMMA RecvSizeKeeps == ASSUME DownloadInv, RecvSize PROVE DownloadInv'
<1>1. /\ receiver = "size"
      /\ UNCHANGED <<protocol, sender, sentBytes, localFile, filePos>>
  BY DEF RecvSize
<1>2. stream \in Seq(Tokens) /\ fileSize \in {0, FileSize} /\ filePos = 0
  BY <1>1 DEF DownloadInv, TransferTyped, StartsOK
<1>3. CASE stream # <<>> /\ receiver' = "content" /\ fileSize' = Head(stream).n /\ stream' = Tail(stream)
  <2>1. PICK c \in Seq(Tokens) : /\ stream = HeaderLeft("size") \o c /\ ContentOK(c)
                                 /\ sender \in {"content", "closed", "killed"}
    BY <1>1, <1>3 DEF DownloadInv, StreamOK, Reading
  <2>2. stream' = c /\ Head(stream) = Token("size", FileSize) /\ HeaderLeft("content") \o c = c
    BY <1>3, <2>1, HeaderTaken
  <2>3. fileSize' = FileSize
    BY <1>3, <2>2 DEF Token
  <2>4. HeaderLeft(receiver)' = HeaderLeft("content") /\ ContentOK(c)'
    BY <1>1, <1>3, <2>1, ContentSame DEF HeaderLeft
  <2>5. StreamOK'
    BY <1>1, <2>1, <2>2, <2>4 DEF StreamOK
  <2> QED BY <1>1, <1>3, <2>2, <2>3, <2>5, ClientKeeps DEF Reading
<1>4. CASE /\ AtEnd /\ receiver' = IF protocol = "spinning" THEN "spinning" ELSE "content"
           /\ UNCHANGED <<fileSize, stream>>
  <2>1. stream = <<>> /\ stream' = <<>>
    BY <1>4 DEF AtEnd
  <2>2. sender = "killed" /\ sentBytes = 0
    <3>1. ~ \E c \in Seq(Tokens) : stream = HeaderLeft(receiver) \o c
      BY <1>1, <2>1, HeaderTaken
    <3>2. sender \in {"closed", "killed"}
      BY <1>4 DEF AtEnd
    <3> QED BY <1>1, <3>1, <3>2 DEF DownloadInv, StreamOK, Reading
  <2>3. CASE protocol = "spinning"
    <3>1. receiver' = "spinning" /\ StreamOK'
      BY <1>4, <2>3 DEF StreamOK, Reading
    <3> QED BY <1>1, <1>2, <1>4, <3>1, ClientKeeps DEF Reading
  <2>4. CASE protocol # "spinning"
    <3>1. receiver' = "content" /\ <<>> \in Seq(Tokens)
      BY <1>4, <2>4
    <3>2. stream' = HeaderLeft(receiver)' \o <<>>
      BY <2>1, <3>1, EmptyEnd DEF HeaderLeft
    <3>3. ContentOK(<<>>)'
      BY <1>1, <1>2, <2>2, NoContent DEF ContentOK
    <3>4. StreamOK'
      BY <1>1, <2>2, <3>1, <3>2, <3>3 DEF StreamOK
    <3> QED BY <1>1, <1>2, <1>4, <3>1, <3>4, ClientKeeps DEF Reading
  <2> QED BY <2>3, <2>4
<1> QED BY <1>3, <1>4 DEF RecvSize

\* What is written to the local file is the next part of the file.
LEMMA StoreKeeps ==
    ASSUME DownloadInv, NEW skip \in Nat, NEW n \in Nat,
           skip + n <= Len(stream), filePos + n <= FileSize, Write(skip, n),
           \A r \in 1 .. n : stream[skip + r] = Token("byte", filePos + r)
    PROVE  /\ localFile' \in Seq(Nat) /\ filePos' = filePos + n /\ filePos' <= Len(localFile')
           /\ filePos' \in 0 .. FileSize /\ stream' \in Seq(Tokens) /\ LocalOK'
           /\ Len(stream') = Len(stream) - (skip + n)
           /\ \A i \in 1 .. Len(stream') : stream'[i] = stream[i + (skip + n)]
<1>1. PICK p \in Nat, l \in Nat : p = filePos /\ l = Len(localFile) /\ p <= l /\ p + n <= FileSize
  <2>1. FileSize \in Nat /\ filePos \in 0 .. FileSize /\ localFile \in Seq(Nat) /\ filePos <= Len(localFile)
    BY TransferConstants DEF DownloadInv, TransferTyped
  <2>2. filePos \in Nat /\ Len(localFile) \in Nat
    BY <2>1
  <2> QED BY <2>1, <2>2
<1>2. FileSize \in Nat /\ stream \in Seq(Tokens)
  BY TransferConstants DEF DownloadInv, TransferTyped
<1>3. PICK size \in Nat : size = IF l > p + n THEN l ELSE p + n
  OBVIOUS
<1>4. /\ localFile' = [i \in 1 .. size |-> IF i > p /\ i <= p + n THEN stream[skip + i - p].n ELSE localFile[i]]
      /\ filePos' = p + n /\ stream' = SubSeq(stream, skip + n + 1, Len(stream))
  <2>1. Shorter(Len(localFile), filePos) = p
    BY <1>1 DEF Shorter
  <2> QED BY <1>1, <1>3, <2>1 DEF Write
<1>5. ASSUME NEW i \in 1 .. size
      PROVE  (IF i > p /\ i <= p + n THEN stream[skip + i - p].n ELSE localFile[i])
                = IF i <= p + n THEN i ELSE Old
  <2>1. CASE i > p /\ i <= p + n
    <3>1. PICK r \in 1 .. n : r = i - p /\ p + r = i
      BY <2>1
    <3>2. skip + i - p = skip + r
      BY <3>1
    <3>3. stream[skip + r] = Token("byte", p + r)
      BY <1>1, <3>1
    <3>4. stream[skip + r].n = p + r
      BY <3>3 DEF Token
    <3> QED BY <2>1, <3>1, <3>2, <3>4
  <2>2. CASE ~(i > p /\ i <= p + n)
    <3>1. i \in 1 .. l
      BY <1>1, <1>3, <2>2
    <3>2. localFile[i] = IF i <= p THEN i ELSE Old
      BY <1>1, <3>1 DEF DownloadInv, LocalOK
    <3>3. i <= p <=> i <= p + n
      BY <2>2, <3>1
    <3> QED BY <2>2, <3>2, <3>3
  <2> QED BY <2>1, <2>2
<1>6. localFile' = [i \in 1 .. size |-> IF i <= p + n THEN i ELSE Old]
  BY <1>4, <1>5
<1>7. \A i \in 1 .. size : (IF i <= p + n THEN i ELSE Old) \in Nat
  BY DEF Old
<1>8. localFile' \in Seq(Nat) /\ Len(localFile') = size
  BY <1>6, <1>7
<1>9. LocalOK'
  BY <1>4, <1>6, <1>8 DEF LocalOK, Old
<1>10. p + n <= size /\ p + n \in 0 .. FileSize
  BY <1>1, <1>3
<1>11. /\ stream' \in Seq(Tokens) /\ Len(stream') = Len(stream) - (skip + n)
       /\ \A i \in 1 .. Len(stream') : stream'[i] = stream[i + (skip + n)]
  <2>1. PICK k \in 0 .. Len(stream) : k = skip + n
    BY <1>2
  <2>2. stream' = SubSeq(stream, k + 1, Len(stream))
    BY <1>4, <2>1
  <2> QED BY <1>2, <2>1, <2>2, Suffix
<1> QED BY <1>1, <1>4, <1>8, <1>9, <1>10, <1>11

\* The content that the client reads.
LEMMA ContentIs ==
    ASSUME DownloadInv, receiver = "content"
    PROVE  /\ stream \in Seq(Tokens) /\ ContentOK(stream) /\ sender \in {"content", "closed", "killed"}
           /\ filePos \in 0 .. FileSize /\ sentBytes \in 0 .. FileSize
<1>1. PICK c \in Seq(Tokens) : /\ stream = HeaderLeft("content") \o c /\ ContentOK(c)
                               /\ sender \in {"content", "closed", "killed"}
  BY DEF DownloadInv, StreamOK, Reading
<1>2. stream = c
  BY <1>1, HeaderTaken
<1> QED BY <1>1, <1>2 DEF DownloadInv, TransferTyped

\* A step of the client that writes part of the content.
LEMMA WriteKeeps ==
    ASSUME DownloadInv, receiver = "content",
           UNCHANGED <<protocol, sender, sentBytes, fileSize>>,
           localFile' \in Seq(Nat), filePos' <= Len(localFile'), filePos' \in 0 .. FileSize,
           stream' \in Seq(Tokens), LocalOK',
           \/ receiver' = "content" /\ ContentOK(stream)'
           \/ receiver' = "ended" /\ filePos' = FileSize
    PROVE  DownloadInv'
<1>1. TransferTyped'
  BY DEF DownloadInv, TransferTyped, Reading
<1>2. StartsOK'
  BY DEF DownloadInv, StartsOK
<1>3. EndsOK'
  BY DEF EndsOK
<1>4. StreamOK'
  <2>1. CASE receiver' = "content" /\ ContentOK(stream)'
    <3>1. PICK d \in Seq(Tokens) : d = stream'
      OBVIOUS
    <3>2. stream' = HeaderLeft(receiver)' \o d
      BY <2>1, <3>1, HeaderTaken DEF HeaderLeft
    <3>3. ContentOK(d)'
      BY <2>1, <3>1 DEF ContentOK
    <3>4. sender' \in {"content", "closed", "killed"}
      BY ContentIs
    <3> QED BY <3>1, <3>2, <3>3, <3>4 DEF StreamOK
  <2>2. CASE receiver' = "ended"
    BY <2>2 DEF StreamOK, Reading
  <2> QED BY <2>1, <2>2
<1> QED BY <1>1, <1>2, <1>3, <1>4 DEF DownloadInv

LEMMA RecvFrameKeeps == ASSUME DownloadInv, RecvFrame PROVE DownloadInv'
<1>1. /\ receiver = "content" /\ protocol # "sendfile" /\ stream # <<>>
      /\ UNCHANGED <<protocol, sender, sentBytes, fileSize>>
  BY DEF RecvFrame
<1>2. PICK c \in Seq(Tokens), p \in 0 .. FileSize, q \in 0 .. FileSize, s \in {"content", "closed", "killed"} :
        c = stream /\ p = filePos /\ q = sentBytes /\ s = sender
  BY <1>1, ContentIs
<1>3. Framed(c, p, q, s)
  BY <1>1, <1>2, ContentIs DEF ContentOK
<1>4. /\ Len(c) > c[1].n /\ Write(1, c[1].n)
      /\ receiver' = IF c[1].n = 0 THEN "ended" ELSE "content"
  <2>1. Head(stream) = c[1]
    BY <1>1, <1>2
  <2> QED BY <1>2, <2>1 DEF RecvFrame
<1>5. /\ c[1].n = Frame(p)
      /\ \A r \in 1 .. Frame(p) : c[1 + r] = Token("byte", p + r)
      /\ Frame(p) > 0 => Framed(SubSeq(c, Frame(p) + 2, Len(c)), p + Frame(p), q, s)
  BY <1>1, <1>2, <1>3, <1>4, FramedTake
<1>6. PICK f \in Nat : f = Frame(p) /\ p + f \in 0 .. FileSize /\ (f = 0 <=> p = FileSize)
  BY FrameSizes
<1>7. Len(c) > f /\ Write(1, f) /\ receiver' = IF f = 0 THEN "ended" ELSE "content"
  BY <1>4, <1>5, <1>6
<1>8. /\ localFile' \in Seq(Nat) /\ filePos' = p + f /\ filePos' <= Len(localFile')
      /\ filePos' \in 0 .. FileSize /\ stream' \in Seq(Tokens) /\ LocalOK'
  <2>1. 1 + f <= Len(stream) /\ filePos + f <= FileSize /\ 1 \in Nat
    BY <1>2, <1>6, <1>7
  <2>2. \A r \in 1 .. f : stream[1 + r] = Token("byte", filePos + r)
    BY <1>2, <1>5, <1>6
  <2> QED BY <1>2, <1>7, <2>1, <2>2, StoreKeeps
<1>9. CASE f = 0
  <2>1. receiver' = "ended" /\ filePos' = FileSize
    BY <1>6, <1>7, <1>8, <1>9
  <2> QED BY <1>1, <1>8, <2>1, WriteKeeps
<1>10. CASE f > 0
  <2>1. stream' = SubSeq(c, f + 2, Len(c))
    <3>1. stream' = SubSeq(stream, 1 + f + 1, Len(stream)) /\ 1 + f + 1 = f + 2
      BY <1>7 DEF Write
    <3> QED BY <1>2, <3>1
  <2>2. Framed(stream', p + f, q, s)
    BY <1>5, <1>6, <1>10, <2>1
  <2>3. ContentOK(stream)'
    BY <1>1, <1>2, <1>8, <2>2 DEF ContentOK
  <2>4. receiver' = "content"
    BY <1>7, <1>10
  <2> QED BY <1>1, <1>8, <2>3, <2>4, WriteKeeps
<1>11. f = 0 \/ f > 0
  OBVIOUS
<1> QED BY <1>9, <1>10, <1>11

LEMMA RecvFrameEndKeeps == ASSUME DownloadInv, RecvFrameEnd PROVE DownloadInv'
<1>1. /\ receiver = "content" /\ protocol # "sendfile" /\ sender \in {"closed", "killed"}
      /\ stream # <<>> => Len(stream) <= Head(stream).n
      /\ stream' = <<>> /\ receiver' = IF protocol = "spinning" THEN "spinning" ELSE "ended"
      /\ UNCHANGED <<protocol, sender, sentBytes, fileSize, localFile, filePos>>
  BY DEF RecvFrameEnd
<1>2. sender = "killed"
  <2> SUFFICES ASSUME sender = "closed" PROVE FALSE
    BY <1>1
  <2>1. PICK c \in Seq(Tokens), p \in 0 .. FileSize, q \in 0 .. FileSize :
          c = stream /\ p = filePos /\ q = sentBytes
    BY <1>1, ContentIs
  <2>2. Framed(c, p, q, "closed")
    BY <1>1, <2>1, ContentIs DEF ContentOK
  <2>3. c # <<>> /\ Len(c) > c[1].n
    BY <2>1, <2>2, FramedClosed
  <2>4. Head(stream) = c[1] /\ Len(c) <= c[1].n
    BY <1>1, <2>1, <2>3
  <2>5. c[1].n \in Nat
    <3>1. c[1] \in Tokens
      BY <2>1, <2>3
    <3> QED BY <3>1 DEF Tokens
  <2> QED BY <2>1, <2>3, <2>4, <2>5
<1>3. StreamOK'
  BY <1>1 DEF StreamOK, Reading
<1>4. stream' \in Seq(Tokens) /\ fileSize \in {0, FileSize}
  BY <1>1 DEF DownloadInv, TransferTyped
<1> QED BY <1>1, <1>2, <1>3, <1>4, ClientKeeps DEF Reading

LEMMA RecvFileKeeps == ASSUME DownloadInv, RecvFile PROVE DownloadInv'
<1>1. /\ receiver = "content" /\ protocol = "sendfile"
      /\ UNCHANGED <<protocol, sender, sentBytes, fileSize>>
  BY DEF RecvFile
<1>2. CASE /\ stream # <<>> /\ UNCHANGED receiver
           /\ \E n \in 1 .. Shorter(FrameSize, Len(stream)) : Write(0, n)
  <2>1. PICK c \in Seq(Tokens), p \in Nat, q \in Nat :
          /\ c = stream /\ p = filePos /\ q = sentBytes /\ p <= FileSize /\ q <= FileSize
    <3>1. stream \in Seq(Tokens) /\ filePos \in Nat /\ sentBytes \in Nat /\ filePos <= FileSize /\ sentBytes <= FileSize
      BY <1>1, ContentIs, TransferConstants
    <3> QED BY <3>1
  <2>2. Plain(c, p, q, sender)
    BY <1>1, <2>1, ContentIs DEF ContentOK
  <2>3. PICK n \in Nat : n <= Len(c) /\ Write(0, n)
    <3>1. PICK n \in 1 .. Shorter(FrameSize, Len(stream)) : Write(0, n)
      BY <1>2
    <3>2. PICK k \in Nat : k = Len(c)
      BY <2>1
    <3>3. n \in 1 .. Shorter(FrameSize, k)
      BY <2>1, <3>1, <3>2
    <3>4. n \in Nat /\ n <= k
      BY <3>3, TransferConstants DEF Shorter
    <3> QED BY <3>1, <3>2, <3>4
  <2>4. p + Len(c) = q /\ \A i \in 1 .. Len(c) : c[i] = Token("byte", p + i)
    BY <2>2 DEF Plain
  <2>5. p + n <= FileSize
    <3>1. PICK k \in Nat : k = Len(c)
      BY <2>1
    <3>2. p + k = q /\ n <= k
      BY <2>3, <2>4, <3>1
    <3>3. FileSize \in Nat
      BY TransferConstants
    <3> QED BY <2>1, <2>3, <3>1, <3>2, <3>3
  <2>6. /\ localFile' \in Seq(Nat) /\ filePos' = p + n /\ filePos' <= Len(localFile')
        /\ filePos' \in 0 .. FileSize /\ stream' \in Seq(Tokens) /\ LocalOK'
        /\ Len(stream') = Len(c) - n /\ \A i \in 1 .. Len(stream') : stream'[i] = c[i + n]
    <3>1. 0 + n = n /\ n <= Len(stream) /\ filePos + n <= FileSize /\ 0 \in Nat
      BY <2>1, <2>3, <2>5
    <3>2. \A r \in 1 .. n : stream[0 + r] = Token("byte", filePos + r)
      <4>1. \A r \in 1 .. n : 0 + r = r /\ r \in 1 .. Len(c)
        BY <2>1, <2>3
      <4> QED BY <2>1, <2>4, <4>1
    <3> QED BY <2>1, <2>3, <3>1, <3>2, StoreKeeps
  <2>7. Plain(stream', p + n, q, sender)
    <3>1. PICK d \in Seq(Tokens), k \in Nat : d = stream' /\ k = Len(c)
      BY <2>1, <2>6
    <3>2. Len(d) = k - n /\ n <= k /\ p + k = q
      BY <2>3, <2>4, <2>6, <3>1
    <3>3. p + n + Len(d) = q
      BY <2>1, <2>3, <3>1, <3>2
    <3>4. ASSUME NEW i \in 1 .. Len(d) PROVE d[i] = Token("byte", p + n + i)
      <4>1. i + n \in 1 .. k /\ p + (i + n) = p + n + i
        BY <2>1, <2>3, <3>1, <3>2
      <4>2. d[i] = c[i + n]
        BY <2>6, <3>1
      <4> QED BY <2>4, <3>1, <4>1, <4>2
    <3> QED BY <2>2, <3>1, <3>3, <3>4 DEF Plain
  <2>8. ContentOK(stream)'
    BY <1>1, <2>1, <2>6, <2>7 DEF ContentOK
  <2> QED BY <1>1, <1>2, <2>6, <2>8, WriteKeeps
<1>3. CASE /\ UNCHANGED <<stream, localFile, filePos>>
           /\ receiver' = "error" \/ (filePos >= fileSize /\ receiver' = "success")
  <2>1. StreamOK'
    BY <1>3 DEF StreamOK, Reading
  <2>2. stream' \in Seq(Tokens) /\ fileSize' \in {0, FileSize}
    BY <1>1, <1>3 DEF DownloadInv, TransferTyped
  <2> QED BY <1>1, <1>3, <2>1, <2>2, ClientKeeps DEF Reading
<1>4. \/ /\ stream # <<>> /\ UNCHANGED receiver
         /\ \E n \in 1 .. Shorter(FrameSize, Len(stream)) : Write(0, n)
      \/ /\ UNCHANGED <<stream, localFile, filePos>>
         /\ receiver' = "error" \/ (filePos >= fileSize /\ receiver' = "success")
  BY DEF RecvFile
<1> QED BY <1>2, <1>3, <1>4

LEMMA TransferStep ==
    ASSUME DownloadInv, [TransferNext]_transferVars PROVE DownloadInv'
<1>1. CASE ServerStep
  BY <1>1, SendNameKeeps, SendSizeKeeps, SendFrameKeeps, SendFileKeeps DEF ServerStep
<1>2. CASE Client
  BY <1>2, RecvNameKeeps, RecvSizeKeeps, RecvFrameKeeps, RecvFrameEndKeeps, RecvFileKeeps DEF Client
<1>3. CASE UNCHANGED transferVars
  <2>1. UNCHANGED <<protocol, sender, sentBytes, stream, receiver, fileSize, localFile, filePos>>
    BY <1>3 DEF transferVars
  <2>2. TransferTyped' /\ LocalOK' /\ StartsOK' /\ EndsOK'
    BY <2>1 DEF DownloadInv, TransferTyped, LocalOK, StartsOK, EndsOK
  <2>3. \A c \in Seq(Tokens) : ContentOK(c) <=> ContentOK(c)'
    BY <2>1, ContentSame
  <2>4. StreamOK'
    BY <2>1, <2>3 DEF DownloadInv, StreamOK
  <2> QED BY <2>2, <2>4 DEF DownloadInv
<1> QED BY <1>1, <1>2, <1>3, KilledKeeps DEF TransferNext

\* The client writes nothing but the beginning of the file, whatever messages and recvs cut it
\* into, wherever the server ends and however long the local file was; after the empty
\* message, and after a count of as many bytes as were announced, it has all of it.
THEOREM DownloadsArePrefixes == TransferSpec => []DownloadIsPrefix
<1>1. TransferInit => DownloadInv
  BY InitDownload
<1>2. DownloadInv /\ [TransferNext]_transferVars => DownloadInv'
  BY TransferStep
<1>3. DownloadInv => DownloadIsPrefix
  BY DEF DownloadInv, LocalOK, EndsOK, DownloadIsPrefix
<1> QED BY <1>1, <1>2, <1>3, PTL DEF TransferSpec

----------------------------------------------------------------------------
(* The linked list *)

\* The i-th node as it should be, and what it should point to.
NodeNo(c, i) == IF i = 0 THEN HeadNode ELSE c[i]
LinkNo(c, i) == IF i = Len(c) THEN Nil ELSE c[i + 1]

\* The pointers lead from the head node through the contents to Nil; rear is the last
\* node, and of an empty list the head or a node that was freed.
ListTypes ==
    /\ next \in [Elements \cup {HeadNode} -> Elements \cup {HeadNode, Nil}]
    /\ rear \in Elements \cup {HeadNode}
    /\ contents \in Seq(Elements)

ListLinks ==
    /\ \A i, j \in 1 .. Len(contents) : contents[i] = contents[j] => i = j
    /\ \A i \in 0 .. Len(contents) : next[NodeNo(contents, i)] = LinkNo(contents, i)
    /\ contents # <<>> => rear = contents[Len(contents)]
    /\ rear # HeadNode /\ contents = <<>> => next[rear] = Nil

ListInv == ListTypes /\ ListLinks

\* A set of numbers has a least one.
LEMMA LeastPosition == ASSUME NEW S \in SUBSET Nat, S # {} PROVE \E m \in S : \A l \in S : m <= l
<1> DEFINE Lt == {p \in Nat \X Nat : p[1] < p[2]}
<1>1. IsWellFoundedOn(Lt, Nat)
  BY NatLessThanWellFounded DEF OpToRel
<1>2. PICK m \in S : \A l \in S : ~(<<l, m>> \in Lt)
  BY <1>1, WFMin
<1>3. \A x, y \in Nat : x < y => <<x, y>> \in Lt
  BY DEF Lt
<1>4. \A x, y \in Nat : ~(x < y) => y <= x
  OBVIOUS
<1>5. \A l \in S : m <= l
  BY <1>2, <1>3, <1>4
<1> QED BY <1>5

\* The nodes and their numbers.
LEMMA NodesTyped ==
    ASSUME ListInv
    PROVE  /\ Len(contents) \in Nat
           /\ \A i \in 1 .. Len(contents) : contents[i] \in Elements
           /\ \A i \in 0 .. Len(contents) : NodeNo(contents, i) \in Elements \cup {HeadNode}
           /\ \A i, j \in 0 .. Len(contents) : NodeNo(contents, i) = NodeNo(contents, j) => i = j
<1>1. Len(contents) \in Nat /\ \A i \in 1 .. Len(contents) : contents[i] \in Elements
  BY DEF ListInv, ListTypes
<1>2. \A i \in 0 .. Len(contents) : i = 0 \/ i \in 1 .. Len(contents)
  BY <1>1
<1>3. \A i, j \in 1 .. Len(contents) : contents[i] = contents[j] => i = j
  BY DEF ListInv, ListLinks
<1> QED BY <1>1, <1>2, <1>3, ListConstants DEF NodeNo

\* The pointers lead through the contents: a first node that they miss would follow one
\* that they do not.
LEMMA PointersLead ==
    ASSUME ListInv
    PROVE  \A i \in 0 .. Len(contents) : NodeAt[i] = NodeNo(contents, i)
<1>1. Len(contents) \in Nat
  BY DEF ListInv, ListTypes
<1>2. \A i \in 1 .. Len(contents) : next[NodeNo(contents, i - 1)] = NodeNo(contents, i)
  <2> TAKE i \in 1 .. Len(contents)
  <2>1. i - 1 \in 0 .. Len(contents) /\ i - 1 # Len(contents) /\ i # 0 /\ (i - 1) + 1 = i
    BY <1>1
  <2>2. next[NodeNo(contents, i - 1)] = LinkNo(contents, i - 1)
    BY <2>1 DEF ListInv, ListLinks
  <2> QED BY <2>1, <2>2 DEF LinkNo, NodeNo
<1> DEFINE f == [i \in 0 .. Len(contents) |-> NodeNo(contents, i)]
<1>3. f = [i \in 0 .. Len(contents) |-> IF i = 0 THEN HeadNode ELSE next[f[i - 1]]]
  <2>1. ASSUME NEW i \in 0 .. Len(contents)
        PROVE  f[i] = IF i = 0 THEN HeadNode ELSE next[f[i - 1]]
    <3>1. CASE i = 0
      BY <3>1 DEF NodeNo
    <3>2. CASE i # 0
      <4>1. i \in 1 .. Len(contents) /\ i - 1 \in 0 .. Len(contents)
        BY <1>1, <3>2
      <4>2. f[i] = NodeNo(contents, i) /\ f[i - 1] = NodeNo(contents, i - 1)
        BY <4>1
      <4> QED BY <1>2, <3>2, <4>1, <4>2
    <3> QED BY <3>1, <3>2
  <2> HIDE DEF f
  <2>2. f = [i \in 0 .. Len(contents) |-> f[i]]
    BY DEF f
  <2> QED BY <2>1, <2>2
<1>4. \E g : g = [i \in 0 .. Len(contents) |-> IF i = 0 THEN HeadNode ELSE next[g[i - 1]]]
  BY <1>3
<1>5. NodeAt = [i \in 0 .. Len(contents) |-> IF i = 0 THEN HeadNode ELSE next[NodeAt[i - 1]]]
  BY <1>4 DEF NodeAt
<1>6. \A i \in 0 .. Len(contents) : NodeAt[i] = IF i = 0 THEN HeadNode ELSE next[NodeAt[i - 1]]
  BY <1>5, Zenon
<1> HIDE DEF NodeAt
<1> DEFINE Bad == {i \in 0 .. Len(contents) : NodeAt[i] # NodeNo(contents, i)}
<1>7. SUFFICES ASSUME Bad # {} PROVE FALSE
  OBVIOUS
<1>8. PICK m \in Bad : \A l \in Bad : m <= l
  <2>1. Bad \in SUBSET Nat
    BY <1>1
  <2> HIDE DEF Bad
  <2> QED BY <1>7, <2>1, LeastPosition
<1>9. m # 0
  BY <1>6, <1>8 DEF NodeNo
<1>10. m \in 1 .. Len(contents) /\ m - 1 \in 0 .. Len(contents) /\ ~(m <= m - 1)
  BY <1>1, <1>8, <1>9
<1>11. NodeAt[m - 1] = NodeNo(contents, m - 1)
  BY <1>8, <1>10
<1>12. NodeAt[m] = next[NodeAt[m - 1]]
  BY <1>6, <1>9, <1>10
<1> QED BY <1>2, <1>8, <1>10, <1>11, <1>12

LEMMA InvHolds == ASSUME ListInv PROVE ListHoldsContents
<1>1. Len(contents) \in Nat /\ DOMAIN contents = 1 .. Len(contents)
  BY DEF ListInv, ListTypes
<1>2. \A i \in DOMAIN contents : NodeAt[i] = contents[i]
  <2> TAKE i \in DOMAIN contents
  <2>1. i \in 0 .. Len(contents) /\ i # 0
    BY <1>1
  <2> QED BY <2>1, PointersLead DEF NodeNo
<1>3. next[NodeAt[Len(contents)]] = Nil
  <2>1. Len(contents) \in 0 .. Len(contents)
    BY <1>1
  <2> QED BY <2>1, PointersLead DEF ListInv, ListLinks, LinkNo
<1> QED BY <1>2, <1>3 DEF ListInv, ListLinks, ListHoldsContents

\* A node put in after the i-th one.
PutIn(S, c, d, i, n) ==
    /\ d \in Seq(S) /\ Len(d) = Len(c) + 1
    /\ \A j \in 1 .. Len(d) : d[j] = IF j <= i THEN c[j] ELSE IF j = i + 1 THEN n ELSE c[j - 1]

\* The i-th node taken out.
TakenOut(S, c, d, i) ==
    /\ d \in Seq(S) /\ Len(d) + 1 = Len(c)
    /\ \A j \in 1 .. Len(d) : d[j] = IF j < i THEN c[j] ELSE c[j + 1]

\* The operations on the sequence do that.
LEMMA SequenceChanges ==
    ASSUME NEW S, NEW c \in Seq(S), NEW n \in S
    PROVE  /\ PutIn(S, c, <<n>> \o c, 0, n)
           /\ PutIn(S, c, Append(c, n), Len(c), n)
           /\ \A i \in 0 .. Len(c) :
                PutIn(S, c, SubSeq(c, 1, i) \o <<n>> \o SubSeq(c, i + 1, Len(c)), i, n)
           /\ \A i \in 1 .. Len(c) :
                TakenOut(S, c, SubSeq(c, 1, i - 1) \o SubSeq(c, i + 1, Len(c)), i)
<1>1. Len(c) \in Nat /\ \A i \in 1 .. Len(c) : c[i] \in S
  OBVIOUS
<1>2. PutIn(S, c, <<n>> \o c, 0, n)
  BY DEF PutIn
<1>3. PutIn(S, c, Append(c, n), Len(c), n)
  BY DEF PutIn
<1>4. \A u, v \in Seq(S) :
        /\ u \o v \in Seq(S) /\ Len(u \o v) = Len(u) + Len(v)
        /\ \A j \in 1 .. Len(u) + Len(v) : (u \o v)[j] = IF j <= Len(u) THEN u[j] ELSE v[j - Len(u)]
  OBVIOUS
<1>5. <<n>> \in Seq(S) /\ Len(<<n>>) = 1 /\ <<n>>[1] = n
  OBVIOUS
<1>6. ASSUME NEW i \in 0 .. Len(c)
      PROVE  PutIn(S, c, SubSeq(c, 1, i) \o <<n>> \o SubSeq(c, i + 1, Len(c)), i, n)
  <2> DEFINE u == SubSeq(c, 1, i)
             v == SubSeq(c, i + 1, Len(c))
             s == <<n>>
  <2>1. u \in Seq(S) /\ Len(u) = i /\ \A j \in 1 .. i : u[j] = c[j]
    BY <1>1
  <2>2. v \in Seq(S) /\ Len(v) = Len(c) - i /\ \A j \in 1 .. Len(c) - i : v[j] = c[i + j]
    BY <1>1
  <2>3. s \in Seq(S) /\ Len(s) = 1 /\ s[1] = n
    BY <1>5
  <2> HIDE DEF u, v, s
  <2> DEFINE w == u \o s
  <2>4. /\ w \in Seq(S) /\ Len(w) = i + 1
        /\ \A j \in 1 .. i + 1 : w[j] = IF j <= i THEN c[j] ELSE n
    <3>0. /\ w \in Seq(S) /\ Len(w) = Len(u) + Len(s)
          /\ \A j \in 1 .. Len(u) + Len(s) : w[j] = IF j <= Len(u) THEN u[j] ELSE s[j - Len(u)]
      BY <1>4, <2>1, <2>3, Zenon
    <3> HIDE DEF w
    <3>1. w \in Seq(S) /\ Len(w) = i + 1
      BY <3>0, <2>1, <2>3
    <3>2. \A j \in 1 .. i + 1 : w[j] = IF j <= i THEN u[j] ELSE s[j - i]
      BY <3>0, <2>1, <2>3
    <3>3. \A j \in 1 .. i + 1 : j \in 1 .. i \/ (j = i + 1 /\ j - i = 1)
      OBVIOUS
    <3> QED BY <3>1, <3>2, <3>3, <2>1, <2>3
  <2> HIDE DEF w
  <2>5. /\ w \o v \in Seq(S) /\ Len(w \o v) = Len(c) + 1
        /\ \A j \in 1 .. Len(c) + 1 : (w \o v)[j] = IF j <= i + 1 THEN w[j] ELSE v[j - (i + 1)]
    <3> DEFINE x == w \o v
    <3>1. /\ x \in Seq(S) /\ Len(x) = Len(w) + Len(v)
          /\ \A j \in 1 .. Len(w) + Len(v) : x[j] = IF j <= Len(w) THEN w[j] ELSE v[j - Len(w)]
      BY <1>4, <2>2, <2>4, Zenon
    <3> HIDE DEF x
    <3>2. Len(w) = i + 1 /\ Len(w) + Len(v) = Len(c) + 1
      BY <1>1, <2>2, <2>4
    <3>3. /\ x \in Seq(S) /\ Len(x) = Len(c) + 1
          /\ \A j \in 1 .. Len(c) + 1 : x[j] = IF j <= i + 1 THEN w[j] ELSE v[j - (i + 1)]
      BY <3>1, <3>2
    <3> QED BY <3>3 DEF x
  <2>6. ASSUME NEW j \in 1 .. Len(c) + 1
        PROVE  (w \o v)[j] = IF j <= i THEN c[j] ELSE IF j = i + 1 THEN n ELSE c[j - 1]
    <3>1. CASE j <= i + 1
      <4>1. j \in 1 .. i + 1
        BY <3>1
      <4> QED BY <2>4, <2>5, <3>1, <4>1
    <3>2. CASE ~(j <= i + 1)
      <4>1. j - (i + 1) \in 1 .. Len(c) - i /\ i + (j - (i + 1)) = j - 1 /\ ~(j <= i) /\ j # i + 1
        BY <1>1, <3>2
      <4> QED BY <2>2, <2>5, <3>2, <4>1
    <3> QED BY <3>1, <3>2
  <2>7. PutIn(S, c, w \o v, i, n)
    BY <2>5, <2>6 DEF PutIn
  <2> QED BY <2>7 DEF w, u, v, s
<1>7. ASSUME NEW i \in 1 .. Len(c)
      PROVE  TakenOut(S, c, SubSeq(c, 1, i - 1) \o SubSeq(c, i + 1, Len(c)), i)
  <2> DEFINE u == SubSeq(c, 1, i - 1)
             v == SubSeq(c, i + 1, Len(c))
  <2>1. u \in Seq(S) /\ Len(u) = i - 1 /\ \A j \in 1 .. i - 1 : u[j] = c[j]
    BY <1>1
  <2>2. v \in Seq(S) /\ Len(v) = Len(c) - i /\ \A j \in 1 .. Len(c) - i : v[j] = c[i + j]
    BY <1>1
  <2> HIDE DEF u, v
  <2>3. /\ u \o v \in Seq(S) /\ Len(u \o v) = Len(c) - 1
        /\ \A j \in 1 .. Len(c) - 1 : (u \o v)[j] = IF j <= i - 1 THEN u[j] ELSE v[j - (i - 1)]
    <3> DEFINE w == u \o v
    <3>1. /\ w \in Seq(S) /\ Len(w) = Len(u) + Len(v)
          /\ \A j \in 1 .. Len(u) + Len(v) : w[j] = IF j <= Len(u) THEN u[j] ELSE v[j - Len(u)]
      BY <1>4, <2>1, <2>2, Zenon
    <3> HIDE DEF w
    <3>2. Len(u) + Len(v) = Len(c) - 1
      BY <1>1, <2>1, <2>2
    <3>3. /\ w \in Seq(S) /\ Len(w) = Len(c) - 1
          /\ \A j \in 1 .. Len(c) - 1 : w[j] = IF j <= i - 1 THEN u[j] ELSE v[j - (i - 1)]
      BY <3>1, <3>2, <2>1
    <3> QED BY <3>3 DEF w
  <2>4. ASSUME NEW j \in 1 .. Len(c) - 1
        PROVE  (u \o v)[j] = IF j < i THEN c[j] ELSE c[j + 1]
    <3>1. CASE j < i
      <4>1. j \in 1 .. i - 1 /\ j <= i - 1
        BY <3>1
      <4> QED BY <2>1, <2>3, <3>1, <4>1
    <3>2. CASE ~(j < i)
      <4>1. j - (i - 1) \in 1 .. Len(c) - i /\ i + (j - (i - 1)) = j + 1 /\ ~(j <= i - 1)
        BY <1>1, <3>2
      <4> QED BY <2>2, <2>3, <3>2, <4>1
    <3> QED BY <3>1, <3>2
  <2>5. TakenOut(S, c, u \o v, i)
    <3> DEFINE w == u \o v
    <3>1. w \in Seq(S) /\ Len(w) = Len(c) - 1
      BY <2>3
    <3>2. \A j \in 1 .. Len(c) - 1 : w[j] = IF j < i THEN c[j] ELSE c[j + 1]
      BY <2>4
    <3> HIDE DEF w
    <3>3. TakenOut(S, c, w, i)
      BY <1>1, <3>1, <3>2 DEF TakenOut
    <3> QED BY <3>3 DEF w
  <2> QED BY <2>5 DEF u, v
<1> QED BY <1>2, <1>3, <1>6, <1>7

\* While rear is no dangling pointer it is the last node.
LEMMA RearIsLast ==
    ASSUME ListInv, ~Dangling
    PROVE  rear = NodeNo(contents, Len(contents)) /\ (rear = HeadNode <=> Len(contents) = 0)
<1>1. CASE contents = <<>>
  BY <1>1 DEF ListInv, ListTypes, Dangling, Listed, NodeNo
<1>2. CASE contents # <<>>
  <2>1. rear = contents[Len(contents)] /\ Len(contents) # 0 /\ Len(contents) \in 1 .. Len(contents)
    BY <1>2 DEF ListInv, ListTypes, ListLinks
  <2> QED BY <2>1, NodesTyped, ListConstants DEF NodeNo
<1> QED BY <1>1, <1>2

\* A node that is put in gets the pointer of the one before it, which points to it.
LEMMA InsertKeeps ==
    ASSUME ListInv, NEW n \in Unused, NEW i \in 0 .. Len(contents),
           PutIn(Elements, contents, contents', i, n),
           next' = [next EXCEPT ![n] = next[NodeNo(contents, i)], ![NodeNo(contents, i)] = n],
           rear' = IF i = Len(contents) THEN n ELSE rear
    PROVE  ListInv'
<1> DEFINE p == NodeNo(contents, i)
<1>1. /\ n \in Elements /\ n # HeadNode
      /\ \A j \in 1 .. Len(contents) : contents[j] # n
  BY ListConstants DEF ListInv, ListTypes, Unused, Listed
<1>2. Len(contents) \in Nat /\ \A j \in 0 .. Len(contents) : NodeNo(contents, j) # n
  BY <1>1, NodesTyped DEF NodeNo
<1>3. p \in Elements \cup {HeadNode} /\ p # n
  BY <1>2, NodesTyped
<1> HIDE DEF p
<1>4. ListTypes'
  <2>1. next[p] \in Elements \cup {HeadNode, Nil}
    BY <1>3 DEF ListInv, ListTypes
  <2>2. next' \in [Elements \cup {HeadNode} -> Elements \cup {HeadNode, Nil}]
    BY <1>1, <2>1 DEF ListInv, ListTypes, p
  <2>3. rear' \in Elements \cup {HeadNode} /\ contents' \in Seq(Elements)
    BY <1>1 DEF ListInv, ListTypes, PutIn
  <2> QED BY <2>2, <2>3 DEF ListTypes
<1>5. /\ next'[p] = n /\ next'[n] = next[p]
      /\ \A q \in Elements \cup {HeadNode} : q # p /\ q # n => next'[q] = next[q]
  <2>1. next' = [next EXCEPT ![n] = next[p], ![p] = n]
    BY DEF p
  <2> QED BY <1>1, <1>3, <2>1 DEF ListInv, ListTypes
<1>6. Len(contents') = Len(contents) + 1 /\ contents' # <<>>
  BY <1>2, <1>4 DEF PutIn, ListTypes
<1>7. \A j \in 1 .. Len(contents') :
        contents'[j] = IF j <= i THEN contents[j] ELSE IF j = i + 1 THEN n ELSE contents[j - 1]
  BY DEF PutIn
<1>8. \A j, l \in 1 .. Len(contents') : contents'[j] = contents'[l] => j = l
  <2>1. \A j, l \in 1 .. Len(contents) : contents[j] = contents[l] => j = l
    BY DEF ListInv, ListLinks
  <2>2. \A j \in 1 .. Len(contents') :
           \/ j <= i /\ j \in 1 .. Len(contents)
           \/ j = i + 1
           \/ ~(j <= i) /\ j # i + 1 /\ j - 1 \in 1 .. Len(contents) /\ ~(j - 1 <= i)
    BY <1>2, <1>6
  <2>3. SUFFICES ASSUME NEW j \in 1 .. Len(contents'), NEW l \in 1 .. Len(contents'),
                        contents'[j] = contents'[l]
                 PROVE  j = l
    OBVIOUS
  <2>4. CASE j <= i /\ j \in 1 .. Len(contents)
    BY <1>1, <1>7, <2>1, <2>2, <2>3, <2>4
  <2>5. CASE j = i + 1
    BY <1>1, <1>7, <2>1, <2>2, <2>3, <2>5
  <2>6. CASE ~(j <= i) /\ j # i + 1 /\ j - 1 \in 1 .. Len(contents)
    BY <1>1, <1>7, <2>1, <2>2, <2>3, <2>6
  <2> QED BY <2>2, <2>4, <2>5, <2>6
<1>9. \A j \in 0 .. Len(contents) : next[NodeNo(contents, j)] = LinkNo(contents, j)
  BY DEF ListInv, ListLinks
<1>10. \A j \in 0 .. Len(contents') : next'[NodeNo(contents', j)] = LinkNo(contents', j)
  <2> TAKE j \in 0 .. Len(contents')
  <2>1. CASE j < i
    <3>1. j \in 0 .. Len(contents) /\ j # i /\ j # Len(contents) /\ j # Len(contents')
      BY <1>2, <1>6, <2>1
    <3>2. NodeNo(contents', j) = NodeNo(contents, j)
      BY <1>2, <1>6, <1>7, <2>1 DEF NodeNo
    <3>3. NodeNo(contents, j) \in Elements \cup {HeadNode} /\ NodeNo(contents, j) # p
      BY <3>1, NodesTyped DEF p
    <3>4. next'[NodeNo(contents, j)] = LinkNo(contents, j)
      BY <1>2, <1>5, <1>9, <3>1, <3>3
    <3>5. contents'[j + 1] = contents[j + 1]
      BY <1>2, <1>6, <1>7, <2>1
    <3> QED BY <3>1, <3>2, <3>4, <3>5 DEF LinkNo
  <2>2. CASE j = i
    <3>1. NodeNo(contents', i) = p
      BY <1>2, <1>6, <1>7 DEF NodeNo, p
    <3>2. LinkNo(contents', i) = n
      BY <1>2, <1>6, <1>7 DEF LinkNo
    <3> QED BY <1>5, <2>2, <3>1, <3>2
  <2>3. CASE j = i + 1
    <3>1. NodeNo(contents', j) = n
      BY <1>2, <1>6, <1>7, <2>3 DEF NodeNo
    <3>2. LinkNo(contents', j) = LinkNo(contents, i)
      <4>1. CASE i = Len(contents)
        BY <1>6, <2>3, <4>1 DEF LinkNo
      <4>2. CASE i # Len(contents)
        <5>1. j + 1 \in 1 .. Len(contents') /\ ~(j + 1 <= i) /\ j + 1 # i + 1 /\ (j + 1) - 1 = i + 1
          BY <1>2, <1>6, <2>3, <4>2
        <5>2. contents'[j + 1] = contents[i + 1]
          BY <1>7, <5>1
        <5> QED BY <1>2, <1>6, <2>3, <4>2, <5>2 DEF LinkNo
      <4> QED BY <4>1, <4>2
    <3> QED BY <1>5, <1>9, <3>1, <3>2 DEF p
  <2>4. CASE j > i + 1
    <3>1. /\ j - 1 \in 1 .. Len(contents) /\ j - 1 # i /\ j - 1 # 0 /\ j # 0
          /\ j \in 1 .. Len(contents') /\ ~(j <= i) /\ j # i + 1
          /\ (j = Len(contents') <=> j - 1 = Len(contents)) /\ (j - 1) + 1 = j
      BY <1>2, <1>6, <2>4
    <3>2. NodeNo(contents', j) = NodeNo(contents, j - 1)
      BY <1>7, <3>1 DEF NodeNo
    <3>3. /\ NodeNo(contents, j - 1) \in Elements \cup {HeadNode}
          /\ NodeNo(contents, j - 1) # p /\ NodeNo(contents, j - 1) # n
      BY <1>2, <3>1, NodesTyped DEF p
    <3>4. next'[NodeNo(contents, j - 1)] = LinkNo(contents, j - 1)
      <4>1. j - 1 \in 0 .. Len(contents)
        BY <1>2, <3>1
      <4>2. next'[NodeNo(contents, j - 1)] = next[NodeNo(contents, j - 1)]
        BY <1>5, <3>3
      <4> QED BY <1>9, <4>1, <4>2
    <3>5. LinkNo(contents', j) = LinkNo(contents, j - 1)
      <4>1. CASE j = Len(contents')
        BY <3>1, <4>1 DEF LinkNo
      <4>2. CASE j # Len(contents')
        <5>1. j + 1 \in 1 .. Len(contents') /\ ~(j + 1 <= i) /\ j + 1 # i + 1 /\ (j + 1) - 1 = j
          BY <1>2, <1>6, <2>4, <4>2
        <5>2. contents'[j + 1] = contents[j]
          BY <1>7, <5>1
        <5> QED BY <3>1, <4>2, <5>2 DEF LinkNo
      <4> QED BY <4>1, <4>2
    <3> QED BY <3>2, <3>4, <3>5
  <2> QED BY <1>2, <1>6, <2>1, <2>2, <2>3, <2>4
<1>11. rear' = contents'[Len(contents')]
  <2>1. CASE i = Len(contents)
    BY <1>2, <1>6, <1>7, <2>1
  <2>2. CASE i # Len(contents)
    <3>1. /\ Len(contents') \in 1 .. Len(contents') /\ ~(Len(contents') <= i)
          /\ Len(contents') # i + 1 /\ Len(contents') - 1 = Len(contents) /\ Len(contents) # 0
      BY <1>2, <1>6, <2>2
    <3>2. contents'[Len(contents')] = contents[Len(contents)]
      BY <1>7, <3>1
    <3>3. rear = contents[Len(contents)]
      BY <3>1 DEF ListInv, ListTypes, ListLinks
    <3> QED BY <2>2, <3>2, <3>3
  <2> QED BY <2>1, <2>2
<1>12. ListLinks'
  BY <1>6, <1>8, <1>10, <1>11 DEF ListLinks, NodeNo, LinkNo
<1> QED BY <1>4, <1>12 DEF ListInv

\* The node before one that is taken out gets its pointer, and NULL goes into the node.
LEMMA DeleteKeeps ==
    ASSUME ListInv, NEW i \in 1 .. Len(contents),
           TakenOut(Elements, contents, contents', i),
           next' = [next EXCEPT ![NodeNo(contents, i - 1)] = LinkNo(contents, i),
                                ![NodeNo(contents, i)] = Nil],
           rear' = IF i = Len(contents) THEN NodeNo(contents, i - 1) ELSE rear
    PROVE  ListInv'
<1> DEFINE p == NodeNo(contents, i - 1)
           d == NodeNo(contents, i)
<1>1. /\ Len(contents) \in Nat /\ i - 1 \in 0 .. Len(contents) /\ i \in 0 .. Len(contents)
      /\ i # i - 1
  BY NodesTyped
<1>2. p \in Elements \cup {HeadNode} /\ d \in Elements /\ p # d
  BY <1>1, NodesTyped DEF NodeNo
<1>3. LinkNo(contents, i) \in Elements \cup {HeadNode, Nil}
  <2>1. i # Len(contents) => i + 1 \in 1 .. Len(contents)
    BY <1>1
  <2> QED BY <2>1, NodesTyped DEF LinkNo
<1> HIDE DEF p, d
<1>4. ListTypes'
  <2>1. next' \in [Elements \cup {HeadNode} -> Elements \cup {HeadNode, Nil}]
    BY <1>2, <1>3 DEF ListInv, ListTypes, p, d
  <2>2. rear' \in Elements \cup {HeadNode} /\ contents' \in Seq(Elements)
    BY <1>2 DEF ListInv, ListTypes, TakenOut, p
  <2> QED BY <2>1, <2>2 DEF ListTypes
<1>5. /\ next'[p] = LinkNo(contents, i) /\ next'[d] = Nil
      /\ \A q \in Elements \cup {HeadNode} : q # p /\ q # d => next'[q] = next[q]
  <2>1. next' = [next EXCEPT ![p] = LinkNo(contents, i), ![d] = Nil]
    BY DEF p, d
  <2> QED BY <1>2, <2>1 DEF ListInv, ListTypes
<1>6. Len(contents') + 1 = Len(contents) /\ Len(contents') \in Nat
  BY <1>4 DEF TakenOut, ListTypes
<1>7. \A j \in 1 .. Len(contents') : contents'[j] = IF j < i THEN contents[j] ELSE contents[j + 1]
  BY DEF TakenOut
<1>8. \A j, l \in 1 .. Len(contents') : contents'[j] = contents'[l] => j = l
  <2>1. \A j, l \in 1 .. Len(contents) : contents[j] = contents[l] => j = l
    BY DEF ListInv, ListLinks
  <2>2. \A j \in 1 .. Len(contents') : j \in 1 .. Len(contents) /\ j + 1 \in 1 .. Len(contents)
    BY <1>6
  <2> SUFFICES ASSUME NEW j \in 1 .. Len(contents'), NEW l \in 1 .. Len(contents'),
                      contents'[j] = contents'[l]
               PROVE  j = l
    OBVIOUS
  <2> DEFINE From(x) == IF x < i THEN x ELSE x + 1
  <2>3. contents'[j] = contents[From(j)] /\ contents'[l] = contents[From(l)]
    BY <1>7
  <2>4. From(j) \in 1 .. Len(contents) /\ From(l) \in 1 .. Len(contents)
    BY <2>2
  <2>5. From(j) = From(l)
    <3> HIDE DEF From
    <3> QED BY <2>1, <2>3, <2>4
  <2> QED BY <1>1, <2>5
<1>9. \A j \in 0 .. Len(contents) : next[NodeNo(contents, j)] = LinkNo(contents, j)
  BY DEF ListInv, ListLinks
<1>10. \A j \in 0 .. Len(contents') : next'[NodeNo(contents', j)] = LinkNo(contents', j)
  <2> TAKE j \in 0 .. Len(contents')
  <2>1. CASE j < i - 1
    <3>1. /\ j \in 0 .. Len(contents) /\ j # i - 1 /\ j # i /\ j # Len(contents) /\ j # Len(contents')
          /\ j + 1 \in 1 .. Len(contents') /\ j + 1 < i
      BY <1>1, <1>6, <2>1
    <3>2. NodeNo(contents', j) = NodeNo(contents, j)
      BY <1>6, <1>7, <2>1 DEF NodeNo
    <3>3. /\ NodeNo(contents, j) \in Elements \cup {HeadNode}
          /\ NodeNo(contents, j) # p /\ NodeNo(contents, j) # d
      BY <1>1, <3>1, NodesTyped DEF p, d
    <3>4. contents'[j + 1] = contents[j + 1]
      BY <1>7, <3>1
    <3> QED BY <1>5, <1>9, <3>1, <3>2, <3>3, <3>4 DEF LinkNo
  <2>2. CASE j = i - 1
    <3>1. NodeNo(contents', j) = p
      BY <1>1, <1>6, <1>7, <2>2 DEF NodeNo, p
    <3>2. LinkNo(contents', j) = LinkNo(contents, i)
      <4>1. CASE i = Len(contents)
        BY <1>6, <2>2, <4>1 DEF LinkNo
      <4>2. CASE i # Len(contents)
        <5>1. j + 1 \in 1 .. Len(contents') /\ j + 1 = i /\ ~(j + 1 < i) /\ j # Len(contents')
          BY <1>1, <1>6, <2>2, <4>2
        <5>2. contents'[j + 1] = contents[i + 1]
          BY <1>7, <5>1
        <5> QED BY <4>2, <5>1, <5>2 DEF LinkNo
      <4> QED BY <4>1, <4>2
    <3> QED BY <1>5, <3>1, <3>2
  <2>3. CASE j > i - 1
    <3>1. /\ j \in 1 .. Len(contents') /\ ~(j < i) /\ j # 0 /\ j + 1 # 0
          /\ j + 1 \in 0 .. Len(contents) /\ j + 1 # i - 1 /\ j + 1 # i
          /\ (j = Len(contents') <=> j + 1 = Len(contents))
      BY <1>1, <1>6, <2>3
    <3>2. NodeNo(contents', j) = NodeNo(contents, j + 1)
      BY <1>7, <3>1 DEF NodeNo
    <3>3. /\ NodeNo(contents, j + 1) \in Elements \cup {HeadNode}
          /\ NodeNo(contents, j + 1) # p /\ NodeNo(contents, j + 1) # d
      BY <1>1, <3>1, NodesTyped DEF p, d
    <3>4. LinkNo(contents', j) = LinkNo(contents, j + 1)
      <4>1. CASE j = Len(contents')
        BY <3>1, <4>1 DEF LinkNo
      <4>2. CASE j # Len(contents')
        <5>1. j + 1 \in 1 .. Len(contents') /\ ~(j + 1 < i)
          BY <1>1, <1>6, <2>3, <4>2
        <5>2. contents'[j + 1] = contents[(j + 1) + 1]
          BY <1>7, <5>1
        <5> QED BY <3>1, <4>2, <5>2 DEF LinkNo
      <4> QED BY <4>1, <4>2
    <3> QED BY <1>5, <1>9, <3>1, <3>2, <3>3, <3>4
  <2> QED BY <1>1, <1>6, <2>1, <2>2, <2>3
<1>11. contents' # <<>> => rear' = contents'[Len(contents')]
  <2>1. SUFFICES ASSUME contents' # <<>> PROVE rear' = contents'[Len(contents')]
    OBVIOUS
  <2>2. Len(contents') \in 1 .. Len(contents') /\ Len(contents) # 0
    BY <1>4, <1>6, <2>1 DEF ListTypes
  <2>3. CASE i = Len(contents)
    <3>1. Len(contents') < i /\ i - 1 = Len(contents') /\ i - 1 # 0
      BY <1>1, <1>6, <2>2, <2>3
    <3>2. contents'[Len(contents')] = contents[i - 1]
      BY <1>7, <2>2, <3>1
    <3> QED BY <2>3, <3>1, <3>2 DEF NodeNo
  <2>4. CASE i # Len(contents)
    <3>1. ~(Len(contents') < i)
      BY <1>1, <1>6, <2>4
    <3>2. contents'[Len(contents')] = contents[Len(contents)]
      BY <1>6, <1>7, <2>2, <3>1
    <3>3. rear = contents[Len(contents)]
      BY <2>2 DEF ListInv, ListTypes, ListLinks
    <3> QED BY <2>4, <3>2, <3>3
  <2> QED BY <2>3, <2>4
<1>12. rear' # HeadNode /\ contents' = <<>> => next'[rear'] = Nil
  <2>1. SUFFICES ASSUME contents' = <<>> PROVE rear' = HeadNode
    OBVIOUS
  <2>2. Len(contents') = 0
    BY <2>1
  <2>4. 0 + 1 = Len(contents)
    BY <1>6, <2>2
  <2>5. Len(contents) = 1
    BY <2>4
  <2>6. i \in 1 .. 1
    BY <2>5
  <2>7. i = Len(contents) /\ i - 1 = 0
    BY <2>5, <2>6
  <2> QED BY <2>7 DEF NodeNo
<1>13. ListLinks'
  BY <1>8, <1>10, <1>11, <1>12 DEF ListLinks, NodeNo, LinkNo
<1> QED BY <1>4, <1>13 DEF ListInv

LEMMA ListInit == InitList => ListInv
<1> SUFFICES ASSUME InitList PROVE ListInv
  OBVIOUS
<1>1. contents = <<>> /\ Len(contents) = 0 /\ contents \in Seq(Elements)
  BY DEF InitList
<1>2. next = [m \in Elements \cup {HeadNode} |-> Nil] /\ rear = HeadNode
  BY DEF InitList
<1>3. ListTypes
  BY <1>1, <1>2 DEF ListTypes
<1>4. \A j \in 0 .. Len(contents) : next[NodeNo(contents, j)] = LinkNo(contents, j)
  BY <1>1, <1>2 DEF NodeNo, LinkNo
<1> QED BY <1>1, <1>2, <1>3, <1>4 DEF ListInv, ListLinks

LEMMA HeadInsertKeeps ==
    ASSUME ListInv, ~Dangling, NEW n \in Unused, ListHeadInsert(n) PROVE ListInv'
<1>1. contents \in Seq(Elements) /\ n \in Elements /\ Len(contents) \in Nat /\ 0 \in 0 .. Len(contents)
  BY DEF ListInv, ListTypes, Unused
<1>2. PutIn(Elements, contents, contents', 0, n)
  BY <1>1, SequenceChanges DEF ListHeadInsert
<1>3. next' = [next EXCEPT ![n] = next[NodeNo(contents, 0)], ![NodeNo(contents, 0)] = n]
  BY DEF ListHeadInsert, NodeNo
<1>4. rear' = IF 0 = Len(contents) THEN n ELSE rear
  BY RearIsLast DEF ListHeadInsert
<1> QED BY <1>1, <1>2, <1>3, <1>4, InsertKeeps

LEMMA TailInsertKeeps ==
    ASSUME ListInv, ~Dangling, NEW n \in Unused, ListTailInsert(n) PROVE ListInv'
<1> DEFINE l == Len(contents)
<1>1. contents \in Seq(Elements) /\ n \in Elements /\ l \in Nat /\ l \in 0 .. l
  BY DEF ListInv, ListTypes, Unused
<1>2. PutIn(Elements, contents, contents', l, n)
  BY <1>1, SequenceChanges DEF ListTailInsert
<1>3. next[NodeNo(contents, l)] = Nil
  BY <1>1 DEF ListInv, ListLinks, LinkNo
<1>4. next' = [next EXCEPT ![n] = next[NodeNo(contents, l)], ![NodeNo(contents, l)] = n]
  BY <1>3, RearIsLast DEF ListTailInsert
<1>5. rear' = IF l = Len(contents) THEN n ELSE rear
  BY DEF ListTailInsert
<1> QED BY <1>1, <1>2, <1>4, <1>5, InsertKeeps

LEMMA PlaceTyped == ASSUME ListInv, NEW k PROVE Place(k) \in 0 .. Len(contents)
<1> DEFINE larger == {i \in DOMAIN contents : k < data[contents[i]]}
           at == CHOOSE i \in larger : \A j \in larger : i <= j
<1>1. Len(contents) \in Nat /\ DOMAIN contents = 1 .. Len(contents)
  BY DEF ListInv, ListTypes
<1>2. Place(k) = IF larger = {} THEN Len(contents) ELSE at - 1
  BY DEF Place
<1>3. CASE larger = {}
  BY <1>1, <1>2, <1>3
<1>4. CASE larger # {}
  <2>1. larger \in SUBSET Nat /\ larger \subseteq 1 .. Len(contents)
    BY <1>1
  <2> HIDE DEF larger
  <2>2. \E i \in larger : \A j \in larger : i <= j
    BY <1>4, <2>1, LeastPosition
  <2>3. at \in larger
    BY <2>2
  <2> HIDE DEF at
  <2> QED BY <1>1, <1>2, <1>4, <2>1, <2>3
<1> QED BY <1>3, <1>4

LEMMA SortInsertKeeps ==
    ASSUME ListInv, ~Dangling, NEW n \in Unused, ListSortInsert(n) PROVE ListInv'
<1>1. PICK k \in Keys :
        /\ next' = [next EXCEPT ![n] = next[NodeAt[Place(k)]], ![NodeAt[Place(k)]] = n]
        /\ rear' = IF next[NodeAt[Place(k)]] = Nil THEN n ELSE rear
        /\ contents' = SubSeq(contents, 1, Place(k)) \o <<n>> \o SubSeq(contents, Place(k) + 1, Len(contents))
  BY DEF ListSortInsert
<1> DEFINE i == Place(k)
<1>2. i \in 0 .. Len(contents)
  BY PlaceTyped
<1> HIDE DEF i
<1>3. contents \in Seq(Elements) /\ n \in Elements /\ Len(contents) \in Nat
  BY DEF ListInv, ListTypes, Unused
<1>4. PutIn(Elements, contents, contents', i, n)
  BY <1>1, <1>2, <1>3, SequenceChanges DEF i
<1>5. NodeAt[i] = NodeNo(contents, i)
  BY <1>2, PointersLead
<1>6. next' = [next EXCEPT ![n] = next[NodeNo(contents, i)], ![NodeNo(contents, i)] = n]
  BY <1>1, <1>5 DEF i
<1>7. next[NodeNo(contents, i)] = LinkNo(contents, i)
  BY <1>2 DEF ListInv, ListLinks
<1>8. LinkNo(contents, i) = Nil <=> i = Len(contents)
  <2>1. i # Len(contents) => i + 1 \in 1 .. Len(contents)
    BY <1>2, <1>3
  <2>2. i # Len(contents) => contents[i + 1] \in Elements
    BY <2>1, NodesTyped
  <2> QED BY <2>2, ListConstants DEF LinkNo
<1>9. rear' = IF i = Len(contents) THEN n ELSE rear
  BY <1>1, <1>5, <1>7, <1>8 DEF i
<1> QED BY <1>2, <1>4, <1>6, <1>9, InsertKeeps

LEMMA DeleteByKeyKeeps == ASSUME ListInv, NEW k, ListDeleteByKey(k) PROVE ListInv'
<1>1. PICK i \in DOMAIN contents :
        /\ next' = [next EXCEPT ![NodeAt[i - 1]] = next[next[NodeAt[i - 1]]],
                                ![next[NodeAt[i - 1]]] = Nil]
        /\ rear' = IF next[next[NodeAt[i - 1]]] = Nil THEN NodeAt[i - 1] ELSE rear
        /\ contents' = SubSeq(contents, 1, i - 1) \o SubSeq(contents, i + 1, Len(contents))
  BY DEF ListDeleteByKey
<1>2. /\ contents \in Seq(Elements) /\ Len(contents) \in Nat /\ i \in 1 .. Len(contents)
      /\ i - 1 \in 0 .. Len(contents) /\ i - 1 # Len(contents) /\ i \in 0 .. Len(contents)
      /\ (i - 1) + 1 = i /\ i # 0
  BY DEF ListInv, ListTypes
<1>3. NodeAt[i - 1] = NodeNo(contents, i - 1)
  BY <1>2, PointersLead
<1>4. /\ next[NodeNo(contents, i - 1)] = LinkNo(contents, i - 1)
      /\ next[NodeNo(contents, i)] = LinkNo(contents, i)
  BY <1>2 DEF ListInv, ListLinks
<1>5. LinkNo(contents, i - 1) = NodeNo(contents, i)
  BY <1>2 DEF LinkNo, NodeNo
<1>6. next' = [next EXCEPT ![NodeNo(contents, i - 1)] = LinkNo(contents, i),
                           ![NodeNo(contents, i)] = Nil]
  BY <1>1, <1>3, <1>4, <1>5
<1>7. LinkNo(contents, i) = Nil <=> i = Len(contents)
  <2>1. i # Len(contents) => i + 1 \in 1 .. Len(contents)
    BY <1>2
  <2>2. i # Len(contents) => contents[i + 1] \in Elements
    BY <2>1, NodesTyped
  <2> QED BY <2>2, ListConstants DEF LinkNo
<1>8. rear' = IF i = Len(contents) THEN NodeNo(contents, i - 1) ELSE rear
  BY <1>1, <1>3, <1>4, <1>5, <1>7
<1>9. \E m : m \in Elements
  BY <1>2, NodesTyped
<1>10. TakenOut(Elements, contents, contents', i)
  BY <1>1, <1>2, <1>9, SequenceChanges
<1> QED BY <1>2, <1>6, <1>8, <1>10, DeleteKeeps

LEMMA DeleteByNumKeeps ==
    ASSUME ListInv, ~Dangling, NEW num \in Nat \ {0}, ListDeleteByNum(num) PROVE ListInv'
<1> DEFINE m == IF num < Len(contents) THEN num ELSE Len(contents)
           deleted == {contents[i] : i \in 1 .. m}
<1>1. /\ next' = [x \in Elements \cup {HeadNode} |->
                    IF x = HeadNode THEN (IF m = Len(contents) THEN Nil ELSE contents[m + 1])
                    ELSE IF x \in deleted THEN Nil ELSE next[x]]
      /\ rear' = IF num > Len(contents) THEN HeadNode ELSE rear
      /\ contents' = SubSeq(contents, m + 1, Len(contents))
  BY DEF ListDeleteByNum
<1>2. /\ Len(contents) \in Nat /\ m \in 0 .. Len(contents) /\ contents \in Seq(Elements)
      /\ (num > Len(contents) => m = Len(contents)) /\ (m = 0 => num > Len(contents))
  BY DEF ListInv, ListTypes
<1> HIDE DEF m
<1>3. /\ contents' \in Seq(Elements) /\ Len(contents') = Len(contents) - m
      /\ \A j \in 1 .. Len(contents) - m : contents'[j] = contents[m + j]
  <2>1. \A i \in 1 .. Len(contents) : contents[i] \in Elements
    BY <1>2
  <2> QED BY <1>1, <1>2, <2>1
<1>4. \A i \in 1 .. Len(contents) : contents[i] \in Elements /\ contents[i] # HeadNode
  BY NodesTyped, ListConstants
<1>5. \A x \in deleted : x \in Elements /\ x # HeadNode
  BY <1>2, <1>4
<1>6. \A i, j \in 1 .. Len(contents) : contents[i] = contents[j] => i = j
  BY DEF ListInv, ListLinks
<1>7. \A i \in 1 .. Len(contents) : i > m => contents[i] \notin deleted
  BY <1>2, <1>6
<1>8. m # 0 => contents[m] \in deleted
  BY <1>2
<1>9. \A i \in 1 .. m : contents[i] \in deleted
  OBVIOUS
<1> HIDE DEF deleted
<1>10. ListTypes'
  <2>1. m # Len(contents) => contents[m + 1] \in Elements
    BY <1>2, <1>4
  <2>2. next' \in [Elements \cup {HeadNode} -> Elements \cup {HeadNode, Nil}]
    BY <1>1, <2>1 DEF ListInv, ListTypes
  <2> QED BY <1>1, <1>3, <2>2 DEF ListInv, ListTypes
<1>11. \A j, l \in 1 .. Len(contents') : contents'[j] = contents'[l] => j = l
  <2>1. \A j \in 1 .. Len(contents') : m + j \in 1 .. Len(contents) /\ contents'[j] = contents[m + j]
    BY <1>2, <1>3
  <2>2. \A j, l \in 1 .. Len(contents') : m + j = m + l => j = l
    BY <1>2, <1>3
  <2> QED BY <1>6, <2>1, <2>2
<1>12. \A j \in 0 .. Len(contents') : next'[NodeNo(contents', j)] = LinkNo(contents', j)
  <2> TAKE j \in 0 .. Len(contents')
  <2>1. CASE j = 0
    <3>1. next'[HeadNode] = IF m = Len(contents) THEN Nil ELSE contents[m + 1]
      BY <1>1
    <3>2. LinkNo(contents', 0) = IF m = Len(contents) THEN Nil ELSE contents[m + 1]
      <4>1. CASE m = Len(contents)
        BY <1>2, <1>3, <4>1 DEF LinkNo
      <4>2. CASE m # Len(contents)
        <5>1. 1 \in 1 .. Len(contents) - m /\ 0 # Len(contents')
          BY <1>2, <1>3, <4>2
        <5>2. contents'[0 + 1] = contents[m + 1]
          BY <1>3, <5>1
        <5> QED BY <4>2, <5>1, <5>2 DEF LinkNo
      <4> QED BY <4>1, <4>2
    <3> QED BY <2>1, <3>1, <3>2 DEF NodeNo
  <2>2. CASE j # 0
    <3>1. /\ m + j \in 1 .. Len(contents) /\ m + j > m /\ m + j \in 0 .. Len(contents) /\ m + j # 0
          /\ j \in 1 .. Len(contents) - m /\ (j = Len(contents') <=> m + j = Len(contents))
      BY <1>2, <1>3, <2>2
    <3>2. NodeNo(contents', j) = contents[m + j] /\ NodeNo(contents, m + j) = contents[m + j]
      BY <1>3, <2>2, <3>1 DEF NodeNo
    <3>3. next'[contents[m + j]] = next[contents[m + j]]
      BY <1>1, <1>4, <1>7, <3>1
    <3>4. next[contents[m + j]] = LinkNo(contents, m + j)
      BY <3>1, <3>2 DEF ListInv, ListLinks
    <3>5. LinkNo(contents', j) = LinkNo(contents, m + j)
      <4>1. CASE j = Len(contents')
        BY <3>1, <4>1 DEF LinkNo
      <4>2. CASE j # Len(contents')
        <5>1. j + 1 \in 1 .. Len(contents) - m /\ m + (j + 1) = (m + j) + 1
          <6>1. j \in Nat /\ j <= Len(contents) - m /\ j # Len(contents) - m
            BY <1>3, <4>2
          <6> QED BY <1>2, <6>1
        <5>2. contents'[j + 1] = contents[m + (j + 1)]
          BY <1>3, <5>1
        <5>3. contents'[j + 1] = contents[(m + j) + 1]
          BY <5>1, <5>2
        <5> QED BY <3>1, <4>2, <5>3 DEF LinkNo
      <4> QED BY <4>1, <4>2
    <3> QED BY <3>2, <3>3, <3>4, <3>5
  <2> QED BY <2>1, <2>2
<1>13. contents' # <<>> => rear' = contents'[Len(contents')]
  <2>1. SUFFICES ASSUME contents' # <<>> PROVE rear' = contents'[Len(contents')]
    OBVIOUS
  <2>2. Len(contents') \in 1 .. Len(contents) - m /\ m + Len(contents') = Len(contents)
    BY <1>2, <1>3, <2>1
  <2>3. ~(num > Len(contents)) /\ Len(contents) # 0 /\ contents # <<>>
    BY <1>2, <1>3, <2>2
  <2>4. rear' = contents[Len(contents)]
    BY <1>1, <2>3 DEF ListInv, ListLinks
  <2> QED BY <1>3, <2>2, <2>4
<1>14. rear' # HeadNode /\ contents' = <<>> => next'[rear'] = Nil
  <2>1. SUFFICES ASSUME rear' # HeadNode, contents' = <<>> PROVE next'[rear'] = Nil
    OBVIOUS
  <2>0. Len(contents') = 0
    BY <2>1
  <2>2. rear' = rear /\ m # 0 /\ m = Len(contents)
    BY <1>1, <1>2, <1>3, <2>0, <2>1
  <2>3. rear = contents[m] /\ m \in 1 .. Len(contents)
    BY <1>2, <2>2, RearIsLast DEF NodeNo
  <2> QED BY <1>1, <1>4, <1>8, <2>2, <2>3
<1>15. ListLinks'
  BY <1>11, <1>12, <1>13, <1>14 DEF ListLinks, NodeNo, LinkNo
<1> QED BY <1>10, <1>15 DEF ListInv

LEMMA ClearKeeps == ASSUME ListInv, ClearList PROVE ListInv'
<1>1. contents' = <<>> /\ Len(contents') = 0 /\ contents' \in Seq(Elements)
  BY DEF ClearList
<1>2. next' = [m \in Elements \cup {HeadNode} |-> Nil] /\ rear' = HeadNode
  BY DEF ClearList
<1>3. ListTypes'
  BY <1>1, <1>2 DEF ListTypes
<1>4. \A j \in 0 .. Len(contents') : next'[NodeNo(contents', j)] = LinkNo(contents', j)
  BY <1>1, <1>2 DEF NodeNo, LinkNo
<1> QED BY <1>1, <1>2, <1>3, <1>4 DEF ListInv, ListLinks, NodeNo, LinkNo

LEMMA ListStepInv == ListInv /\ [ListNext]_listVars => ListInv'
<1> SUFFICES ASSUME ListInv, [ListNext]_listVars PROVE ListInv'
  OBVIOUS
<1>1. CASE UNCHANGED listVars
  BY <1>1 DEF listVars, ListInv, ListTypes, ListLinks, NodeNo, LinkNo
<1>2. CASE ListNext
  <2>1. ~Dangling
    BY <1>2 DEF ListNext
  <2>2. CASE \E n \in Unused : ListHeadInsert(n) \/ ListTailInsert(n) \/ ListSortInsert(n)
    BY <2>1, <2>2, HeadInsertKeeps, TailInsertKeeps, SortInsertKeeps
  <2>3. CASE \E k \in Keys : ListDeleteByKey(k)
    BY <2>3, DeleteByKeyKeeps
  <2>4. CASE \E num \in 1 .. Cardinality(Elements) : ListDeleteByNum(num)
    <3>1. Cardinality(Elements) \in Nat
      BY ListConstants, FS_CardinalityType
    <3>2. \A num \in 1 .. Cardinality(Elements) : num \in Nat \ {0}
      BY <3>1
    <3> QED BY <2>1, <2>4, <3>2, DeleteByNumKeeps
  <2>5. CASE ClearList
    BY <2>5, ClearKeeps
  <2> QED BY <1>2, <2>2, <2>3, <2>4, <2>5 DEF ListNext
<1> QED BY <1>1, <1>2

LEMMA ListAlways == ListSpec => []ListInv
BY ListInit, ListStepInv, PTL DEF ListSpec

\* The pointers of the list of ls and of the chat room lead through the nodes that were
\* put in and not taken out, in order, and rear is the last of them (list.c).
THEOREM ListHoldsTheorem == ListSpec => []ListHoldsContents
BY ListAlways, InvHolds, PTL

----------------------------------------------------------------------------
(* The directory walks *)

\* The tree, and which walk it is.
TreeOK ==
    /\ walk \in {"bfs", "dfs", "find", "sorted", "plain"}
    /\ folder \in [Files \ {Root} -> Files] /\ \A e \in Files \ {Root} : folder[e] < e
    /\ Root \in dirs /\ \A e \in Files \ {Root} : folder[e] \in dirs
    /\ alive \subseteq Files /\ Root \in alive /\ \A e \in alive \ {Root} : folder[e] \in alive
    /\ walk = "find" => sought \in Files \ {Root}
    /\ dotted => walk = "bfs"

\* What the frames and the output are, and when.
WalkTypes ==
    /\ frames \in Seq(Seq(Files)) /\ printed \in Seq(Files) /\ listed \in Seq(Files)
    /\ walkState = "start" => frames = <<>> /\ printed = <<>> /\ listed = <<>>
    /\ walkState = "running" => /\ walk \in {"bfs", "sorted", "plain"} => Len(frames) = 1
                                /\ walk = "find" => frames # <<>>
    /\ walkState \in {"found", "missing", "silent"} => walk = "find"
    /\ walkState = "done" => walk # "find"

\* An entry is printed once, and waits in one place.
Once(s) == \A i, j \in DOMAIN s : s[i] = s[j] => i = j
OneEach(fs) ==
    \A a, b \in DOMAIN fs : \A i \in DOMAIN fs[a], j \in DOMAIN fs[b] :
        fs[a][i] = fs[b][j] => a = b /\ i = j
InFrames(fs) == UNION {Named(fs[a]) : a \in DOMAIN fs}

\* What waits to be taken; the directories whose entries have been listed.
Awaited == InFrames(frames)
Known == Named(printed) \cup (IF walk = "dfs" THEN {Root} ELSE {})

\* bfs and dfs: nothing is printed before its directory, nothing waits that is printed, and
\* what is still there in a directory that was listed is printed or waits.
Reached ==
    /\ Once(printed)
    /\ \A i \in DOMAIN printed : printed[i] # Root /\ ~(walk = "dfs" /\ folder[printed[i]] = Root) =>
            \E j \in 1 .. i - 1 : printed[j] = folder[printed[i]]
    /\ \A x \in Awaited : /\ x \notin Named(printed)
                          /\ x # Root => folder[x] \in Known
                          /\ x = Root => walk = "bfs"
    /\ walkState \in {"running", "done"} /\ ~dotted =>
         /\ \A x \in alive \ {Root} : folder[x] \in Known => x \in Named(printed) \cup Awaited
         /\ walk = "bfs" => Root \in Named(printed) \cup Awaited
    /\ walkState = "done" => Awaited = {}

\* What is printed is not deeper than what waits, and that is of two levels, in their order.
LevelOK ==
    /\ \A i, j \in DOMAIN printed : i < j => Depth[printed[i]] <= Depth[printed[j]]
    /\ walkState = "running" =>
         /\ Once(Queued)
         /\ \A i \in DOMAIN printed, j \in DOMAIN Queued : Depth[printed[i]] <= Depth[Queued[j]]
         /\ \A i, j \in DOMAIN Queued : i < j => Depth[Queued[i]] <= Depth[Queued[j]]
         /\ \A j \in DOMAIN Queued : Depth[Queued[j]] <= Depth[Queued[1]] + 1
         /\ dotted => \/ printed = <<>> /\ Queued = <<Root>>
                      \/ printed = <<Root>> /\ Queued = <<>>
    /\ walkState = "done" /\ dotted => printed = <<Root>>

BfsInv == walk = "bfs" => Reached /\ LevelOK
DfsInv == walk = "dfs" => Reached /\ (walkState = "running" => OneEach(frames))

\* The directory whose entries the i-th frame of find has left.
DirOf(i) == IF i = 1 THEN Root ELSE Head(frames[i - 1])

\* The frames below the last stand at the directory that the next one reads; as long as
\* its name is in a frame's directory, it is among the entries that the frame has left.
FindInv ==
    walk = "find" =>
      /\ walkState # "found" => printed = <<>>
      /\ walkState = "found" => printed = <<folder[sought]>>
      /\ walkState \in {"running", "missing"} =>
           /\ frames # <<>>
           /\ \A i \in 1 .. Len(frames) - 1 : frames[i] # <<>> /\ Head(frames[i]) # sought
           /\ sought \in alive => \A i \in 1 .. Len(frames) : folder[sought] = DirOf(i) => sought \in Named(frames[i])
      /\ walkState = "missing" => frames[Len(frames)] = <<>>

Increasing(s) == \A i, j \in DOMAIN s : i < j => s[i] < s[j]
Kept == IF walk = "sorted" THEN listed ELSE printed

\* What ls has read and what it has not are together its directory, and apart.
LsInv ==
    walk \in {"sorted", "plain"} =>
      /\ Once(printed) /\ Once(listed)
      /\ walk = "sorted" => /\ Increasing(listed) /\ Increasing(printed)
                            /\ walkState # "done" => printed = <<>>
      /\ walkState = "running" =>
           /\ Once(Top)
           /\ Entry(Root) \subseteq Named(Kept) \cup Named(Top)
           /\ Named(Kept) \cup Named(Top) \subseteq ChildrenOf(Root)
           /\ Named(Kept) \cap Named(Top) = {}
      /\ walkState = "done" => Entry(Root) \subseteq Named(printed) /\ Named(printed) \subseteq ChildrenOf(Root)

\* The entries of a directory, as readdir gives them.
LEMMA ListingsList ==
    ASSUME TreeOK, NEW d, NEW s \in Listings(d)
    PROVE  s \in Seq(Files) /\ Named(s) = Entry(d) /\ Once(s)
<1> DEFINE E == Entry(d)
           c == Cardinality(E)
<1>1. IsFiniteSet(Files)
  <2>1. 1 \in Int /\ NumFiles \in Int
    BY WalkConstants
  <2> QED BY <2>1, FS_Interval DEF Files
<1>2. E \subseteq Files
  BY DEF TreeOK, Entry, ChildrenOf
<1>3. IsFiniteSet(E) /\ c \in Nat
  BY <1>1, <1>2, FS_Subset, FS_CardinalityType
<1>4. s \in [1 .. c -> E] /\ \A i, j \in 1 .. c : s[i] = s[j] => i = j
  BY DEF Listings
<1> HIDE DEF E, c
<1>5. s \in Seq(Files)
  BY <1>2, <1>3, <1>4
<1>6. Once(s)
  BY <1>4 DEF Once
<1>7. s \in Injection(1 .. c, E)
  BY <1>4 DEF Injection, IsInjective
<1>8. IsFiniteSet(1 .. c) /\ Cardinality(1 .. c) = Cardinality(E)
  <2>1. 1 \in Int /\ c \in Int
    BY <1>3
  <2>2. IsFiniteSet(1 .. c) /\ Cardinality(1 .. c) = IF 1 > c THEN 0 ELSE c - 1 + 1
    BY <2>1, FS_Interval
  <2>3. Cardinality(1 .. c) = c
    BY <1>3, <2>2
  <2> QED BY <2>2, <2>3 DEF c
<1>9. s \in Surjection(1 .. c, E)
  BY <1>3, <1>7, <1>8, FS_Injection
<1>10. \A x : x \in Named(s) <=> x \in E
  BY <1>4, <1>9 DEF Surjection, Named
<1>11. Named(s) = E
  BY <1>10
<1> QED BY <1>5, <1>6, <1>11 DEF E

\* Lists of files and the names in them.
LEMMA Appended ==
    ASSUME NEW s \in Seq(Files), NEW e \in Files
    PROVE  /\ Append(s, e) \in Seq(Files) /\ Len(Append(s, e)) = Len(s) + 1
           /\ \A i \in 1 .. Len(s) : Append(s, e)[i] = s[i]
           /\ Append(s, e)[Len(s) + 1] = e
           /\ Named(Append(s, e)) = Named(s) \cup {e}
<1> DEFINE t == Append(s, e)
<1>1. /\ t \in Seq(Files) /\ Len(t) = Len(s) + 1 /\ Len(s) \in Nat
      /\ \A i \in 1 .. Len(s) : t[i] = s[i]
      /\ t[Len(s) + 1] = e
  OBVIOUS
<1> HIDE DEF t
<1>2. DOMAIN t = 1 .. Len(s) + 1 /\ DOMAIN s = 1 .. Len(s)
  BY <1>1
<1>3. \A i \in 1 .. Len(s) + 1 : i \in 1 .. Len(s) \/ i = Len(s) + 1
  BY <1>1
<1>4. 1 .. Len(s) \subseteq 1 .. Len(s) + 1 /\ Len(s) + 1 \in 1 .. Len(s) + 1
  BY <1>1
<1>5. \A x : x \in Named(t) <=> x \in Named(s) \/ x = e
  BY <1>1, <1>2, <1>3, <1>4 DEF Named
<1>6. Named(t) = Named(s) \cup {e}
  BY <1>5
<1> QED BY <1>1, <1>6 DEF t

LEMMA Shortened ==
    ASSUME NEW s \in Seq(Files), s # <<>>
    PROVE  /\ Head(s) = s[1] /\ Head(s) \in Files /\ Head(s) \in Named(s)
           /\ Tail(s) \in Seq(Files) /\ Len(s) \in Nat \ {0} /\ Len(Tail(s)) = Len(s) - 1
           /\ \A i \in 1 .. Len(s) - 1 : Tail(s)[i] = s[i + 1]
           /\ Once(s) => Once(Tail(s)) /\ Named(Tail(s)) = Named(s) \ {Head(s)}
<1> DEFINE t == Tail(s)
<1>1. /\ Head(s) = s[1] /\ t \in Seq(Files) /\ Len(s) \in Nat \ {0} /\ Len(t) = Len(s) - 1
      /\ \A i \in 1 .. Len(s) - 1 : t[i] = s[i + 1]
  OBVIOUS
<1> HIDE DEF t
<1>2. DOMAIN t = 1 .. Len(s) - 1 /\ DOMAIN s = 1 .. Len(s) /\ 1 \in 1 .. Len(s)
  BY <1>1
<1>3. s[1] \in Files /\ Head(s) \in Named(s)
  BY <1>1, <1>2 DEF Named
<1>4. ASSUME Once(s) PROVE Once(t) /\ Named(t) = Named(s) \ {Head(s)}
  <2>1. \A i \in 1 .. Len(s) - 1 : i + 1 \in 1 .. Len(s) /\ i + 1 # 1
    BY <1>1
  <2>2. \A i, j \in 1 .. Len(s) - 1 : i + 1 = j + 1 => i = j
    BY <1>1
  <2>3. \A i, j \in 1 .. Len(s) : s[i] = s[j] => i = j
    BY <1>2, <1>4 DEF Once
  <2>4. Once(t)
    BY <1>1, <1>2, <2>1, <2>2, <2>3 DEF Once
  <2>5. \A i \in 1 .. Len(s) : i = 1 \/ (i - 1 \in 1 .. Len(s) - 1 /\ (i - 1) + 1 = i)
    BY <1>1
  <2>6. \A x : x \in Named(t) <=> x \in Named(s) /\ x # s[1]
    <3> TAKE x
    <3>1. x \in Named(t) => x \in Named(s) /\ x # s[1]
      BY <1>1, <1>2, <2>1, <2>3 DEF Named
    <3>2. ASSUME x \in Named(s), x # s[1] PROVE x \in Named(t)
      <4>1. PICK i \in 1 .. Len(s) : x = s[i]
        BY <1>2, <3>2 DEF Named
      <4>2. i - 1 \in 1 .. Len(s) - 1 /\ (i - 1) + 1 = i
        BY <2>5, <3>2, <4>1
      <4>3. t[i - 1] = x
        BY <1>1, <4>1, <4>2
      <4> QED BY <1>2, <4>2, <4>3 DEF Named
    <3> QED BY <3>1, <3>2
  <2>7. Named(t) = Named(s) \ {Head(s)}
    BY <1>1, <2>6
  <2> QED BY <2>4, <2>7
<1> QED BY <1>1, <1>3, <1>4 DEF t

LEMMA JoinedLists ==
    ASSUME NEW s \in Seq(Files), NEW t \in Seq(Files)
    PROVE  /\ s \o t \in Seq(Files) /\ Len(s \o t) = Len(s) + Len(t)
           /\ \A i \in 1 .. Len(s) : (s \o t)[i] = s[i]
           /\ \A i \in 1 .. Len(t) : (s \o t)[Len(s) + i] = t[i]
           /\ Named(s \o t) = Named(s) \cup Named(t)
           /\ Once(s) /\ Once(t) /\ Named(s) \cap Named(t) = {} => Once(s \o t)
<1> DEFINE w == s \o t
<1>1. /\ w \in Seq(Files) /\ Len(w) = Len(s) + Len(t) /\ Len(s) \in Nat /\ Len(t) \in Nat
      /\ \A i \in 1 .. Len(s) + Len(t) : w[i] = IF i <= Len(s) THEN s[i] ELSE t[i - Len(s)]
  OBVIOUS
<1> HIDE DEF w
<1>2. DOMAIN w = 1 .. Len(s) + Len(t) /\ DOMAIN s = 1 .. Len(s) /\ DOMAIN t = 1 .. Len(t)
  BY <1>1
<1>3. \A i \in 1 .. Len(s) : i \in 1 .. Len(s) + Len(t) /\ w[i] = s[i]
  BY <1>1
<1>4. \A i \in 1 .. Len(t) : Len(s) + i \in 1 .. Len(s) + Len(t) /\ w[Len(s) + i] = t[i]
  <2> TAKE i \in 1 .. Len(t)
  <2>1. /\ Len(s) + i \in 1 .. Len(s) + Len(t) /\ ~(Len(s) + i <= Len(s))
        /\ (Len(s) + i) - Len(s) = i
    BY <1>1
  <2> QED BY <1>1, <2>1
<1>5. \A i \in 1 .. Len(s) + Len(t) :
         \/ i \in 1 .. Len(s)
         \/ i - Len(s) \in 1 .. Len(t) /\ Len(s) + (i - Len(s)) = i
  BY <1>1
<1>6. \A i \in 1 .. Len(s) + Len(t) :
         \/ i \in 1 .. Len(s) /\ w[i] = s[i]
         \/ i - Len(s) \in 1 .. Len(t) /\ w[i] = t[i - Len(s)]
  BY <1>3, <1>4, <1>5
<1>7. \A x : x \in Named(w) <=> x \in Named(s) \/ x \in Named(t)
  <2> TAKE x
  <2>1. x \in Named(w) => x \in Named(s) \/ x \in Named(t)
    BY <1>2, <1>6 DEF Named
  <2>2. x \in Named(s) => x \in Named(w)
    BY <1>2, <1>3 DEF Named
  <2>3. x \in Named(t) => x \in Named(w)
    BY <1>2, <1>4 DEF Named
  <2> QED BY <2>1, <2>2, <2>3
<1>8. ASSUME Once(s), Once(t), Named(s) \cap Named(t) = {} PROVE Once(w)
  <2>1. \A i \in 1 .. Len(s), j \in 1 .. Len(t) : s[i] # t[j]
    BY <1>2, <1>8 DEF Named
  <2>2. SUFFICES ASSUME NEW i \in 1 .. Len(s) + Len(t), NEW j \in 1 .. Len(s) + Len(t), w[i] = w[j]
                 PROVE  i = j
    BY <1>2 DEF Once
  <2>3. CASE i \in 1 .. Len(s) /\ w[i] = s[i]
    <3>1. j \in 1 .. Len(s) /\ w[j] = s[j]
      BY <1>6, <2>1, <2>2, <2>3
    <3> QED BY <1>2, <1>8, <2>2, <2>3, <3>1 DEF Once
  <2>4. CASE i - Len(s) \in 1 .. Len(t) /\ w[i] = t[i - Len(s)]
    <3>1. j - Len(s) \in 1 .. Len(t) /\ w[j] = t[j - Len(s)]
      BY <1>6, <2>1, <2>2, <2>4
    <3>2. i - Len(s) = j - Len(s)
      BY <1>2, <1>8, <2>2, <2>4, <3>1 DEF Once
    <3> QED BY <1>1, <3>2
  <2> QED BY <1>6, <2>3, <2>4
<1>9. Named(w) = Named(s) \cup Named(t)
  BY <1>7
<1> QED BY <1>1, <1>3, <1>4, <1>8, <1>9 DEF w

\* The names in the directories in work.
LEMMA OneFrame ==
    ASSUME NEW s \in Seq(Files) PROVE InFrames(<<s>>) = Named(s)
<1>1. DOMAIN <<s>> = {1} /\ <<s>>[1] = s
  OBVIOUS
<1>2. \A x : x \in InFrames(<<s>>) <=> x \in Named(s)
  BY <1>1 DEF InFrames
<1> QED BY <1>2

\* The head of the last frame is taken off.
LEMMA TopShortened ==
    ASSUME NEW fs \in Seq(Seq(Files)), fs # <<>>, OneEach(fs), NEW l, l = Len(fs),
           fs[l] # <<>>
    PROVE  LET gs == Append(SubSeq(fs, 1, l - 1), Tail(fs[l])) IN
           /\ gs \in Seq(Seq(Files)) /\ Len(gs) = l
           /\ \A a \in 1 .. l - 1 : gs[a] = fs[a]
           /\ gs[l] = Tail(fs[l])
           /\ OneEach(gs) /\ InFrames(gs) = InFrames(fs) \ {Head(fs[l])}
<1> DEFINE t == fs[l]
           gs == Append(SubSeq(fs, 1, l - 1), Tail(t))
<1>1. l \in Nat \ {0} /\ l \in 1 .. l /\ DOMAIN fs = 1 .. l /\ \A a \in 1 .. l : fs[a] \in Seq(Files)
  OBVIOUS
<1>2. t \in Seq(Files) /\ t # <<>>
  BY <1>1
<1>3. Once(t)
  BY <1>1 DEF OneEach, Once
<1>4. /\ Head(t) = t[1] /\ Tail(t) \in Seq(Files) /\ Len(t) \in Nat \ {0}
      /\ Len(Tail(t)) = Len(t) - 1
      /\ \A i \in 1 .. Len(t) - 1 : Tail(t)[i] = t[i + 1]
      /\ Named(Tail(t)) = Named(t) \ {Head(t)}
  <2> HIDE DEF t
  <2> QED BY <1>2, <1>3, Shortened
<1>5. /\ gs \in Seq(Seq(Files)) /\ Len(gs) = l
      /\ \A a \in 1 .. l - 1 : gs[a] = fs[a]
      /\ gs[l] = Tail(t)
  <2> DEFINE u == SubSeq(fs, 1, l - 1)
  <2>1. u \in Seq(Seq(Files)) /\ Len(u) = l - 1 /\ \A a \in 1 .. l - 1 : u[a] = fs[a]
    BY <1>1
  <2> HIDE DEF u, t
  <2>2. /\ Append(u, Tail(t)) \in Seq(Seq(Files)) /\ Len(Append(u, Tail(t))) = l
        /\ \A a \in 1 .. l - 1 : Append(u, Tail(t))[a] = u[a]
        /\ Append(u, Tail(t))[l] = Tail(t)
    BY <1>1, <1>4, <2>1
  <2> QED BY <2>1, <2>2 DEF u
<1> HIDE DEF gs
<1>6. DOMAIN gs = 1 .. l
  BY <1>1, <1>5
<1>7. \A a \in 1 .. l : a \in 1 .. l - 1 \/ a = l
  BY <1>1
<1>8. \A a \in 1 .. l - 1 : a # l /\ a \in 1 .. l
  BY <1>1
<1>9. DOMAIN Tail(t) = 1 .. Len(t) - 1 /\ DOMAIN t = 1 .. Len(t)
  BY <1>2, <1>4
\* Where the elements of gs come from.
<1> DEFINE from(a, i) == IF a = l THEN i + 1 ELSE i
<1>10. ASSUME NEW a \in 1 .. l, NEW i \in DOMAIN gs[a]
       PROVE  from(a, i) \in DOMAIN fs[a] /\ gs[a][i] = fs[a][from(a, i)] /\ (a = l => i \in Nat)
  <2>1. CASE a = l
    <3>1. i \in 1 .. Len(t) - 1
      BY <1>5, <1>9, <1>10, <2>1
    <3>2. i + 1 \in 1 .. Len(t) /\ i \in Nat
      BY <1>4, <3>1
    <3> QED BY <1>4, <1>5, <1>9, <2>1, <3>1, <3>2
  <2>2. CASE a # l
    BY <1>5, <1>7, <2>2
  <2> QED BY <2>1, <2>2
<1>11. OneEach(gs)
  <2>1. SUFFICES ASSUME NEW a \in 1 .. l, NEW b \in 1 .. l, NEW i \in DOMAIN gs[a],
                        NEW j \in DOMAIN gs[b], gs[a][i] = gs[b][j]
                 PROVE  a = b /\ i = j
    BY <1>6 DEF OneEach
  <2>2. a = b /\ from(a, i) = from(b, j)
    <3>1. fs[a][from(a, i)] = fs[b][from(b, j)]
      BY <1>10, <2>1
    <3>2. from(a, i) \in DOMAIN fs[a] /\ from(b, j) \in DOMAIN fs[b]
      BY <1>10
    <3> HIDE DEF from
    <3> QED BY <1>1, <3>1, <3>2 DEF OneEach
  <2>3. a = l => i \in Nat /\ j \in Nat
    BY <1>10, <2>2
  <2> QED BY <2>2, <2>3
<1>12. \A x : x \in InFrames(gs) <=> x \in InFrames(fs) /\ x # Head(t)
  <2> TAKE x
  <2>1. x \in InFrames(gs) <=> \E a \in 1 .. l : x \in Named(gs[a])
    BY <1>6 DEF InFrames
  <2>2. x \in InFrames(fs) <=> \E a \in 1 .. l : x \in Named(fs[a])
    BY <1>1 DEF InFrames
  <2>3. \A a \in 1 .. l - 1 : Head(t) \notin Named(fs[a])
    <3>1. 1 \in DOMAIN fs[l]
      BY <1>4, <1>9
    <3>2. SUFFICES ASSUME NEW a \in 1 .. l - 1, NEW i \in DOMAIN fs[a], fs[a][i] = fs[l][1]
                   PROVE  FALSE
      BY <1>4 DEF Named
    <3>3. a \in 1 .. l /\ l \in 1 .. l /\ a # l
      BY <1>1, <1>8
    <3> QED BY <1>1, <3>1, <3>2, <3>3 DEF OneEach
  <2>4. x \in Named(gs[l]) <=> x \in Named(t) /\ x # Head(t)
    BY <1>4, <1>5
  <2>5. \A a \in 1 .. l - 1 : x \in Named(gs[a]) <=> x \in Named(fs[a]) /\ x # Head(t)
    BY <1>5, <2>3
  <2> HIDE DEF t
  <2>6. fs[l] = t
    BY DEF t
  <2> QED BY <1>1, <1>7, <1>8, <2>1, <2>2, <2>4, <2>5, <2>6
<1>13. InFrames(gs) = InFrames(fs) \ {Head(t)}
  BY <1>12
<1> QED BY <1>5, <1>11, <1>13 DEF gs

\* A frame is pushed.
LEMMA FramePushed ==
    ASSUME NEW fs \in Seq(Seq(Files)), OneEach(fs), NEW s \in Seq(Files), Once(s),
           InFrames(fs) \cap Named(s) = {}
    PROVE  /\ Append(fs, s) \in Seq(Seq(Files))
           /\ OneEach(Append(fs, s)) /\ InFrames(Append(fs, s)) = InFrames(fs) \cup Named(s)
<1> DEFINE gs == Append(fs, s)
           l == Len(fs)
<1>1. /\ gs \in Seq(Seq(Files)) /\ Len(gs) = l + 1 /\ l \in Nat
      /\ \A a \in 1 .. l : gs[a] = fs[a]
      /\ gs[l + 1] = s
  OBVIOUS
<1>2. DOMAIN fs = 1 .. l
  OBVIOUS
<1> HIDE DEF gs, l
<1>3. DOMAIN gs = 1 .. l + 1
  BY <1>1
<1>4. \A a \in 1 .. l + 1 : a \in 1 .. l \/ a = l + 1
  BY <1>1
<1>5. \A a \in 1 .. l : a \in 1 .. l + 1 /\ a # l + 1
  BY <1>1
<1>6. l + 1 \in 1 .. l + 1
  BY <1>1
<1>7. \A x : x \in InFrames(gs) <=> x \in InFrames(fs) \/ x \in Named(s)
  <2> TAKE x
  <2>1. x \in InFrames(gs) <=> \E a \in 1 .. l + 1 : x \in Named(gs[a])
    BY <1>3 DEF InFrames
  <2>2. x \in InFrames(fs) <=> \E a \in 1 .. l : x \in Named(fs[a])
    BY <1>2 DEF InFrames
  <2> QED BY <1>1, <1>4, <1>5, <1>6, <2>1, <2>2
<1>8. \A a \in 1 .. l : \A i \in DOMAIN fs[a], j \in DOMAIN s : fs[a][i] # s[j]
  <2>1. SUFFICES ASSUME NEW a \in 1 .. l, NEW i \in DOMAIN fs[a], NEW j \in DOMAIN s, fs[a][i] = s[j]
                 PROVE  FALSE
    OBVIOUS
  <2>2. fs[a][i] \in Named(fs[a]) /\ s[j] \in Named(s)
    BY DEF Named
  <2>3. fs[a][i] \in InFrames(fs)
    BY <1>2, <2>2 DEF InFrames
  <2> QED BY <2>1, <2>2, <2>3
<1>9. OneEach(gs)
  <2>1. SUFFICES ASSUME NEW a \in 1 .. l + 1, NEW b \in 1 .. l + 1, NEW i \in DOMAIN gs[a],
                        NEW j \in DOMAIN gs[b], gs[a][i] = gs[b][j]
                 PROVE  a = b /\ i = j
    BY <1>3 DEF OneEach
  <2>2. CASE a \in 1 .. l /\ b \in 1 .. l
    <3>1. gs[a] = fs[a] /\ gs[b] = fs[b] /\ a \in DOMAIN fs /\ b \in DOMAIN fs
      BY <1>1, <1>2, <2>2
    <3> QED BY <2>1, <3>1 DEF OneEach
  <2>3. CASE a \in 1 .. l /\ b = l + 1
    <3>1. gs[a] = fs[a] /\ gs[b] = s
      BY <1>1, <2>3
    <3> QED BY <1>8, <2>1, <2>3, <3>1
  <2>4. CASE a = l + 1 /\ b \in 1 .. l
    <3>1. gs[a] = s /\ gs[b] = fs[b]
      BY <1>1, <2>4
    <3> QED BY <1>8, <2>1, <2>4, <3>1
  <2>5. CASE a = l + 1 /\ b = l + 1
    <3>1. gs[a] = s /\ gs[b] = s
      BY <1>1, <2>5
    <3> QED BY <2>1, <2>5, <3>1 DEF Once
  <2> QED BY <1>4, <2>2, <2>3, <2>4, <2>5
<1>10. InFrames(gs) = InFrames(fs) \cup Named(s)
  BY <1>7
<1> QED BY <1>1, <1>9, <1>10 DEF gs

\* An empty frame is popped.
LEMMA FramePopped ==
    ASSUME NEW fs \in Seq(Seq(Files)), fs # <<>>, OneEach(fs), NEW l, l = Len(fs), fs[l] = <<>>
    PROVE  LET gs == SubSeq(fs, 1, l - 1) IN
           /\ gs \in Seq(Seq(Files)) /\ Len(gs) = l - 1
           /\ OneEach(gs) /\ InFrames(gs) = InFrames(fs)
<1> DEFINE gs == SubSeq(fs, 1, l - 1)
<1>1. l \in Nat \ {0} /\ DOMAIN fs = 1 .. l /\ \A a \in 1 .. l : fs[a] \in Seq(Files)
  OBVIOUS
<1>2. gs \in Seq(Seq(Files)) /\ Len(gs) = l - 1 /\ \A a \in 1 .. l - 1 : gs[a] = fs[a]
  BY <1>1
<1> HIDE DEF gs
<1>3. DOMAIN gs = 1 .. l - 1
  BY <1>1, <1>2
<1>4. \A a \in 1 .. l : a \in 1 .. l - 1 \/ a = l
  BY <1>1
<1>5. \A a \in 1 .. l - 1 : a \in 1 .. l
  BY <1>1
<1>6. OneEach(gs)
  <2>1. SUFFICES ASSUME NEW a \in 1 .. l - 1, NEW b \in 1 .. l - 1, NEW i \in DOMAIN gs[a],
                        NEW j \in DOMAIN gs[b], gs[a][i] = gs[b][j]
                 PROVE  a = b /\ i = j
    BY <1>3 DEF OneEach
  <2>2. gs[a] = fs[a] /\ gs[b] = fs[b] /\ a \in DOMAIN fs /\ b \in DOMAIN fs
    BY <1>1, <1>2, <1>5
  <2> QED BY <2>1, <2>2 DEF OneEach
<1>7. Named(fs[l]) = {}
  BY DEF Named
<1>8. \A x : x \in InFrames(gs) <=> x \in InFrames(fs)
  <2> TAKE x
  <2>1. x \in InFrames(gs) <=> \E a \in 1 .. l - 1 : x \in Named(gs[a])
    BY <1>3 DEF InFrames
  <2>2. x \in InFrames(fs) <=> \E a \in 1 .. l : x \in Named(fs[a])
    BY <1>1 DEF InFrames
  <2> QED BY <1>2, <1>4, <1>5, <1>7, <2>1, <2>2
<1>9. InFrames(gs) = InFrames(fs)
  BY <1>8
<1> QED BY <1>2, <1>6, <1>9 DEF gs

----------------------------------------------------------------------------
(* The tree *)

\* How deep a file lies.  Such a function exists up to every number of files, as a file
\* comes after its directory.
LEMMA DepthExists ==
    ASSUME TreeOK
    PROVE  \E g : g = [e \in Files |-> IF e = Root THEN 0 ELSE 1 + g[folder[e]]]
<1> DEFINE UpTo(k) == \E g : g = [e \in 1 .. k |-> IF e = Root THEN 0 ELSE 1 + g[folder[e]]]
           Bad == {k \in Nat : k <= NumFiles /\ ~UpTo(k)}
<1>1. SUFFICES ASSUME Bad # {} PROVE FALSE
  <2>1. NumFiles \in Nat /\ NumFiles <= NumFiles
    BY WalkConstants
  <2>2. UpTo(NumFiles)
    BY <2>1
  <2> QED BY <2>2 DEF Files
<1>2. PICK m \in Bad : \A k \in Bad : m <= k
  <2>1. Bad \in SUBSET Nat
    OBVIOUS
  <2> HIDE DEF Bad
  <2> QED BY <1>1, <2>1, LeastPosition
<1>3. m \in Nat /\ m <= NumFiles /\ ~UpTo(m)
  BY <1>2
<1>4. m # 0
  <2>1. SUFFICES ASSUME m = 0 PROVE FALSE
    OBVIOUS
  <2>2. <<>> = [e \in 1 .. 0 |-> IF e = Root THEN 0 ELSE 1 + <<>>[folder[e]]]
    OBVIOUS
  <2>3. UpTo(m)
    BY <2>1, <2>2
  <2> QED BY <1>3, <2>3
<1>5. m - 1 \in Nat /\ m - 1 <= NumFiles /\ ~(m <= m - 1)
  BY <1>3, <1>4, WalkConstants
<1>6. UpTo(m - 1)
  BY <1>2, <1>5
<1>7. PICK f : f = [e \in 1 .. m - 1 |-> IF e = Root THEN 0 ELSE 1 + f[folder[e]]]
  BY <1>6
<1> DEFINE g == [e \in 1 .. m |-> IF e = m THEN (IF m = Root THEN 0 ELSE 1 + f[folder[m]]) ELSE f[e]]
<1>8. \A e \in 1 .. m : e # Root => folder[e] \in 1 .. m - 1 /\ folder[e] # m /\ (e # m => e \in 1 .. m - 1)
  <2>1. \A e \in 1 .. m : e # Root => e \in Files \ {Root}
    BY <1>3, WalkConstants DEF Files
  <2>2. \A e \in Files \ {Root} : folder[e] \in 1 .. NumFiles /\ folder[e] < e
    BY DEF TreeOK, Files
  <2>3. \A e \in 1 .. m : e # Root => folder[e] \in 1 .. NumFiles /\ folder[e] < e
    BY <2>1, <2>2
  <2> QED BY <1>3, <1>5, <2>3, WalkConstants
<1>9. \A e \in 1 .. m - 1 : f[e] = IF e = Root THEN 0 ELSE 1 + f[folder[e]]
  BY <1>7, Zenon
<1>10. \A e \in 1 .. m : e # m => e \in 1 .. m - 1
  BY <1>3, <1>5
<1>11. \A e \in 1 .. m : g[e] = IF e = Root THEN 0 ELSE 1 + g[folder[e]]
  <2> TAKE e \in 1 .. m
  <2>1. 1 .. m - 1 \subseteq 1 .. m
    BY <1>3, <1>5
  <2>2. e # Root => g[folder[e]] = f[folder[e]]
    BY <1>8, <2>1
  <2>3. CASE e = m
    BY <2>2, <2>3
  <2>4. CASE e # m
    <3>1. g[e] = f[e]
      BY <2>4
    <3>2. e \in 1 .. m - 1
      BY <1>10, <2>4
    <3> HIDE DEF g
    <3> QED BY <1>9, <2>2, <3>1, <3>2
  <2> QED BY <2>3, <2>4
<1>12. g = [e \in 1 .. m |-> g[e]]
  OBVIOUS
<1> HIDE DEF g
<1>13. g = [e \in 1 .. m |-> IF e = Root THEN 0 ELSE 1 + g[folder[e]]]
  BY <1>11, <1>12
<1>14. UpTo(m)
  BY <1>13
<1> QED BY <1>3, <1>14

LEMMA DepthIs ==
    ASSUME TreeOK
    PROVE  /\ Depth[Root] = 0
           /\ \A e \in Files : Depth[e] \in Nat
           /\ \A e \in Files \ {Root} : Depth[e] = 1 + Depth[folder[e]]
<1>1. Depth = [e \in Files |-> IF e = Root THEN 0 ELSE 1 + Depth[folder[e]]]
  BY DepthExists DEF Depth
<1>2. \A e \in Files : Depth[e] = IF e = Root THEN 0 ELSE 1 + Depth[folder[e]]
  BY <1>1, Zenon
<1> HIDE DEF Depth
<1>3. Root \in Files
  BY WalkConstants DEF Files, Root
<1>4. Depth[Root] = 0
  BY <1>2, <1>3
<1> DEFINE Bad == {e \in Files : Depth[e] \notin Nat}
<1>5. Bad = {}
  <2>1. SUFFICES ASSUME Bad # {} PROVE FALSE
    OBVIOUS
  <2>2. Files \subseteq Nat
    BY WalkConstants DEF Files
  <2>3. PICK m \in Bad : \A e \in Bad : m <= e
    <3>1. Bad \in SUBSET Nat
      BY <2>2
    <3> HIDE DEF Bad
    <3> QED BY <2>1, <3>1, LeastPosition
  <2>4. m # Root /\ m \in Files
    BY <1>4, <2>3
  <2>5. folder[m] \in Files /\ folder[m] < m
    BY <2>4 DEF TreeOK
  <2>6. folder[m] \notin Bad
    <3>1. ~(m <= folder[m])
      <4>1. m \in Nat /\ folder[m] \in Nat
        BY <2>2, <2>4, <2>5
      <4> QED BY <2>5, <4>1
    <3> QED BY <2>3, <3>1
  <2>7. Depth[folder[m]] \in Nat
    BY <2>5, <2>6
  <2> QED BY <1>2, <2>3, <2>4, <2>7
<1> QED BY <1>2, <1>4, <1>5

LEMMA DepthStays == ASSUME folder' = folder PROVE Depth' = Depth
BY DEF Depth

\* The tree but for the files that are removed.
LEMMA TreeInit == ASSUME WalkInit PROVE TreeOK
<1>1. /\ Root \in Files /\ alive = Files
      /\ folder \in [Files \ {Root} -> Files] /\ \A e \in Files \ {Root} : folder[e] < e
  BY WalkConstants DEF WalkInit, Files, Root
<1>2. Root \in dirs /\ \A e \in Files \ {Root} : folder[e] \in dirs
  BY DEF WalkInit
<1>3. walk \in {"bfs", "dfs", "find", "sorted", "plain"}
  BY DEF WalkInit
<1>4. walk = "find" => sought \in Files \ {Root}
  BY DEF WalkInit
<1>5. dotted => walk = "bfs"
  BY DEF WalkInit
<1> QED BY <1>1, <1>2, <1>3, <1>4, <1>5 DEF TreeOK

LEMMA StepKeepsTree == ASSUME WalkStep PROVE UNCHANGED <<walk, treeVars>>
BY DEF WalkStep, StartWalk, BfsStep, BfsDone, DfsStep, DfsReturn, FindStep, FindNothing, LsStep, PrintFileList

LEMMA RemoveShrinks ==
    ASSUME TreeOK, RemoveFile
    PROVE  /\ alive' \subseteq alive /\ Root \in alive'
           /\ \A e \in alive' \ {Root} : folder[e] \in alive'
           /\ UNCHANGED <<walk, walkState, folder, dirs, sought, dotted, frames, printed, listed>>
<1>1. PICK d \in alive \ {Root} : Entry(d) = {} /\ alive' = alive \ {d}
  BY DEF RemoveFile
<1>2. ASSUME NEW e \in alive' \ {Root} PROVE folder[e] # d
  BY <1>1, <1>2 DEF TreeOK, Entry, ChildrenOf
<1> QED BY <1>1, <1>2 DEF TreeOK, RemoveFile

LEMMA TreeStep == ASSUME TreeOK, [WalkNext]_walkVars PROVE TreeOK'
<1>1. CASE WalkStep \/ UNCHANGED walkVars
  <2>1. UNCHANGED <<walk, folder, dirs, alive, sought, dotted>>
    BY <1>1, StepKeepsTree DEF walkVars, treeVars
  <2> QED BY <2>1 DEF TreeOK, Files
<1>2. CASE RemoveFile
  <2>1. /\ alive' \subseteq alive /\ Root \in alive'
        /\ \A e \in alive' \ {Root} : folder[e] \in alive'
        /\ walk' = walk /\ folder' = folder /\ dirs' = dirs /\ sought' = sought /\ dotted' = dotted
    BY <1>2, RemoveShrinks
  <2> QED BY <2>1 DEF TreeOK, Files
<1> QED BY <1>1, <1>2 DEF WalkNext

----------------------------------------------------------------------------
(* The lists stay lists of files *)

LEMMA RootTyped == Root \in Files /\ <<Root>> \in Seq(Files) /\ <<>> \in Seq(Files)
BY WalkConstants DEF Files, Root

LEMMA ChildrenTyped ==
    ASSUME TreeOK, NEW d
    PROVE  Entry(d) \subseteq ChildrenOf(d) /\ ChildrenOf(d) \subseteq Files \ {Root}
BY DEF Entry, ChildrenOf

\* The frames and their last one.
LEMMA FrameFacts ==
    ASSUME WalkTypes, frames # <<>>
    PROVE  /\ Len(frames) \in Nat \ {0} /\ Top \in Seq(Files)
           /\ Popped \in Seq(Seq(Files)) /\ Len(Popped) = Len(frames) - 1
           /\ \A i \in 1 .. Len(frames) - 1 : Popped[i] = frames[i]
           /\ \A i \in 1 .. Len(frames) : frames[i] \in Seq(Files)
           /\ Len(frames) = 1 => Queued = Top /\ frames = <<Top>> /\ Popped = <<>>
<1>1. frames \in Seq(Seq(Files))
  BY DEF WalkTypes
<1>2. Len(frames) \in Nat \ {0} /\ \A i \in 1 .. Len(frames) : frames[i] \in Seq(Files)
  BY <1>1
<1>3. Len(frames) \in 1 .. Len(frames)
  BY <1>2
<1>4. /\ Popped \in Seq(Seq(Files)) /\ Len(Popped) = Len(frames) - 1
      /\ \A i \in 1 .. Len(frames) - 1 : Popped[i] = frames[i]
  <2> DEFINE u == SubSeq(frames, 1, Len(frames) - 1)
             T == Seq(Files)
  <2>1. frames \in Seq(T)
    BY <1>1
  <2> HIDE DEF T
  <2>2. u \in Seq(T) /\ Len(u) = Len(frames) - 1 /\ \A i \in 1 .. Len(frames) - 1 : u[i] = frames[i]
    <3>1. PICK k \in Nat : k = Len(frames) - 1
      <4>1. Len(frames) - 1 \in Nat
        BY <1>2
      <4> QED BY <4>1
    <3>2. SubSeq(frames, 1, k) \in Seq(T) /\ Len(SubSeq(frames, 1, k)) = k
      BY <1>2, <2>1, <3>1
    <3>3. \A i \in 1 .. k : SubSeq(frames, 1, k)[i] = frames[i]
      BY <1>2, <2>1, <3>1
    <3> QED BY <3>1, <3>2, <3>3
  <2> QED BY <2>2 DEF Popped, T
<1>5. Len(frames) = 1 => Queued = Top /\ frames = <<Top>> /\ Popped = <<>>
  <2>1. SUFFICES ASSUME Len(frames) = 1 PROVE Queued = Top /\ frames = <<Top>> /\ Popped = <<>>
    OBVIOUS
  <2>2. Queued = Top
    BY <2>1 DEF Queued, Top
  <2>3. frames = <<frames[1]>>
    BY <1>1, <2>1
  <2>4. Popped = <<>>
    BY <1>4, <2>1
  <2> QED BY <2>2, <2>3, <2>4 DEF Queued
<1> QED BY <1>2, <1>3, <1>4, <1>5 DEF Top

LEMMA OneInWork ==
    ASSUME WalkTypes, walk \in {"bfs", "sorted", "plain"}, walkState = "running"
    PROVE  /\ frames = <<Top>> /\ Queued = Top /\ Top \in Seq(Files) /\ frames # <<>>
           /\ Awaited = Named(Top) /\ Len(frames) = 1
<1>1. Len(frames) = 1 /\ frames # <<>>
  <2>1. Len(frames) = 1
    BY DEF WalkTypes
  <2>2. Len(<<>>) = 0
    OBVIOUS
  <2>3. frames # <<>>
    BY <2>1, <2>2
  <2> QED BY <2>1, <2>3
<1>2. frames = <<Top>> /\ Queued = Top /\ Top \in Seq(Files)
  BY <1>1, FrameFacts
<1>3. InFrames(<<Top>>) = Named(Top)
  BY <1>2, OneFrame
<1>4. Awaited = Named(Top)
  BY <1>2, <1>3 DEF Awaited
<1> QED BY <1>1, <1>2, <1>4

\* An entry goes before the first larger one.
LEMMA SortInserted ==
    ASSUME NEW s \in Seq(Files), NEW e \in Files
    PROVE  \E p \in 0 .. Len(s) :
             /\ PutIn(Files, s, SortInsert(s, e), p, e)
             /\ \A i \in 1 .. p : ~(e < s[i])
             /\ p < Len(s) => e < s[p + 1]
<1> DEFINE larger == {i \in DOMAIN s : e < s[i]}
           at == CHOOSE i \in larger : \A j \in larger : i <= j
<1>1. Len(s) \in Nat /\ DOMAIN s = 1 .. Len(s)
  OBVIOUS
<1>2. SortInsert(s, e) = IF larger = {} THEN Append(s, e)
                         ELSE SubSeq(s, 1, at - 1) \o <<e>> \o SubSeq(s, at, Len(s))
  BY DEF SortInsert
<1>3. CASE larger = {}
  <2>1. PutIn(Files, s, Append(s, e), Len(s), e)
    BY SequenceChanges
  <2>2. \A i \in 1 .. Len(s) : ~(e < s[i])
    BY <1>1, <1>3
  <2>3. Len(s) \in 0 .. Len(s) /\ ~(Len(s) < Len(s))
    BY <1>1
  <2> QED BY <1>2, <1>3, <2>1, <2>2, <2>3
<1>4. CASE larger # {}
  <2>1. larger \in SUBSET Nat /\ larger \subseteq 1 .. Len(s)
    BY <1>1
  <2>2. \E i \in larger : \A j \in larger : i <= j
    <3> HIDE DEF larger
    <3> QED BY <1>4, <2>1, LeastPosition
  <2>3. at \in larger /\ \A j \in larger : at <= j
    <3> HIDE DEF larger
    <3> QED BY <2>2
  <2>4. at \in 1 .. Len(s) /\ e < s[at]
    BY <1>1, <2>3
  <2> HIDE DEF at
  <2>5. at - 1 \in 0 .. Len(s) /\ (at - 1) + 1 = at
    BY <1>1, <2>4
  <2>6. \A i \in 1 .. at - 1 : ~(e < s[i])
    <3>1. \A i \in 1 .. at - 1 : i \in 1 .. Len(s) /\ ~(at <= i)
      BY <1>1, <2>4
    <3> QED BY <1>1, <2>3, <3>1
  <2>7. PutIn(Files, s, SubSeq(s, 1, at - 1) \o <<e>> \o SubSeq(s, (at - 1) + 1, Len(s)), at - 1, e)
    BY <2>5, SequenceChanges
  <2> QED BY <1>2, <1>4, <2>4, <2>5, <2>6, <2>7
<1> QED BY <1>3, <1>4

\* So a list in order stays in order, and has the entry.
LEMMA SortKeepsOrder ==
    ASSUME NEW s \in Seq(Files), NEW e \in Files
    PROVE  /\ SortInsert(s, e) \in Seq(Files)
           /\ Named(SortInsert(s, e)) = Named(s) \cup {e}
           /\ Increasing(s) /\ e \notin Named(s) => Increasing(SortInsert(s, e))
<1> DEFINE t == SortInsert(s, e)
<1>1. PICK p \in 0 .. Len(s) :
        /\ PutIn(Files, s, t, p, e)
        /\ \A i \in 1 .. p : ~(e < s[i])
        /\ p < Len(s) => e < s[p + 1]
  BY SortInserted
<1> HIDE DEF t
<1>2. /\ t \in Seq(Files) /\ Len(t) = Len(s) + 1 /\ Len(s) \in Nat
      /\ \A j \in 1 .. Len(t) : t[j] = IF j <= p THEN s[j] ELSE IF j = p + 1 THEN e ELSE s[j - 1]
  BY <1>1 DEF PutIn
<1>3. DOMAIN t = 1 .. Len(s) + 1 /\ DOMAIN s = 1 .. Len(s)
  BY <1>2
<1>4. \A j \in 1 .. Len(s) + 1 :
         \/ j \in 1 .. p /\ j \in 1 .. Len(s) /\ t[j] = s[j]
         \/ j = p + 1 /\ t[j] = e
         \/ j - 1 \in p + 1 .. Len(s) /\ j - 1 \in 1 .. Len(s) /\ t[j] = s[j - 1]
  <2> TAKE j \in 1 .. Len(s) + 1
  <2>1. CASE j <= p
    BY <1>1, <1>2, <2>1
  <2>2. CASE j = p + 1
    BY <1>1, <1>2, <2>2
  <2>3. CASE j > p + 1
    <3>1. j - 1 \in p + 1 .. Len(s) /\ j - 1 \in 1 .. Len(s) /\ ~(j <= p) /\ j # p + 1
      BY <1>1, <1>2, <2>3
    <3> QED BY <1>2, <3>1
  <2> QED BY <1>1, <1>2, <2>1, <2>2, <2>3
<1>5. \A i \in 1 .. Len(s) :
         \/ i \in 1 .. Len(s) + 1 /\ t[i] = s[i]
         \/ i + 1 \in 1 .. Len(s) + 1 /\ t[i + 1] = s[i]
  <2> TAKE i \in 1 .. Len(s)
  <2>1. CASE i <= p
    BY <1>1, <1>2, <2>1
  <2>2. CASE i > p
    <3>1. i + 1 \in 1 .. Len(s) + 1 /\ ~(i + 1 <= p) /\ i + 1 # p + 1 /\ (i + 1) - 1 = i
      BY <1>1, <1>2, <2>2
    <3> QED BY <1>2, <3>1
  <2> QED BY <1>1, <1>2, <2>1, <2>2
<1>6. p + 1 \in 1 .. Len(s) + 1 /\ t[p + 1] = e
  <2>1. p + 1 \in 1 .. Len(s) + 1 /\ ~(p + 1 <= p)
    BY <1>1, <1>2
  <2> QED BY <1>2, <2>1
<1>7. \A x : x \in Named(t) <=> x \in Named(s) \/ x = e
  <2> TAKE x
  <2>1. x \in Named(t) => x \in Named(s) \/ x = e
    BY <1>3, <1>4 DEF Named
  <2>2. x \in Named(s) => x \in Named(t)
    BY <1>3, <1>5 DEF Named
  <2>3. e \in Named(t)
    BY <1>3, <1>6 DEF Named
  <2> QED BY <2>1, <2>2, <2>3
<1>8. Named(t) = Named(s) \cup {e}
  BY <1>7
<1>9. ASSUME Increasing(s), e \notin Named(s) PROVE Increasing(t)
  <2>1. \A i, j \in 1 .. Len(s) : i < j => s[i] < s[j]
    BY <1>3, <1>9 DEF Increasing
  <2>2. /\ \A i \in 1 .. Len(s) : s[i] \in Nat /\ s[i] # e
        /\ e \in Nat
    BY <1>3, <1>9, WalkConstants DEF Named, Files
  <2>3. \A i \in 1 .. p : s[i] < e
    <3>1. \A i \in 1 .. p : i \in 1 .. Len(s) /\ ~(e < s[i])
      BY <1>1, <1>2
    <3> QED BY <2>2, <3>1
  <2>4. \A i \in p + 1 .. Len(s) : e < s[i]
    <3> TAKE i \in p + 1 .. Len(s)
    <3>1. /\ p < Len(s) /\ p + 1 \in 1 .. Len(s) /\ i \in 1 .. Len(s)
          /\ (i = p + 1 \/ p + 1 < i)
      BY <1>1, <1>2
    <3>2. e < s[p + 1]
      BY <1>1, <3>1
    <3>3. CASE i = p + 1
      BY <3>2, <3>3
    <3>4. CASE p + 1 < i
      <4>1. s[p + 1] < s[i]
        BY <2>1, <3>1, <3>4
      <4> QED BY <2>2, <3>1, <3>2, <4>1
    <3> QED BY <3>1, <3>3, <3>4
  <2>5. SUFFICES ASSUME NEW i \in 1 .. Len(s) + 1, NEW j \in 1 .. Len(s) + 1, i < j
                 PROVE  t[i] < t[j]
    BY <1>3 DEF Increasing
  <2>6. CASE i \in 1 .. p /\ i \in 1 .. Len(s) /\ t[i] = s[i]
    <3>1. CASE j \in 1 .. p /\ j \in 1 .. Len(s) /\ t[j] = s[j]
      BY <2>1, <2>5, <2>6, <3>1
    <3>2. CASE j = p + 1 /\ t[j] = e
      BY <2>3, <2>6, <3>2
    <3>3. CASE j - 1 \in p + 1 .. Len(s) /\ j - 1 \in 1 .. Len(s) /\ t[j] = s[j - 1]
      <4>1. i < j - 1
        BY <1>1, <1>2, <2>6, <3>3
      <4> QED BY <2>1, <2>6, <3>3, <4>1
    <3> QED BY <1>4, <3>1, <3>2, <3>3
  <2>7. CASE i = p + 1 /\ t[i] = e
    <3>1. j - 1 \in p + 1 .. Len(s) /\ t[j] = s[j - 1]
      <4>1. ~(j \in 1 .. p) /\ j # p + 1
        BY <1>1, <2>5, <2>7
      <4> QED BY <1>4, <4>1
    <3> QED BY <2>4, <2>7, <3>1
  <2>8. CASE i - 1 \in p + 1 .. Len(s) /\ i - 1 \in 1 .. Len(s) /\ t[i] = s[i - 1]
    <3>1. j - 1 \in 1 .. Len(s) /\ t[j] = s[j - 1]
      <4>1. ~(j \in 1 .. p) /\ j # p + 1
        BY <1>1, <1>2, <2>5, <2>8
      <4> QED BY <1>4, <4>1
    <3>2. i - 1 < j - 1
      BY <1>2, <2>5
    <3> QED BY <2>1, <2>8, <3>1, <3>2
  <2> QED BY <1>4, <2>6, <2>7, <2>8
<1> QED BY <1>2, <1>8, <1>9 DEF t

LEMMA IncreasingOnce == ASSUME NEW s \in Seq(Files), Increasing(s) PROVE Once(s)
<1>1. DOMAIN s = 1 .. Len(s) /\ Len(s) \in Nat /\ \A i \in 1 .. Len(s) : s[i] \in Nat
  BY WalkConstants DEF Files
<1>2. \A i, j \in 1 .. Len(s) : i < j => s[i] # s[j]
  BY <1>1 DEF Increasing
<1>3. \A i, j \in 1 .. Len(s) : i = j \/ i < j \/ j < i
  BY <1>1
<1> QED BY <1>1, <1>2, <1>3 DEF Once

LEMMA OneFrameTyped ==
    ASSUME NEW s \in Seq(Files)
    PROVE  <<s>> \in Seq(Seq(Files)) /\ Len(<<s>>) = 1 /\ <<s>>[1] = s
OBVIOUS

LEMMA FrameAppended ==
    ASSUME NEW fs \in Seq(Seq(Files)), NEW s \in Seq(Files)
    PROVE  /\ Append(fs, s) \in Seq(Seq(Files)) /\ Append(fs, s) # <<>>
           /\ Len(Append(fs, s)) = Len(fs) + 1 /\ Append(fs, s)[Len(fs) + 1] = s
           /\ \A i \in 1 .. Len(fs) : Append(fs, s)[i] = fs[i]
<1> DEFINE T == Seq(Files)
<1>1. fs \in Seq(T) /\ s \in T
  OBVIOUS
<1> HIDE DEF T
<1>2. /\ Append(fs, s) \in Seq(T)
      /\ Len(Append(fs, s)) = Len(fs) + 1 /\ Append(fs, s)[Len(fs) + 1] = s
      /\ \A i \in 1 .. Len(fs) : Append(fs, s)[i] = fs[i]
  BY <1>1
<1>3. Append(fs, s) # <<>>
  BY <1>1
<1> QED BY <1>2, <1>3 DEF T

LEMMA TypesInit == ASSUME WalkInit PROVE WalkTypes
<1>1. walkState = "start" /\ frames = <<>> /\ printed = <<>> /\ listed = <<>>
  BY DEF WalkInit
<1>2. <<>> \in Seq(Seq(Files)) /\ <<>> \in Seq(Files)
  OBVIOUS
<1> QED BY <1>1, <1>2 DEF WalkTypes

LEMMA StartTypes == ASSUME TreeOK, WalkTypes, StartWalk PROVE WalkTypes'
<1>1. PICK s \in Seq(Files) : frames' = <<s>>
  <2>1. CASE walk = "bfs"
    BY <2>1, RootTyped DEF StartWalk
  <2>2. CASE walk # "bfs"
    BY <2>2, ListingsList DEF StartWalk
  <2> QED BY <2>1, <2>2
<1>2. frames' \in Seq(Seq(Files)) /\ Len(frames') = 1
  BY <1>1, OneFrameTyped
<1>3. frames' # <<>>
  BY <1>1
<1>4. walkState' = "running" /\ printed' = printed /\ listed' = listed
  BY DEF StartWalk
<1> QED BY <1>2, <1>3, <1>4 DEF WalkTypes, Files

\* A step of bfs, opened.
BfsVisits(e, s) ==
    /\ Queued # <<>> /\ e = Head(Queued) /\ printed' = Append(printed, e)
    /\ \/ /\ e \in dirs \cap alive /\ ~(dotted /\ e = Root)
          /\ s \in Listings(e) /\ frames' = <<Tail(Queued) \o s>> /\ walkState' = "running"
       \/ /\ e \notin dirs \/ (dotted /\ e = Root)
          /\ frames' = <<Tail(Queued)>> /\ walkState' = "running"
       \/ e \in dirs \ alive /\ frames' = <<>> /\ walkState' = "failed"

LEMMA BfsOpened ==
    ASSUME BfsStep
    PROVE  /\ walk = "bfs" /\ walkState = "running" /\ UNCHANGED <<walk, treeVars, listed>>
           /\ \E e, s : BfsVisits(e, s)
BY DEF BfsStep, Runs, BfsVisits

LEMMA BfsTypes == ASSUME TreeOK, WalkTypes, BfsStep PROVE WalkTypes'
<1>1. PICK e, s : BfsVisits(e, s)
  BY BfsOpened
<1>2. walk = "bfs" /\ walkState = "running" /\ UNCHANGED <<walk, treeVars, listed>>
  BY BfsOpened
<1>3. Queued \in Seq(Files) /\ Queued # <<>>
  BY <1>1, <1>2, OneInWork DEF BfsVisits
<1>4. e \in Files /\ Tail(Queued) \in Seq(Files)
  BY <1>1, <1>3, Shortened DEF BfsVisits
<1>5. printed' \in Seq(Files)
  BY <1>1, <1>4, Appended DEF WalkTypes, BfsVisits
<1>6. \/ frames' = <<>> /\ walkState' = "failed"
      \/ walkState' = "running" /\ \E t \in Seq(Files) : frames' = <<t>>
  <2>1. s \in Listings(e) => Tail(Queued) \o s \in Seq(Files)
    BY <1>4, ListingsList, JoinedLists
  <2> QED BY <1>1, <1>4, <2>1 DEF BfsVisits
<1>7. /\ frames' \in Seq(Seq(Files)) /\ walkState' \in {"running", "failed"}
      /\ walkState' = "running" => Len(frames') = 1
  <2>1. <<>> \in Seq(Seq(Files))
    OBVIOUS
  <2> QED BY <1>6, <2>1, OneFrameTyped
<1>8. listed' \in Seq(Files) /\ walk' = "bfs"
  BY <1>2 DEF WalkTypes
<1> QED BY <1>5, <1>7, <1>8 DEF WalkTypes, Files

\* A step of dfs, opened.
DfsVisits(e, s) ==
    /\ frames # <<>> /\ Top # <<>> /\ e = Head(Top) /\ printed' = Append(printed, e)
    /\ \/ /\ e \in dirs \cap alive /\ s \in Listings(e)
          /\ frames' = Append(Append(Popped, Tail(Top)), s)
       \/ e \notin dirs \cap alive /\ frames' = Append(Popped, Tail(Top))

LEMMA DfsOpened ==
    ASSUME DfsStep
    PROVE  /\ walk = "dfs" /\ walkState = "running"
           /\ UNCHANGED <<walk, walkState, treeVars, listed>>
           /\ \E e, s : DfsVisits(e, s)
BY DEF DfsStep, Runs, DfsVisits

LEMMA DfsTypes == ASSUME TreeOK, WalkTypes, DfsStep PROVE WalkTypes'
<1>1. PICK e, s : DfsVisits(e, s)
  BY DfsOpened
<1>2. walk = "dfs" /\ walkState = "running" /\ UNCHANGED <<walk, walkState, treeVars, listed>>
  BY DfsOpened
<1>3. Top \in Seq(Files) /\ Top # <<>> /\ Popped \in Seq(Seq(Files))
  BY <1>1, FrameFacts DEF DfsVisits
<1>4. e \in Files /\ Tail(Top) \in Seq(Files)
  BY <1>1, <1>3, Shortened DEF DfsVisits
<1>5. printed' \in Seq(Files)
  BY <1>1, <1>4, Appended DEF WalkTypes, DfsVisits
<1>6. Append(Popped, Tail(Top)) \in Seq(Seq(Files))
  BY <1>3, <1>4, FrameAppended
<1>7. frames' \in Seq(Seq(Files))
  <2>1. s \in Listings(e) => Append(Append(Popped, Tail(Top)), s) \in Seq(Seq(Files))
    BY <1>6, ListingsList, FrameAppended
  <2> QED BY <1>1, <1>6, <2>1 DEF DfsVisits
<1>8. listed' \in Seq(Files) /\ walk' = "dfs" /\ walkState' = "running"
  BY <1>2 DEF WalkTypes
<1> QED BY <1>5, <1>7, <1>8 DEF WalkTypes, Files

LEMMA ReturnTypes == ASSUME TreeOK, WalkTypes, DfsReturn PROVE WalkTypes'
<1>1. /\ walk' = "dfs" /\ walkState' \in {"done", "running"} /\ frames' = Popped /\ frames # <<>>
      /\ printed' = printed /\ listed' = listed
  BY DEF DfsReturn, Runs
<1>2. frames' \in Seq(Seq(Files))
  BY <1>1, FrameFacts
<1> QED BY <1>1, <1>2 DEF WalkTypes, Files

LEMMA FindTypes == ASSUME TreeOK, WalkTypes, FindStep PROVE WalkTypes'
<1>1. /\ walk' = "find" /\ walkState' \in {"running", "found", "silent"} /\ listed' = listed
      /\ frames # <<>>
  BY DEF FindStep, Runs, WalkTypes
<1>2. Top \in Seq(Files) /\ Popped \in Seq(Seq(Files)) /\ frames \in Seq(Seq(Files)) /\ Top # <<>>
  BY <1>1, FrameFacts DEF WalkTypes, FindStep
<1>3. Tail(Top) \in Seq(Files)
  BY <1>2, Shortened
<1>4. /\ Append(Popped, Tail(Top)) \in Seq(Seq(Files)) /\ Append(Popped, Tail(Top)) # <<>>
      /\ \A d : \A s \in Listings(d) : Append(frames, s) \in Seq(Seq(Files)) /\ Append(frames, s) # <<>>
  BY <1>2, <1>3, FrameAppended, ListingsList
<1>5. frames' \in Seq(Seq(Files)) /\ frames' # <<>>
  BY <1>1, <1>2, <1>4 DEF FindStep
<1>6. printed' \in Seq(Files)
  <2>1. CASE printed' = printed
    BY <2>1 DEF WalkTypes
  <2>2. CASE printed' = <<folder[sought]>>
    <3>1. walk = "find"
      BY DEF FindStep, Runs
    <3>2. folder[sought] \in Files
      BY <3>1 DEF TreeOK
    <3> QED BY <2>2, <3>2
  <2>3. \/ Head(Top) = sought /\ printed' = <<folder[Head(Top)]>>
        \/ printed' = printed
    BY DEF FindStep
  <2> QED BY <2>1, <2>2, <2>3
<1> QED BY <1>1, <1>5, <1>6 DEF WalkTypes, Files

LEMMA LsTypes == ASSUME TreeOK, WalkTypes, LsStep PROVE WalkTypes'
<1>1. /\ walk \in {"sorted", "plain"} /\ walkState = "running" /\ walk' = walk /\ Top # <<>>
  BY DEF LsStep, Runs
<1>2. Top \in Seq(Files) /\ Len(frames) = 1
  BY <1>1, OneInWork
<1>3. Head(Top) \in Files /\ Tail(Top) \in Seq(Files)
  BY <1>1, <1>2, Shortened
<1>4. /\ SortInsert(listed, Head(Top)) \in Seq(Files) /\ Append(printed, Head(Top)) \in Seq(Files)
      /\ <<>> \in Seq(Files) /\ <<>> \in Seq(Seq(Files))
  <2>1. listed \in Seq(Files) /\ printed \in Seq(Files)
    BY DEF WalkTypes
  <2>2. SortInsert(listed, Head(Top)) \in Seq(Files)
    BY <1>3, <2>1, SortKeepsOrder
  <2>3. Append(printed, Head(Top)) \in Seq(Files)
    BY <1>3, <2>1, Appended
  <2>4. <<>> \in Seq(Files) /\ <<>> \in Seq(Seq(Files))
    OBVIOUS
  <2> QED BY <2>2, <2>3, <2>4
<1>5. <<Tail(Top)>> \in Seq(Seq(Files)) /\ Len(<<Tail(Top)>>) = 1
  BY <1>3, OneFrameTyped
<1>6. listed' \in Seq(Files) /\ printed' \in Seq(Files)
  BY <1>4 DEF LsStep, WalkTypes
<1>7. /\ frames' \in Seq(Seq(Files)) /\ walkState' \in {"running", "failed"}
      /\ walkState' = "running" => Len(frames') = 1
  BY <1>1, <1>4, <1>5 DEF LsStep
<1> QED BY <1>1, <1>6, <1>7 DEF WalkTypes, Files

LEMMA PrintTypes == ASSUME WalkTypes, PrintFileList PROVE WalkTypes'
<1>1. /\ walkState' = "done" /\ frames' = frames /\ listed' = <<>> /\ walk' # "find"
      /\ printed' = listed \/ printed' = printed
  BY DEF PrintFileList, Runs
<1>2. <<>> \in Seq(Files)
  OBVIOUS
<1> QED BY <1>1, <1>2 DEF WalkTypes, Files

LEMMA TypesStep == ASSUME TreeOK, WalkTypes, [WalkNext]_walkVars PROVE WalkTypes'
<1>1. CASE BfsDone \/ FindNothing
  <2>1. /\ frames' = frames /\ printed' = printed /\ listed' = listed
        /\ \/ walkState' = "done" /\ walk' = "bfs"
           \/ walkState' = "missing" /\ walk' = "find"
    BY <1>1 DEF BfsDone, FindNothing, Runs
  <2> QED BY <2>1 DEF WalkTypes, Files
<1>2. CASE RemoveFile
  BY <1>2 DEF RemoveFile, WalkTypes, Files
<1>3. CASE UNCHANGED walkVars
  BY <1>3 DEF walkVars, WalkTypes, Files
<1> QED BY <1>1, <1>2, <1>3, StartTypes, BfsTypes, DfsTypes, ReturnTypes, FindTypes, LsTypes, PrintTypes
        DEF WalkNext, WalkStep

----------------------------------------------------------------------------
(* bfs and dfs: what is printed and what waits *)

\* The entries of a directory that waits are new.
LEMMA NewNames ==
    ASSUME TreeOK, WalkTypes, Reached, NEW e \in Awaited, NEW x \in ChildrenOf(e)
    PROVE  x \notin Awaited /\ x \notin Named(printed) /\ x # e
<1>1. x \in Files \ {Root} /\ folder[x] = e
  BY DEF ChildrenOf
<1>2. e \notin Named(printed) /\ (e = Root => walk = "bfs")
  BY DEF Reached
<1>3. x # e
  <2>1. folder[x] < x /\ folder[x] \in Nat /\ x \in Nat
    BY <1>1, WalkConstants DEF TreeOK, Files
  <2> QED BY <1>1, <2>1
<1>4. e \notin Known
  BY <1>2 DEF Known
<1>5. x \notin Awaited
  BY <1>1, <1>4 DEF Reached
<1>6. x \notin Named(printed)
  <2>1. SUFFICES ASSUME NEW i \in DOMAIN printed, printed[i] = x PROVE FALSE
    BY DEF Named
  <2>2. ~(walk = "dfs" /\ folder[x] = Root)
    BY <1>1, <1>2
  <2>3. PICK j \in 1 .. i - 1 : printed[j] = e
    BY <1>1, <2>1, <2>2 DEF Reached
  <2>4. j \in DOMAIN printed
    BY <2>1, <2>3 DEF WalkTypes
  <2> QED BY <1>2, <2>3, <2>4 DEF Named
<1> QED BY <1>3, <1>5, <1>6

\* A waiting name is printed and its entries wait.
LEMMA VisitReached ==
    ASSUME TreeOK, WalkTypes, Reached, walkState = "running", NEW e \in Awaited, e \in Files,
           NEW new \in SUBSET ChildrenOf(e),
           printed' = Append(printed, e),
           Awaited' \subseteq (Awaited \ {e}) \cup new,
           walkState' \in {"running", "failed"},
           walkState' = "running" => (Awaited \ {e}) \cup new \subseteq Awaited',
           ~dotted => Entry(e) \subseteq new,
           UNCHANGED <<walk, treeVars>>
    PROVE  Reached'
<1>1. /\ printed \in Seq(Files) /\ Len(printed) \in Nat /\ DOMAIN printed = 1 .. Len(printed)
      /\ Len(printed') = Len(printed) + 1 /\ DOMAIN printed' = 1 .. Len(printed) + 1
      /\ \A i \in 1 .. Len(printed) : printed'[i] = printed[i]
      /\ printed'[Len(printed) + 1] = e
      /\ Named(printed') = Named(printed) \cup {e}
  <2>1. printed \in Seq(Files)
    BY DEF WalkTypes
  <2>2. /\ printed' \in Seq(Files) /\ Len(printed') = Len(printed) + 1
        /\ \A i \in 1 .. Len(printed) : printed'[i] = printed[i]
        /\ printed'[Len(printed) + 1] = e
        /\ Named(printed') = Named(printed) \cup {e}
    BY <2>1, Appended
  <2> QED BY <2>1, <2>2
<1>2. \A i \in 1 .. Len(printed) + 1 : i \in 1 .. Len(printed) \/ i = Len(printed) + 1
  BY <1>1
<1>3. walk' = walk /\ folder' = folder /\ dirs' = dirs /\ alive' = alive /\ dotted' = dotted
  BY DEF treeVars
<1>4. e \notin Named(printed) /\ (e # Root => folder[e] \in Known) /\ (e = Root => walk = "bfs")
  BY DEF Reached
<1>5. Known' = Known \cup {e}
  BY <1>1, <1>3 DEF Known, Root
<1>6. Once(printed')
  <2>1. \A i, j \in 1 .. Len(printed) : printed[i] = printed[j] => i = j
    BY <1>1 DEF Reached, Once
  <2>2. \A i \in 1 .. Len(printed) : printed[i] # e
    BY <1>1, <1>4 DEF Named
  <2>3. \A i, j \in 1 .. Len(printed) + 1 : printed'[i] = printed'[j] => i = j
    BY <1>1, <1>2, <2>1, <2>2
  <2> QED BY <1>1, <2>3 DEF Once
<1>7. \A i \in DOMAIN printed' :
         printed'[i] # Root /\ ~(walk = "dfs" /\ folder[printed'[i]] = Root) =>
           \E j \in 1 .. i - 1 : printed'[j] = folder[printed'[i]]
  <2>1. SUFFICES ASSUME NEW i \in DOMAIN printed', printed'[i] # Root,
                        ~(walk = "dfs" /\ folder[printed'[i]] = Root)
                 PROVE  \E j \in 1 .. i - 1 : printed'[j] = folder[printed'[i]]
    OBVIOUS
  <2>2. CASE i \in 1 .. Len(printed)
    <3>1. printed'[i] = printed[i] /\ i \in DOMAIN printed
      BY <1>1, <2>2
    <3>2. PICK j \in 1 .. i - 1 : printed[j] = folder[printed[i]]
      BY <2>1, <3>1 DEF Reached
    <3>3. j \in 1 .. Len(printed)
      BY <1>1, <2>2, <3>2
    <3> QED BY <1>1, <3>1, <3>2, <3>3
  <2>3. CASE i = Len(printed) + 1
    <3>1. printed'[i] = e
      BY <1>1, <2>3
    <3>2. folder[e] \in Known /\ ~(walk = "dfs" /\ folder[e] = Root)
      BY <1>4, <2>1, <3>1
    <3>3. folder[e] \in Named(printed)
      BY <3>2 DEF Known
    <3>4. PICK j \in 1 .. Len(printed) : printed[j] = folder[e]
      BY <1>1, <3>3 DEF Named
    <3>5. j \in 1 .. i - 1
      BY <1>1, <2>3, <3>4
    <3> QED BY <1>1, <3>1, <3>4, <3>5
  <2> QED BY <1>1, <1>2, <2>2, <2>3
<1>8. \A x \in Awaited' : /\ x \notin Named(printed')
                          /\ x # Root => folder[x] \in Known'
                          /\ x = Root => walk = "bfs"
  <2> TAKE x \in Awaited'
  <2>1. CASE x \in Awaited \ {e}
    BY <1>1, <1>5, <2>1 DEF Reached
  <2>2. CASE x \in new
    <3>1. x \in ChildrenOf(e)
      BY <2>2
    <3>2. x \notin Named(printed) /\ x # e
      BY <3>1, NewNames
    <3>3. x # Root /\ folder[x] = e
      BY <3>1 DEF ChildrenOf
    <3> QED BY <1>1, <1>5, <3>2, <3>3
  <2> QED BY <2>1, <2>2
<1>9. ASSUME walkState' = "running", ~dotted
      PROVE  /\ \A x \in alive \ {Root} : folder[x] \in Known' => x \in Named(printed') \cup Awaited'
             /\ walk = "bfs" => Root \in Named(printed') \cup Awaited'
  <2>1. /\ \A x \in alive \ {Root} : folder[x] \in Known => x \in Named(printed) \cup Awaited
        /\ walk = "bfs" => Root \in Named(printed) \cup Awaited
    BY <1>9 DEF Reached
  <2>2. Named(printed) \cup Awaited \subseteq Named(printed') \cup Awaited'
    BY <1>1, <1>9
  <2>3. ASSUME NEW x \in alive \ {Root}, folder[x] = e PROVE x \in Awaited'
    <3>1. x \in Entry(e)
      BY <2>3 DEF TreeOK, Entry, ChildrenOf
    <3> QED BY <1>9, <3>1
  <2> QED BY <1>5, <2>1, <2>2, <2>3
<1>10. walkState' # "done"
  OBVIOUS
<1> QED BY <1>3, <1>6, <1>7, <1>8, <1>9, <1>10 DEF Reached, Root

\* What does not print or wait leaves them.
LEMMA ReachedStays ==
    ASSUME Reached, UNCHANGED <<walk, folder, dotted, printed>>, Root' = Root,
           alive' \subseteq alive, Awaited' = Awaited,
           walkState' \in {"running", "done"} => walkState \in {"running", "done"},
           walkState' = "done" => Awaited = {}
    PROVE  Reached'
<1>1. Named(printed') = Named(printed) /\ Known' = Known /\ (Once(printed') <=> Once(printed))
  BY DEF Known
<1> QED BY <1>1 DEF Reached

\* A walk that is over has printed every file that is still there: the first that it
\* misses would be in a directory that it does not.
LEMMA AllReached ==
    ASSUME TreeOK, Reached, walkState = "done", ~dotted, walk \in {"bfs", "dfs"}
    PROVE  /\ alive \ {Root} \subseteq Named(printed)
           /\ walk = "bfs" => Root \in Named(printed)
<1>1. /\ \A x \in alive \ {Root} : folder[x] \in Known => x \in Named(printed)
      /\ walk = "bfs" => Root \in Named(printed)
  BY DEF Reached
<1>2. Root \in Known
  BY <1>1 DEF Known
<1> DEFINE Bad == {x \in alive \ {Root} : x \notin Named(printed)}
<1>3. SUFFICES ASSUME Bad # {} PROVE FALSE
  BY <1>1
<1>4. \A x \in alive : x \in Nat
  BY WalkConstants DEF TreeOK, Files
<1>5. PICK m \in Bad : \A x \in Bad : m <= x
  <2>1. Bad \in SUBSET Nat
    BY <1>4
  <2> HIDE DEF Bad
  <2> QED BY <1>3, <2>1, LeastPosition
<1>6. m \in alive \ {Root} /\ m \notin Named(printed)
  BY <1>5
<1>7. folder[m] \in alive /\ folder[m] < m
  BY <1>6 DEF TreeOK
<1>8. folder[m] \notin Bad
  <2>1. m \in Nat /\ folder[m] \in Nat
    BY <1>4, <1>6, <1>7
  <2>2. ~(m <= folder[m])
    BY <1>7, <2>1
  <2> QED BY <1>5, <2>2
<1>9. folder[m] \in Known
  BY <1>2, <1>7, <1>8 DEF Known
<1> QED BY <1>1, <1>6, <1>9

----------------------------------------------------------------------------
(* bfs *)

\* What a step does: t are the entries that it puts into the queue.
Enqueues(e, t) ==
    /\ Queued # <<>> /\ e = Head(Queued) /\ printed' = Append(printed, e)
    /\ t \in Seq(Files) /\ Once(t) /\ Named(t) \subseteq ChildrenOf(e)
    /\ dotted => t = <<>> /\ e = Root /\ walkState' = "running"
    /\ ~dotted => Entry(e) \subseteq Named(t)
    /\ \/ frames' = <<Tail(Queued) \o t>> /\ walkState' = "running"
       \/ frames' = <<>> /\ walkState' = "failed"

LEMMA BfsEnqueues ==
    ASSUME TreeOK, WalkTypes, LevelOK, BfsStep
    PROVE  \E e, t : Enqueues(e, t)
<1>1. PICK e, s : BfsVisits(e, s)
  BY BfsOpened
<1>2. walk = "bfs" /\ walkState = "running"
  BY BfsOpened
<1>3. Queued \in Seq(Files) /\ Queued # <<>> /\ e = Head(Queued) /\ printed' = Append(printed, e)
  BY <1>1, <1>2, OneInWork DEF BfsVisits
<1>4. Tail(Queued) \in Seq(Files)
  BY <1>3, Shortened
<1>5. dotted => e = Root
  <2>1. SUFFICES ASSUME dotted PROVE e = Root
    OBVIOUS
  <2>2. Queued = <<Root>>
    BY <1>2, <1>3, <2>1 DEF LevelOK
  <2> QED BY <1>3, <2>2
<1>6. Named(<<>>) = {} /\ Once(<<>>) /\ <<>> \in Seq(Files)
  BY DEF Named, Once
<1>7. CASE /\ e \in dirs \cap alive /\ ~(dotted /\ e = Root)
           /\ s \in Listings(e) /\ frames' = <<Tail(Queued) \o s>> /\ walkState' = "running"
  <2>1. s \in Seq(Files) /\ Named(s) = Entry(e) /\ Once(s)
    BY <1>7, ListingsList
  <2>2. Entry(e) \subseteq ChildrenOf(e)
    BY DEF Entry
  <2>3. Enqueues(e, s)
    BY <1>3, <1>5, <1>7, <2>1, <2>2 DEF Enqueues
  <2> QED BY <2>3
<1>8. CASE /\ e \notin dirs \/ (dotted /\ e = Root)
           /\ frames' = <<Tail(Queued)>> /\ walkState' = "running"
  <2>1. ~dotted => Entry(e) = {}
    BY <1>8 DEF TreeOK, Entry, ChildrenOf
  <2>2. Tail(Queued) \o <<>> = Tail(Queued)
    BY <1>4
  <2>3. Enqueues(e, <<>>)
    BY <1>3, <1>5, <1>6, <1>8, <2>1, <2>2 DEF Enqueues
  <2> QED BY <2>3
<1>9. CASE e \in dirs \ alive /\ frames' = <<>> /\ walkState' = "failed"
  <2>1. Entry(e) = {}
    BY <1>9 DEF TreeOK, Entry, ChildrenOf
  <2>2. ~dotted
    BY <1>5, <1>9 DEF TreeOK
  <2>3. Enqueues(e, <<>>)
    BY <1>3, <1>6, <1>9, <2>1, <2>2 DEF Enqueues
  <2> QED BY <2>3
<1> QED BY <1>1, <1>7, <1>8, <1>9 DEF BfsVisits

LEMMA BfsKeeps ==
    ASSUME TreeOK, WalkTypes, Reached, LevelOK, BfsStep
    PROVE  Reached' /\ LevelOK'
<1> DEFINE q == Queued
<1>1. /\ walk = "bfs" /\ walkState = "running" /\ UNCHANGED <<walk, treeVars>>
      /\ walk' = "bfs" /\ folder' = folder /\ dotted' = dotted
  BY BfsOpened DEF treeVars
<1>2. PICK e, t : Enqueues(e, t)
  BY BfsEnqueues
<1>3. q \in Seq(Files) /\ q # <<>> /\ Awaited = Named(q)
  BY <1>1, <1>2, OneInWork DEF Enqueues
<1>4. Once(q)
  BY <1>1 DEF LevelOK
<1> HIDE DEF q
<1>5. e = Head(q) /\ printed' = Append(printed, e)
  BY <1>2 DEF Enqueues, q
<1>6. /\ e = q[1] /\ e \in Files /\ e \in Awaited
      /\ Tail(q) \in Seq(Files) /\ Len(q) \in Nat \ {0} /\ Len(Tail(q)) = Len(q) - 1
      /\ \A i \in 1 .. Len(q) - 1 : Tail(q)[i] = q[i + 1]
      /\ Once(Tail(q)) /\ Named(Tail(q)) = Awaited \ {e}
  BY <1>3, <1>4, <1>5, Shortened
<1>7. t \in Seq(Files) /\ Once(t) /\ Named(t) \subseteq ChildrenOf(e) /\ (~dotted => Entry(e) \subseteq Named(t))
  BY <1>2 DEF Enqueues
<1> DEFINE u == Tail(q)
           w == u \o t
<1>8. /\ w \in Seq(Files) /\ Len(w) = Len(u) + Len(t)
      /\ \A i \in 1 .. Len(u) : w[i] = u[i]
      /\ \A i \in 1 .. Len(t) : w[Len(u) + i] = t[i]
      /\ Named(w) = (Awaited \ {e}) \cup Named(t)
      /\ Once(w)
  <2>1. Named(u) \cap Named(t) = {}
    BY <1>6, <1>7, NewNames
  <2>2. u \in Seq(Files) /\ Once(u) /\ Named(u) = Awaited \ {e} /\ t \in Seq(Files) /\ Once(t)
    BY <1>6, <1>7
  <2> HIDE DEF u
  <2> QED BY <2>1, <2>2, JoinedLists
<1>9. \/ frames' = <<w>> /\ walkState' = "running"
      \/ frames' = <<>> /\ walkState' = "failed"
  BY <1>2 DEF Enqueues, q
<1>10. walkState' = "running" => Awaited' = (Awaited \ {e}) \cup Named(t)
  <2>1. InFrames(<<w>>) = Named(w)
    BY <1>8, OneFrame
  <2>2. walkState' = "running" => frames' = <<w>>
    BY <1>9
  <2>3. walkState' = "running" => Awaited' = Named(w)
    BY <2>1, <2>2 DEF Awaited
  <2> QED BY <1>8, <2>3
<1>11. walkState' # "running" => Awaited' = {}
  <2>1. InFrames(<<>>) = {}
    BY DEF InFrames
  <2>2. walkState' # "running" => frames' = <<>>
    BY <1>9
  <2> QED BY <2>1, <2>2 DEF Awaited
<1>12. Reached'
  <2>1. walkState' \in {"running", "failed"}
    BY <1>9
  <2>2. Awaited' \subseteq (Awaited \ {e}) \cup Named(t)
    BY <1>10, <1>11
  <2>3. walkState' = "running" => (Awaited \ {e}) \cup Named(t) \subseteq Awaited'
    BY <1>10
  <2> QED BY <1>1, <1>5, <1>6, <1>7, <2>1, <2>2, <2>3, VisitReached
<1> HIDE DEF w
<1>13. Depth' = Depth
  BY <1>1, DepthStays
<1>14. \A x \in Files : Depth[x] \in Nat
  BY DepthIs
<1>15. /\ printed \in Seq(Files) /\ Len(printed) \in Nat /\ DOMAIN printed = 1 .. Len(printed)
       /\ DOMAIN printed' = 1 .. Len(printed) + 1
       /\ \A i \in 1 .. Len(printed) : printed[i] \in Files /\ printed'[i] = printed[i]
       /\ printed'[Len(printed) + 1] = e
  <2>1. printed \in Seq(Files)
    BY DEF WalkTypes
  <2>2. /\ printed' \in Seq(Files) /\ Len(printed') = Len(printed) + 1
        /\ \A i \in 1 .. Len(printed) : printed'[i] = printed[i]
        /\ printed'[Len(printed) + 1] = e
    BY <1>5, <1>6, <2>1, Appended
  <2> QED BY <2>1, <2>2
<1>16. \A i \in 1 .. Len(printed) + 1 : i \in 1 .. Len(printed) \/ i = Len(printed) + 1
  BY <1>15
<1>17. DOMAIN q = 1 .. Len(q) /\ 1 \in 1 .. Len(q) /\ \A i \in 1 .. Len(q) : q[i] \in Files
  BY <1>3, <1>6
<1>18. \A i \in 1 .. Len(printed) : Depth[printed[i]] <= Depth[e]
  BY <1>1, <1>6, <1>15, <1>17 DEF LevelOK, q
<1>19. \A i, j \in 1 .. Len(printed) : i < j => Depth[printed[i]] <= Depth[printed[j]]
  BY <1>15 DEF LevelOK
<1>20. \A i, j \in 1 .. Len(printed) + 1 : i < j => Depth[printed'[i]] <= Depth[printed'[j]]
  <2> TAKE i, j \in 1 .. Len(printed) + 1
  <2>1. HAVE i < j
  <2>2. i \in 1 .. Len(printed) /\ printed'[i] = printed[i]
    BY <1>15, <2>1
  <2>3. CASE j \in 1 .. Len(printed)
    BY <1>15, <1>19, <2>1, <2>2, <2>3
  <2>4. CASE j = Len(printed) + 1
    BY <1>15, <1>18, <2>2, <2>4
  <2> QED BY <1>16, <2>3, <2>4
<1>21. \A i \in 1 .. Len(printed) + 1 : Depth[printed'[i]] \in Nat /\ Depth[printed'[i]] <= Depth[e]
  <2> TAKE i \in 1 .. Len(printed) + 1
  <2>1. CASE i \in 1 .. Len(printed)
    BY <1>14, <1>15, <1>18, <2>1
  <2>2. CASE i = Len(printed) + 1
    <3>1. Depth[e] \in Nat
      BY <1>6, <1>14
    <3> QED BY <1>15, <2>2, <3>1
  <2> QED BY <1>16, <2>1, <2>2
<1>22. \A i \in 1 .. Len(q) : Depth[e] <= Depth[q[i]] /\ Depth[q[i]] <= Depth[e] + 1
  <2> TAKE i \in 1 .. Len(q)
  <2>1. Depth[q[i]] <= Depth[e] + 1
    BY <1>1, <1>6, <1>17 DEF LevelOK, q
  <2>2. CASE i = 1
    <3>1. Depth[e] \in Nat
      BY <1>6, <1>14
    <3> QED BY <1>6, <2>1, <2>2, <3>1
  <2>3. CASE i # 1
    <3>1. 1 < i
      BY <1>6, <2>3
    <3>2. Depth[q[1]] <= Depth[q[i]]
      BY <1>1, <1>17, <3>1 DEF LevelOK, q
    <3> QED BY <1>6, <2>1, <3>2
  <2> QED BY <2>2, <2>3
<1>23. \A i \in 1 .. Len(t) : Depth[t[i]] = Depth[e] + 1
  <2> TAKE i \in 1 .. Len(t)
  <2>1. t[i] \in Named(t)
    BY <1>7 DEF Named
  <2>2. t[i] \in Files \ {Root} /\ folder[t[i]] = e
    BY <1>7, <2>1 DEF ChildrenOf
  <2>3. Depth[t[i]] = 1 + Depth[e] /\ Depth[e] \in Nat
    BY <1>6, <1>14, <2>2, DepthIs
  <2> QED BY <2>3
<1>24. \A i \in 1 .. Len(w) :
         \/ i + 1 \in 1 .. Len(q) /\ w[i] = q[i + 1]
         \/ i >= Len(q) /\ Depth[w[i]] = Depth[e] + 1
  <2> TAKE i \in 1 .. Len(w)
  <2>1. Len(t) \in Nat /\ Len(u) = Len(q) - 1 /\ Len(w) = Len(q) - 1 + Len(t)
    BY <1>6, <1>7, <1>8
  <2>2. CASE i <= Len(q) - 1
    <3>1. i \in 1 .. Len(u) /\ i \in 1 .. Len(q) - 1 /\ i + 1 \in 1 .. Len(q)
      BY <1>6, <2>1, <2>2
    <3> QED BY <1>6, <1>8, <3>1
  <2>3. CASE i > Len(q) - 1
    <3>1. i - Len(u) \in 1 .. Len(t) /\ Len(u) + (i - Len(u)) = i /\ i >= Len(q)
      BY <1>6, <2>1, <2>3
    <3>2. w[i] = t[i - Len(u)]
      BY <1>8, <3>1
    <3> QED BY <1>23, <3>1, <3>2
  <2> QED BY <1>6, <2>1, <2>2, <2>3
<1>25. \A i \in 1 .. Len(w) :
         Depth[w[i]] \in Nat /\ Depth[e] <= Depth[w[i]] /\ Depth[w[i]] <= Depth[e] + 1
  <2> TAKE i \in 1 .. Len(w)
  <2>1. Depth[e] \in Nat
    BY <1>6, <1>14
  <2>2. CASE i + 1 \in 1 .. Len(q) /\ w[i] = q[i + 1]
    BY <1>14, <1>17, <1>22, <2>2
  <2>3. CASE Depth[w[i]] = Depth[e] + 1
    BY <2>1, <2>3
  <2> QED BY <1>24, <2>2, <2>3
<1>26. \A i, j \in 1 .. Len(w) : i < j => Depth[w[i]] <= Depth[w[j]]
  <2> TAKE i, j \in 1 .. Len(w)
  <2>1. HAVE i < j
  <2>2. CASE j >= Len(q) /\ Depth[w[j]] = Depth[e] + 1
    BY <1>25, <2>2
  <2>3. CASE j + 1 \in 1 .. Len(q) /\ w[j] = q[j + 1]
    <3>1. i + 1 \in 1 .. Len(q) /\ w[i] = q[i + 1] /\ i + 1 < j + 1
      <4>1. ~(i >= Len(q)) /\ i + 1 < j + 1
        BY <1>6, <2>1, <2>3
      <4> QED BY <1>24, <4>1
    <3>2. Depth[q[i + 1]] <= Depth[q[j + 1]]
      BY <1>1, <1>17, <2>3, <3>1 DEF LevelOK, q
    <3> QED BY <2>3, <3>1, <3>2
  <2> QED BY <1>24, <2>2, <2>3
<1>27. DOMAIN w = 1 .. Len(w) /\ Len(w) \in Nat
  BY <1>8
<1>28. ASSUME dotted PROVE printed' = <<Root>> /\ w = <<>> /\ walkState' = "running"
  <2>1. printed = <<>> /\ q = <<Root>>
    BY <1>1, <1>3, <1>28 DEF LevelOK, q
  <2>2. t = <<>> /\ e = Root /\ walkState' = "running"
    BY <1>2, <1>28 DEF Enqueues
  <2>3. printed' = <<Root>>
    BY <1>5, <2>1, <2>2
  <2>4. Len(w) = 0
    BY <1>6, <1>8, <2>1, <2>2
  <2>5. w = <<>>
    BY <1>8, <2>4
  <2> QED BY <2>2, <2>3, <2>5
<1>29. ASSUME walkState' = "running"
       PROVE  /\ Once(Queued')
              /\ \A i \in DOMAIN printed', j \in DOMAIN Queued' : Depth[printed'[i]] <= Depth[Queued'[j]]
              /\ \A i, j \in DOMAIN Queued' : i < j => Depth[Queued'[i]] <= Depth[Queued'[j]]
              /\ \A j \in DOMAIN Queued' : Depth[Queued'[j]] <= Depth[Queued'[1]] + 1
              /\ dotted => printed' = <<Root>> /\ Queued' = <<>>
  <2>1. Queued' = w
    BY <1>9, <1>29 DEF Queued
  <2>2. \A i \in 1 .. Len(printed) + 1, j \in 1 .. Len(w) : Depth[printed'[i]] <= Depth[w[j]]
    BY <1>6, <1>14, <1>21, <1>25
  <2>3. \A j \in 1 .. Len(w) : Depth[w[j]] <= Depth[w[1]] + 1
    <3> TAKE j \in 1 .. Len(w)
    <3>1. 1 \in 1 .. Len(w)
      BY <1>27
    <3>2. Depth[e] \in Nat
      BY <1>6, <1>14
    <3> QED BY <1>25, <3>1, <3>2
  <2> QED BY <1>8, <1>15, <1>26, <1>27, <1>28, <2>1, <2>2, <2>3
<1>30. LevelOK'
  <2>1. \A i, j \in DOMAIN printed' : i < j => Depth'[printed'[i]] <= Depth'[printed'[j]]
    BY <1>13, <1>15, <1>20
  <2>2. ~(walkState' = "done")
    BY <1>9
  <2> QED BY <1>1, <1>13, <1>29, <2>1, <2>2 DEF LevelOK, Root
<1> QED BY <1>12, <1>30

LEMMA BfsDoneKeeps ==
    ASSUME TreeOK, WalkTypes, Reached, LevelOK, BfsDone
    PROVE  Reached' /\ LevelOK'
<1>1. /\ walk = "bfs" /\ walkState = "running" /\ walkState' = "done" /\ Queued = <<>>
      /\ UNCHANGED <<walk, folder, dirs, alive, dotted, frames, printed>>
  BY DEF BfsDone, Runs, treeVars
<1>2. Awaited = {}
  <2>1. Awaited = Named(Queued)
    BY <1>1, OneInWork
  <2> QED BY <1>1, <2>1 DEF Named
<1>3. Awaited' = Awaited
  BY <1>1 DEF Awaited
<1>4. Reached'
  BY <1>1, <1>2, <1>3, ReachedStays DEF Root
<1>5. Depth' = Depth
  BY <1>1, DepthStays
<1>6. dotted => printed = <<Root>>
  BY <1>1 DEF LevelOK
<1>7. LevelOK'
  BY <1>1, <1>5, <1>6 DEF LevelOK, Root
<1> QED BY <1>4, <1>7

----------------------------------------------------------------------------
(* dfs *)

LEMMA DfsKeeps ==
    ASSUME TreeOK, WalkTypes, Reached, OneEach(frames), DfsStep
    PROVE  Reached' /\ OneEach(frames')
<1> DEFINE l == Len(frames)
           gs == Append(Popped, Tail(Top))
<1>1. /\ walk = "dfs" /\ walkState = "running" /\ walkState' = "running"
      /\ UNCHANGED <<walk, treeVars>>
  BY DfsOpened
<1>2. PICK e, s : DfsVisits(e, s)
  BY DfsOpened
<1>3. frames # <<>> /\ Top # <<>> /\ e = Head(Top) /\ printed' = Append(printed, e)
  BY <1>2 DEF DfsVisits
<1>4. frames \in Seq(Seq(Files)) /\ Top = frames[l] /\ l \in DOMAIN frames /\ Top \in Seq(Files)
  BY <1>3, FrameFacts DEF WalkTypes, Top
<1>5. gs = Append(SubSeq(frames, 1, l - 1), Tail(frames[l]))
  BY DEF Popped, Top
<1>6. gs \in Seq(Seq(Files)) /\ OneEach(gs) /\ InFrames(gs) = Awaited \ {e}
  <2> HIDE DEF gs
  <2> QED BY <1>3, <1>4, <1>5, TopShortened DEF Awaited
<1>7. e \in Files /\ e \in Awaited
  <2>1. e \in Files /\ e \in Named(Top)
    BY <1>3, <1>4, Shortened
  <2> QED BY <1>4, <2>1 DEF Awaited, InFrames
<1> HIDE DEF gs
<1>8. dotted = FALSE \/ ~dotted
  BY <1>1 DEF TreeOK
<1>9. CASE e \in dirs \cap alive /\ s \in Listings(e) /\ frames' = Append(gs, s)
  <2>1. s \in Seq(Files) /\ Named(s) = Entry(e) /\ Once(s)
    BY <1>9, ListingsList
  <2>2. Entry(e) \in SUBSET ChildrenOf(e)
    BY DEF Entry
  <2>3. InFrames(gs) \cap Named(s) = {}
    BY <1>6, <1>7, <2>1, <2>2, NewNames
  <2>4. OneEach(frames') /\ InFrames(frames') = (Awaited \ {e}) \cup Entry(e)
    BY <1>6, <1>9, <2>1, <2>3, FramePushed
  <2>5. Awaited' = (Awaited \ {e}) \cup Entry(e)
    BY <2>4 DEF Awaited
  <2>6. Reached'
    BY <1>1, <1>3, <1>7, <2>2, <2>5, VisitReached
  <2> QED BY <2>4, <2>6
<1>10. CASE e \notin dirs \cap alive /\ frames' = gs
  <2>1. Entry(e) = {}
    BY <1>10 DEF TreeOK, Entry, ChildrenOf
  <2>2. Awaited' = (Awaited \ {e}) \cup {}
    BY <1>6, <1>10 DEF Awaited
  <2>3. {} \in SUBSET ChildrenOf(e)
    OBVIOUS
  <2>4. Reached'
    BY <1>1, <1>3, <1>7, <2>1, <2>2, <2>3, VisitReached
  <2> QED BY <1>6, <1>10, <2>4
<1> QED BY <1>2, <1>9, <1>10 DEF DfsVisits, gs

LEMMA DfsReturnKeeps ==
    ASSUME TreeOK, WalkTypes, Reached, OneEach(frames), DfsReturn
    PROVE  Reached' /\ OneEach(frames')
<1> DEFINE l == Len(frames)
<1>1. /\ walk = "dfs" /\ walkState = "running" /\ frames # <<>> /\ Top = <<>>
      /\ frames' = Popped /\ walkState' = IF l = 1 THEN "done" ELSE "running"
      /\ UNCHANGED <<walk, folder, dirs, alive, dotted, printed>>
  BY DEF DfsReturn, Runs, treeVars
<1>2. frames \in Seq(Seq(Files)) /\ frames[l] = <<>> /\ Popped = SubSeq(frames, 1, l - 1)
  BY <1>1 DEF WalkTypes, Top, Popped
<1>3. OneEach(frames') /\ InFrames(frames') = Awaited
  BY <1>1, <1>2, FramePopped DEF Awaited
<1>4. Awaited' = Awaited
  BY <1>3 DEF Awaited
<1>5. l = 1 => Awaited = {}
  <2>1. SUFFICES ASSUME l = 1 PROVE Awaited = {}
    OBVIOUS
  <2>2. frames' = <<>>
    BY <1>1, <2>1, FrameFacts
  <2> QED BY <1>3, <2>2 DEF InFrames
<1>6. Reached'
  BY <1>1, <1>4, <1>5, ReachedStays DEF Root
<1> QED BY <1>3, <1>6

----------------------------------------------------------------------------
(* The start, and the files that are removed *)

LEMMA AtStart ==
    ASSUME WalkTypes, walkState = "start"
    PROVE  BfsInv /\ DfsInv /\ FindInv /\ LsInv
<1>1. frames = <<>> /\ printed = <<>> /\ listed = <<>>
  BY DEF WalkTypes
<1>2. Awaited = {} /\ Once(<<>>) /\ Increasing(<<>>)
  BY <1>1 DEF Awaited, InFrames, Once, Increasing
<1>3. Reached
  BY <1>1, <1>2 DEF Reached
<1>4. LevelOK
  BY <1>1 DEF LevelOK
<1>5. BfsInv /\ DfsInv
  BY <1>3, <1>4 DEF BfsInv, DfsInv
<1>6. FindInv
  BY <1>1 DEF FindInv
<1>7. LsInv
  BY <1>1, <1>2 DEF LsInv
<1> QED BY <1>5, <1>6, <1>7

LEMMA StartWalkKeeps ==
    ASSUME TreeOK, WalkTypes, StartWalk
    PROVE  BfsInv' /\ DfsInv' /\ FindInv' /\ LsInv'
<1>1. /\ walkState = "start" /\ walkState' = "running"
      /\ walk' = walk /\ folder' = folder /\ alive' = alive /\ dirs' = dirs /\ sought' = sought
      /\ dotted' = dotted /\ printed' = printed /\ listed' = listed
  BY DEF StartWalk, treeVars
<1>2. printed = <<>> /\ listed = <<>>
  BY <1>1 DEF WalkTypes
<1>3. Named(<<>>) = {} /\ Once(<<>>) /\ Increasing(<<>>)
  BY DEF Named, Once, Increasing
<1>4. CASE walk = "bfs"
  <2>1. frames' = <<<<Root>>>>
    BY <1>4 DEF StartWalk
  <2>2. Named(<<Root>>) = {Root}
    BY DEF Named
  <2>3. Awaited' = {Root}
    <3>1. InFrames(<<<<Root>>>>) = {Root}
      BY <2>2, RootTyped, OneFrame
    <3> QED BY <2>1, <3>1 DEF Awaited
  <2>4. Known' = {}
    BY <1>1, <1>2, <1>3, <1>4 DEF Known
  <2>5. Reached'
    BY <1>1, <1>2, <1>3, <1>4, <2>3, <2>4 DEF Reached, Root
  <2>6. Queued' = <<Root>>
    BY <2>1 DEF Queued, Root
  <2>7. Depth' = Depth /\ Depth[Root] = 0
    BY <1>1, DepthStays, DepthIs
  <2>8. Once(<<Root>>)
    BY DEF Once
  <2>9. \A j \in DOMAIN Queued' : Queued'[j] = Root /\ j = 1
    BY <2>6
  <2>10. LevelOK'
    <3>1. DOMAIN printed' = {}
      BY <1>1, <1>2
    <3>2. \A i, j \in DOMAIN Queued' : ~(i < j)
      BY <2>9
    <3>3. \A j \in DOMAIN Queued' : Depth'[Queued'[j]] <= Depth'[Queued'[1]] + 1
      BY <2>6, <2>7, <2>9
    <3>4. dotted' => printed' = <<>> /\ Queued' = <<Root>>
      BY <1>1, <1>2, <2>6
    <3>5. Once(Queued')
      BY <2>6, <2>8
    <3> QED BY <1>1, <3>1, <3>2, <3>3, <3>4, <3>5 DEF LevelOK, Root
  <2> QED BY <1>1, <1>4, <2>5, <2>10 DEF BfsInv, DfsInv, FindInv, LsInv
<1>5. CASE walk # "bfs"
  <2>1. PICK s \in Listings(Root) : frames' = <<s>>
    BY <1>5 DEF StartWalk
  <2>2. s \in Seq(Files) /\ Named(s) = Entry(Root) /\ Once(s)
    BY ListingsList
  <2>3. Awaited' = Entry(Root)
    <3>1. InFrames(<<s>>) = Entry(Root)
      BY <2>2, OneFrame
    <3> QED BY <2>1, <3>1 DEF Awaited
  <2>4. Entry(Root) \subseteq ChildrenOf(Root) /\ \A x \in ChildrenOf(Root) : x # Root /\ folder[x] = Root
    BY DEF Entry, ChildrenOf
  <2>5. \A x \in alive \ {Root} : folder[x] = Root => x \in Entry(Root)
    BY DEF TreeOK, Entry, ChildrenOf
  <2>6. CASE walk = "dfs"
    <3>1. Known' = {Root}
      BY <1>1, <1>2, <1>3, <2>6 DEF Known, Root
    <3>2. Reached'
      BY <1>1, <1>2, <1>3, <2>3, <2>4, <2>5, <2>6, <3>1 DEF Reached, Root
    <3>3. OneEach(frames')
      <4>1. DOMAIN frames' = {1} /\ frames'[1] = s
        BY <2>1
      <4> QED BY <2>2, <4>1 DEF OneEach, Once
    <3> QED BY <1>1, <2>6, <3>2, <3>3 DEF BfsInv, DfsInv, FindInv, LsInv
  <2>7. CASE walk = "find"
    <3>1. frames' # <<>> /\ Len(frames') = 1 /\ frames'[1] = s
      BY <2>1
    <3>2. sought \in alive => \A i \in 1 .. Len(frames') : folder[sought] = DirOf(i)' => sought \in Named(frames'[i])
      <4>1. SUFFICES ASSUME sought \in alive, NEW i \in 1 .. Len(frames'), folder[sought] = DirOf(i)'
                     PROVE  sought \in Named(frames'[i])
        OBVIOUS
      <4>2. i = 1 /\ frames'[i] = s
        BY <3>1
      <4>3. DirOf(i)' = Root
        BY <4>2 DEF DirOf, Root
      <4>4. sought # Root
        BY <2>7 DEF TreeOK
      <4> QED BY <2>2, <2>5, <4>1, <4>2, <4>3, <4>4
    <3>3. \A i \in 1 .. Len(frames') - 1 : FALSE
      BY <3>1
    <3>4. FindInv'
      BY <1>1, <1>2, <3>1, <3>2, <3>3 DEF FindInv
    <3> QED BY <1>1, <2>7, <3>4 DEF BfsInv, DfsInv, LsInv
  <2>8. CASE walk \in {"sorted", "plain"}
    <3>1. Top' = s /\ Kept' = <<>> /\ Named(Top') = Entry(Root) /\ Named(Kept') = {}
      BY <1>1, <1>2, <1>3, <2>1, <2>2 DEF Top, Kept
    <3>2. Entry(Root)' = Entry(Root) /\ ChildrenOf(Root)' = ChildrenOf(Root)
      BY <1>1 DEF Entry, ChildrenOf, Files, Root
    <3>3. LsInv'
      BY <1>1, <1>2, <1>3, <2>2, <2>4, <3>1, <3>2 DEF LsInv, Root
    <3> QED BY <1>1, <2>8, <3>3 DEF BfsInv, DfsInv, FindInv
  <2> QED BY <1>5, <2>6, <2>7, <2>8 DEF TreeOK
<1> QED BY <1>4, <1>5

LEMMA RemoveKeeps ==
    ASSUME TreeOK, BfsInv, DfsInv, FindInv, LsInv, RemoveFile \/ UNCHANGED walkVars
    PROVE  BfsInv' /\ DfsInv' /\ FindInv' /\ LsInv'
<1>1. /\ alive' \subseteq alive
      /\ walk' = walk /\ walkState' = walkState /\ folder' = folder /\ dirs' = dirs
      /\ sought' = sought /\ dotted' = dotted /\ frames' = frames /\ printed' = printed
      /\ listed' = listed
  BY RemoveShrinks DEF walkVars
<1>2. Awaited' = Awaited /\ Queued' = Queued /\ Top' = Top /\ Kept' = Kept
  BY <1>1 DEF Awaited, Queued, Top, Kept
<1>3. Depth' = Depth
  BY <1>1, DepthStays
<1>4. Reached => Reached'
  BY <1>1, <1>2, ReachedStays DEF Root, Reached
<1>5. LevelOK => LevelOK'
  BY <1>1, <1>2, <1>3 DEF LevelOK, Root
<1>6. BfsInv' /\ DfsInv'
  BY <1>1, <1>4, <1>5 DEF BfsInv, DfsInv
<1>7. \A i : DirOf(i)' = DirOf(i)
  BY <1>1 DEF DirOf, Root
<1>8. FindInv'
  BY <1>1, <1>7 DEF FindInv
<1>9. Entry(Root)' \subseteq Entry(Root) /\ ChildrenOf(Root)' = ChildrenOf(Root)
  BY <1>1 DEF Entry, ChildrenOf, Files, Root
<1>10. LsInv'
  BY <1>1, <1>2, <1>9 DEF LsInv, Root
<1> QED BY <1>6, <1>8, <1>10

----------------------------------------------------------------------------
(* find *)

LEMMA HeadOrTail ==
    ASSUME NEW s \in Seq(Files), s # <<>>, NEW x \in Named(s), x # Head(s)
    PROVE  x \in Named(Tail(s))
<1>1. PICK i \in 1 .. Len(s) : s[i] = x
  BY DEF Named
<1>2. /\ Head(s) = s[1] /\ Tail(s) \in Seq(Files) /\ Len(s) \in Nat \ {0} /\ Len(Tail(s)) = Len(s) - 1
      /\ \A j \in 1 .. Len(s) - 1 : Tail(s)[j] = s[j + 1]
  BY Shortened
<1>3. i - 1 \in 1 .. Len(s) - 1 /\ (i - 1) + 1 = i
  BY <1>1, <1>2
<1>4. Tail(s)[i - 1] = x /\ i - 1 \in DOMAIN Tail(s)
  BY <1>1, <1>2, <1>3
<1> QED BY <1>4 DEF Named

LEMMA FindKeeps == ASSUME TreeOK, WalkTypes, FindInv, FindStep PROVE FindInv'
<1> DEFINE l == Len(frames)
           e == Head(Top)
<1>1. /\ walk = "find" /\ walkState = "running" /\ Top # <<>> /\ walk' = "find"
      /\ folder' = folder /\ alive' = alive /\ dirs' = dirs /\ sought' = sought
  BY DEF FindStep, Runs, treeVars
<1>2. frames # <<>> /\ printed = <<>>
  BY <1>1 DEF FindInv
<1>3. /\ \A i \in 1 .. l - 1 : frames[i] # <<>> /\ Head(frames[i]) # sought
      /\ sought \in alive => \A i \in 1 .. l : folder[sought] = DirOf(i) => sought \in Named(frames[i])
  BY <1>1 DEF FindInv
<1>4. /\ l \in Nat \ {0} /\ Top = frames[l] /\ Top \in Seq(Files) /\ frames \in Seq(Seq(Files))
      /\ Popped \in Seq(Seq(Files)) /\ Len(Popped) = l - 1
      /\ \A i \in 1 .. l - 1 : Popped[i] = frames[i]
  BY <1>2, FrameFacts DEF WalkTypes, Top
<1>5. sought \in Files \ {Root}
  BY <1>1 DEF TreeOK
<1>6. CASE e = sought /\ printed' = <<folder[e]>> /\ walkState' = "found"
  BY <1>1, <1>6 DEF FindInv
<1>7. CASE /\ e # sought /\ e \in dirs \cap alive
           /\ \E s \in Listings(e) : frames' = Append(frames, s)
           /\ UNCHANGED <<printed, walkState>>
  <2>1. PICK s \in Listings(e) : frames' = Append(frames, s)
    BY <1>7
  <2>2. s \in Seq(Files) /\ Named(s) = Entry(e)
    <3> HIDE DEF e
    <3> QED BY ListingsList
  <2> HIDE DEF l
  <2>3. /\ frames' # <<>> /\ Len(frames') = l + 1 /\ frames'[l + 1] = s
        /\ \A i \in 1 .. l : frames'[i] = frames[i]
    BY <1>4, <2>1, <2>2, FrameAppended DEF l
  <2>4. \A i \in 1 .. l : i \in 1 .. l - 1 \/ i = l
    BY <1>4
  <2>5. \A i \in 1 .. Len(frames') - 1 : frames'[i] # <<>> /\ Head(frames'[i]) # sought
    <3> TAKE i \in 1 .. Len(frames') - 1
    <3>1. i \in 1 .. l
      BY <1>4, <2>3
    <3>2. CASE i \in 1 .. l - 1
      BY <1>3, <2>3, <3>1, <3>2 DEF l
    <3>3. CASE i = l
      <4>1. frames'[i] = Top
        BY <1>4, <2>3, <3>1, <3>3
      <4> QED BY <1>1, <1>7, <4>1
    <3> QED BY <2>4, <3>1, <3>2, <3>3
  <2>6. ASSUME sought \in alive, NEW i \in 1 .. Len(frames'), folder[sought] = DirOf(i)'
        PROVE  sought \in Named(frames'[i])
    <3>1. CASE i \in 1 .. l
      <4>1. DirOf(i)' = DirOf(i)
        <5>1. i # 1 => i - 1 \in 1 .. l
          BY <1>4, <3>1
        <5>2. i # 1 => frames'[i - 1] = frames[i - 1]
          BY <2>3, <5>1
        <5> QED BY <5>2 DEF DirOf, Root
      <4> QED BY <1>3, <2>3, <2>6, <3>1, <4>1 DEF l
    <3>2. CASE i = l + 1
      <4>1. i # 1 /\ i - 1 = l /\ l \in 1 .. l
        BY <1>4, <3>2
      <4>2. DirOf(i)' = Head(frames'[l])
        BY <4>1 DEF DirOf
      <4>3. DirOf(i)' = e
        BY <1>4, <2>3, <4>1, <4>2
      <4>4. sought \in Entry(e)
        BY <1>5, <2>6, <4>3 DEF Entry, ChildrenOf
      <4> QED BY <2>2, <2>3, <3>2, <4>4
    <3> QED BY <1>4, <2>3, <3>1, <3>2
  <2> QED BY <1>1, <1>2, <1>7, <2>3, <2>5, <2>6 DEF FindInv
<1>8. CASE e # sought /\ e \in dirs \ alive /\ walkState' = "silent" /\ UNCHANGED <<frames, printed>>
  BY <1>1, <1>2, <1>8 DEF FindInv
<1>9. CASE /\ e # sought /\ e \notin dirs
           /\ frames' = Append(Popped, Tail(Top)) /\ UNCHANGED <<printed, walkState>>
  <2>1. Tail(Top) \in Seq(Files)
    BY <1>1, <1>4, Shortened
  <2> HIDE DEF l, e
  <2>2. /\ frames' # <<>> /\ Len(frames') = l /\ frames'[l] = Tail(Top)
        /\ \A i \in 1 .. l - 1 : frames'[i] = frames[i]
    <3>1. (l - 1) + 1 = l
      BY <1>4
    <3>2. /\ frames' # <<>> /\ Len(frames') = Len(Popped) + 1 /\ frames'[Len(Popped) + 1] = Tail(Top)
          /\ \A i \in 1 .. Len(Popped) : frames'[i] = Popped[i]
      BY <1>4, <1>9, <2>1, FrameAppended, Zenon
    <3>3. Len(Popped) = l - 1 /\ Len(Popped) + 1 = l
      BY <1>4, <3>1
    <3> QED BY <1>4, <3>2, <3>3
  <2>3. \A i \in 1 .. Len(frames') - 1 : frames'[i] # <<>> /\ Head(frames'[i]) # sought
    BY <1>3, <2>2 DEF l
  <2>4. ASSUME sought \in alive, NEW i \in 1 .. Len(frames'), folder[sought] = DirOf(i)'
        PROVE  sought \in Named(frames'[i])
    <3>1. i \in 1 .. l
      BY <2>2
    <3>2. DirOf(i)' = DirOf(i)
      <4>1. i # 1 => i - 1 \in 1 .. l - 1
        BY <1>4, <3>1
      <4>2. i # 1 => frames'[i - 1] = frames[i - 1]
        BY <2>2, <4>1
      <4> QED BY <4>2 DEF DirOf, Root
    <3>3. sought \in Named(frames[i])
      BY <1>3, <2>4, <3>1, <3>2 DEF l
    <3>4. CASE i \in 1 .. l - 1
      BY <2>2, <3>3, <3>4
    <3>5. CASE i = l
      <4>1. sought \in Named(Top) /\ sought # Head(Top)
        BY <1>4, <1>9, <3>3, <3>5 DEF e
      <4>2. sought \in Named(Tail(Top))
        BY <1>1, <1>4, <4>1, HeadOrTail
      <4> QED BY <2>2, <3>5, <4>2
    <3>6. i \in 1 .. l - 1 \/ i = l
      BY <1>4, <3>1
    <3> QED BY <3>4, <3>5, <3>6
  <2> QED BY <1>1, <1>2, <1>9, <2>2, <2>3, <2>4 DEF FindInv
<1> QED BY <1>6, <1>7, <1>8, <1>9 DEF FindStep

LEMMA FindNothingKeeps == ASSUME FindInv, FindNothing PROVE FindInv'
<1>1. /\ walk = "find" /\ walkState = "running" /\ Top = <<>> /\ walkState' = "missing"
      /\ walk' = walk /\ folder' = folder /\ alive' = alive /\ sought' = sought
      /\ frames' = frames /\ printed' = printed
  BY DEF FindNothing, Runs, treeVars
<1>2. \A i : DirOf(i)' = DirOf(i)
  BY <1>1 DEF DirOf, Root
<1>3. frames[Len(frames)] = <<>>
  BY <1>1 DEF Top
<1> QED BY <1>1, <1>2, <1>3 DEF FindInv

\* What find does not come by is behind the first directory of a list.
LEMMA FindMisses ==
    ASSUME TreeOK, WalkTypes, FindInv, walk = "find", walkState = "missing", sought \in alive
    PROVE  \/ folder[sought] \notin Opened
           \/ \E i \in DOMAIN frames : i < Len(frames) /\ sought \in Named(Tail(frames[i]))
<1> DEFINE l == Len(frames)
<1>1. /\ frames # <<>> /\ frames[l] = <<>>
      /\ \A i \in 1 .. l - 1 : frames[i] # <<>> /\ Head(frames[i]) # sought
      /\ \A i \in 1 .. l : folder[sought] = DirOf(i) => sought \in Named(frames[i])
  BY DEF FindInv
<1>2. l \in Nat \ {0} /\ DOMAIN frames = 1 .. l /\ \A i \in 1 .. l : frames[i] \in Seq(Files)
  BY <1>1, FrameFacts DEF WalkTypes
<1> HIDE DEF l
<1>3. SUFFICES ASSUME folder[sought] \in Opened
               PROVE  \E i \in DOMAIN frames : i < l /\ sought \in Named(Tail(frames[i]))
  BY DEF l
<1>4. PICK i \in 1 .. l : folder[sought] = DirOf(i)
  <2>1. CASE folder[sought] = Root
    <3>1. 1 \in 1 .. l /\ DirOf(1) = Root
      BY <1>2 DEF DirOf
    <3> QED BY <2>1, <3>1
  <2>2. CASE \E j \in 2 .. l : folder[sought] = Head(frames[j - 1])
    <3>1. PICK j \in 2 .. l : folder[sought] = Head(frames[j - 1])
      BY <2>2
    <3>2. j \in 1 .. l /\ j # 1
      BY <1>2, <3>1
    <3>3. DirOf(j) = Head(frames[j - 1])
      BY <3>2 DEF DirOf
    <3> QED BY <3>1, <3>2, <3>3
  <2> QED BY <1>3, <2>1, <2>2 DEF Opened, l
<1>5. sought \in Named(frames[i])
  BY <1>1, <1>4
<1>6. i # l
  BY <1>1, <1>5 DEF Named
<1>7. i \in 1 .. l - 1 /\ i < l
  BY <1>2, <1>4, <1>6
<1>8. frames[i] \in Seq(Files) /\ frames[i] # <<>> /\ sought # Head(frames[i])
  BY <1>1, <1>2, <1>4, <1>7
<1>9. sought \in Named(Tail(frames[i]))
  BY <1>5, <1>8, HeadOrTail
<1> QED BY <1>2, <1>4, <1>7, <1>9

----------------------------------------------------------------------------
(* ls *)

LEMMA OnceAppended ==
    ASSUME NEW s \in Seq(Files), Once(s), NEW e \in Files, e \notin Named(s)
    PROVE  Once(Append(s, e))
<1> DEFINE t == Append(s, e)
<1>1. /\ t \in Seq(Files) /\ Len(t) = Len(s) + 1 /\ Len(s) \in Nat
      /\ \A i \in 1 .. Len(s) : t[i] = s[i]
      /\ t[Len(s) + 1] = e
  BY Appended
<1> HIDE DEF t
<1>2. DOMAIN t = 1 .. Len(s) + 1 /\ DOMAIN s = 1 .. Len(s)
  BY <1>1
<1>3. \A i \in 1 .. Len(s) + 1 : i \in 1 .. Len(s) \/ i = Len(s) + 1
  BY <1>1
<1>4. \A i \in 1 .. Len(s) : s[i] # e
  BY <1>2 DEF Named
<1>5. \A i, j \in 1 .. Len(s) : s[i] = s[j] => i = j
  BY <1>2 DEF Once
<1>6. \A i, j \in 1 .. Len(s) + 1 : t[i] = t[j] => i = j
  BY <1>1, <1>3, <1>4, <1>5
<1> QED BY <1>2, <1>6 DEF Once, t

LEMMA LsKeeps == ASSUME TreeOK, WalkTypes, LsInv, LsStep PROVE LsInv'
<1> DEFINE e == Head(Top)
<1>1. /\ walk \in {"sorted", "plain"} /\ walkState = "running" /\ Top # <<>>
      /\ walk' = walk /\ folder' = folder /\ alive' = alive
  BY DEF LsStep, Runs, treeVars
<1>2. Top \in Seq(Files) /\ printed \in Seq(Files) /\ listed \in Seq(Files)
  BY <1>1, OneInWork DEF WalkTypes
<1>3. /\ Once(printed) /\ Once(listed) /\ Once(Top)
      /\ walk = "sorted" => Increasing(listed) /\ Increasing(printed) /\ printed = <<>>
      /\ Entry(Root) \subseteq Named(Kept) \cup Named(Top)
      /\ Named(Kept) \cup Named(Top) \subseteq ChildrenOf(Root)
      /\ Named(Kept) \cap Named(Top) = {}
  BY <1>1 DEF LsInv
<1>4. /\ e \in Files /\ e \in Named(Top) /\ Tail(Top) \in Seq(Files) /\ Once(Tail(Top))
      /\ Named(Tail(Top)) = Named(Top) \ {e}
  BY <1>1, <1>2, <1>3, Shortened
<1>5. Entry(Root)' = Entry(Root) /\ ChildrenOf(Root)' = ChildrenOf(Root)
  BY <1>1 DEF Entry, ChildrenOf, Files, Root
<1> HIDE DEF e
<1>6. Once(<<>>) /\ Increasing(<<>>)
  BY DEF Once, Increasing
<1>7. CASE e \notin alive
  <2>1. walkState' = "failed" /\ listed' = listed /\ printed' = printed
    BY <1>7 DEF LsStep, e
  <2> QED BY <1>1, <1>3, <2>1 DEF LsInv
<1>8. CASE e \in alive
  <2>1. /\ listed' = IF walk = "sorted" THEN SortInsert(listed, e) ELSE <<>>
        /\ printed' = IF walk = "plain" THEN Append(printed, e) ELSE <<>>
        /\ frames' = <<Tail(Top)>> /\ walkState' = "running"
    BY <1>1, <1>8 DEF LsStep, e
  <2>2. Top' = Tail(Top)
    BY <2>1 DEF Top
  <2>3. e \notin Named(Kept)
    BY <1>3, <1>4
  <2>4. CASE walk = "sorted"
    <3>1. Kept = listed /\ Kept' = SortInsert(listed, e)
      BY <1>1, <2>1, <2>4 DEF Kept
    <3>2. /\ SortInsert(listed, e) \in Seq(Files)
          /\ Named(SortInsert(listed, e)) = Named(listed) \cup {e}
          /\ Increasing(SortInsert(listed, e))
      BY <1>2, <1>3, <1>4, <2>3, <2>4, <3>1, SortKeepsOrder
    <3>3. Once(SortInsert(listed, e))
      BY <3>2, IncreasingOnce
    <3>4. Named(Kept') = Named(Kept) \cup {e}
      BY <3>1, <3>2
    <3>5. listed' = SortInsert(listed, e) /\ printed' = <<>>
      BY <2>1, <2>4
    <3>6. Named(Kept)' \cup Named(Top)' = Named(Kept) \cup Named(Top) /\ Named(Kept)' \cap Named(Top)' = {}
      BY <1>3, <1>4, <2>2, <2>3, <3>4
    <3> QED BY <1>1, <1>3, <1>4, <1>5, <1>6, <2>1, <2>2, <2>4, <3>2, <3>3, <3>5, <3>6
            DEF LsInv, Root
  <2>5. CASE walk = "plain"
    <3>1. Kept = printed /\ Kept' = Append(printed, e)
      BY <1>1, <2>1, <2>5 DEF Kept
    <3>2. Named(Append(printed, e)) = Named(printed) \cup {e} /\ Once(Append(printed, e))
      BY <1>2, <1>3, <1>4, <2>3, <3>1, Appended, OnceAppended
    <3>3. Named(Kept') = Named(Kept) \cup {e}
      BY <3>1, <3>2
    <3>4. listed' = <<>> /\ printed' = Append(printed, e)
      BY <2>1, <2>5
    <3>5. Named(Kept)' \cup Named(Top)' = Named(Kept) \cup Named(Top) /\ Named(Kept)' \cap Named(Top)' = {}
      BY <1>3, <1>4, <2>2, <2>3, <3>3
    <3> QED BY <1>1, <1>3, <1>4, <1>5, <1>6, <2>1, <2>2, <2>5, <3>2, <3>4, <3>5
            DEF LsInv, Root
  <2> QED BY <1>1, <2>4, <2>5
<1> QED BY <1>7, <1>8

LEMMA PrintKeeps == ASSUME TreeOK, WalkTypes, LsInv, PrintFileList PROVE LsInv'
<1>1. /\ walk \in {"sorted", "plain"} /\ walkState = "running" /\ Top = <<>>
      /\ walk' = walk /\ folder' = folder /\ alive' = alive /\ walkState' = "done"
      /\ printed' = (IF walk = "sorted" THEN listed ELSE printed) /\ listed' = <<>>
  BY DEF PrintFileList, Runs, treeVars
<1>2. /\ Once(printed) /\ Once(listed)
      /\ walk = "sorted" => Increasing(listed)
      /\ Entry(Root) \subseteq Named(Kept) \cup Named(Top)
      /\ Named(Kept) \cup Named(Top) \subseteq ChildrenOf(Root)
  BY <1>1 DEF LsInv
<1>3. Named(Top) = {} /\ Once(<<>>) /\ Increasing(<<>>)
  BY <1>1 DEF Named, Once, Increasing
<1>4. printed' = Kept
  BY <1>1 DEF Kept
<1>5. Entry(Root)' = Entry(Root) /\ ChildrenOf(Root)' = ChildrenOf(Root)
  BY <1>1 DEF Entry, ChildrenOf, Files, Root
<1>6. Entry(Root) \subseteq Named(printed') /\ Named(printed') \subseteq ChildrenOf(Root)
  BY <1>2, <1>3, <1>4
<1> QED BY <1>1, <1>2, <1>3, <1>5, <1>6 DEF LsInv, Root

----------------------------------------------------------------------------
(* The walks print what they should *)

WalkAll == TreeOK /\ WalkTypes /\ BfsInv /\ DfsInv /\ FindInv /\ LsInv

LEMMA WalkInitAll == WalkInit => WalkAll
<1>1. WalkInit => walkState = "start"
  BY DEF WalkInit
<1> QED BY <1>1, TreeInit, TypesInit, AtStart DEF WalkAll

LEMMA WalkStepAll == WalkAll /\ [WalkNext]_walkVars => WalkAll'
<1> SUFFICES ASSUME WalkAll, [WalkNext]_walkVars PROVE WalkAll'
  OBVIOUS
<1>1. TreeOK' /\ WalkTypes'
  BY TreeStep, TypesStep DEF WalkAll
<1>2. TreeOK /\ WalkTypes /\ BfsInv /\ DfsInv /\ FindInv /\ LsInv
  BY DEF WalkAll
<1>9. SUFFICES BfsInv' /\ DfsInv' /\ FindInv' /\ LsInv'
  BY <1>1 DEF WalkAll
<1>3. CASE StartWalk
  BY <1>2, <1>3, StartWalkKeeps
<1>4. CASE BfsStep \/ BfsDone
  <2>1. walk = "bfs" /\ walk' = "bfs"
    BY <1>4 DEF BfsStep, BfsDone, Runs
  <2>2. Reached' /\ LevelOK'
    BY <1>2, <1>4, <2>1, BfsKeeps, BfsDoneKeeps DEF BfsInv
  <2> QED BY <2>1, <2>2 DEF BfsInv, DfsInv, FindInv, LsInv
<1>5. CASE DfsStep \/ DfsReturn
  <2>1. walk = "dfs" /\ walk' = "dfs" /\ walkState = "running"
    BY <1>5 DEF DfsStep, DfsReturn, Runs
  <2>2. Reached' /\ OneEach(frames')
    BY <1>2, <1>5, <2>1, DfsKeeps, DfsReturnKeeps DEF DfsInv
  <2> QED BY <2>1, <2>2 DEF BfsInv, DfsInv, FindInv, LsInv
<1>6. CASE FindStep \/ FindNothing
  <2>1. walk' = "find"
    BY <1>6 DEF FindStep, FindNothing, Runs
  <2>2. FindInv'
    BY <1>2, <1>6, FindKeeps, FindNothingKeeps
  <2> QED BY <2>1, <2>2 DEF BfsInv, DfsInv, LsInv
<1>7. CASE LsStep \/ PrintFileList
  <2>1. walk' \in {"sorted", "plain"}
    BY <1>7 DEF LsStep, PrintFileList, Runs
  <2>2. LsInv'
    BY <1>2, <1>7, LsKeeps, PrintKeeps
  <2> QED BY <2>1, <2>2 DEF BfsInv, DfsInv, FindInv
<1>8. CASE RemoveFile \/ UNCHANGED walkVars
  BY <1>2, <1>8, RemoveKeeps
<1> QED BY <1>3, <1>4, <1>5, <1>6, <1>7, <1>8 DEF WalkNext, WalkStep

LEMMA WalkImplies == WalkAll => WalkPrintsAll
<1> SUFFICES ASSUME WalkAll PROVE WalkPrintsAll
  OBVIOUS
<1>1. TreeOK /\ WalkTypes /\ BfsInv /\ DfsInv /\ FindInv /\ LsInv
  BY DEF WalkAll
<1>2. walk \in {"bfs", "dfs", "find", "sorted", "plain"}
  BY <1>1 DEF TreeOK
<1>3. walk \in {"bfs", "dfs"} => Reached
  BY <1>1 DEF BfsInv, DfsInv
<1>4. \A i, j \in DOMAIN printed : printed[i] = printed[j] => i = j
  <2>1. CASE walk \in {"bfs", "dfs"}
    BY <1>3, <2>1 DEF Reached, Once
  <2>2. CASE walk = "find"
    <3>1. printed = <<>> \/ printed = <<folder[sought]>>
      BY <1>1, <2>2 DEF FindInv
    <3> QED BY <3>1
  <2>3. CASE walk \in {"sorted", "plain"}
    BY <1>1, <2>3 DEF LsInv, Once
  <2> QED BY <1>2, <2>1, <2>2, <2>3
<1>5. walk \in {"bfs", "dfs"} =>
        \A i \in DOMAIN printed : printed[i] # Root /\ ~(walk = "dfs" /\ folder[printed[i]] = Root) =>
            \E j \in 1 .. i - 1 : printed[j] = folder[printed[i]]
  BY <1>3 DEF Reached
<1>6. walk = "bfs" =>
        \A i, j \in DOMAIN printed : i < j => Depth[printed[i]] <= Depth[printed[j]]
  BY <1>1 DEF BfsInv, LevelOK
<1>7. ASSUME walkState = "done"
      PROVE  CASE walk = "bfs" -> IF dotted THEN printed = <<Root>> ELSE alive \subseteq Named(printed)
               [] walk = "dfs" -> alive \ {Root} \subseteq Named(printed)
               [] OTHER        -> Entry(Root) \subseteq Named(printed) /\ Named(printed) \subseteq ChildrenOf(Root)
  <2>1. CASE walk = "bfs"
    <3>1. dotted => printed = <<Root>>
      BY <1>1, <1>7, <2>1 DEF BfsInv, LevelOK
    <3>2. ~dotted => alive \subseteq Named(printed)
      BY <1>1, <1>3, <1>7, <2>1, AllReached
    <3> QED BY <2>1, <3>1, <3>2
  <2>2. CASE walk = "dfs"
    <3>1. ~dotted
      BY <1>1, <2>2 DEF TreeOK
    <3>2. alive \ {Root} \subseteq Named(printed)
      BY <1>1, <1>3, <1>7, <2>2, <3>1, AllReached
    <3> QED BY <2>2, <3>2
  <2>3. CASE walk \in {"sorted", "plain"}
    <3>1. Entry(Root) \subseteq Named(printed) /\ Named(printed) \subseteq ChildrenOf(Root)
      BY <1>1, <1>7, <2>3 DEF LsInv
    <3> QED BY <2>3, <3>1
  <2>4. walk # "find"
    BY <1>1, <1>7 DEF WalkTypes
  <2> QED BY <1>2, <2>1, <2>2, <2>3, <2>4
<1>8. walk = "sorted" => \A i, j \in DOMAIN printed : i < j => printed[i] < printed[j]
  BY <1>1 DEF LsInv, Increasing
<1>9. walk = "sorted" /\ walkState = "failed" => printed = <<>>
  BY <1>1 DEF LsInv
<1>10. walkState = "found" => printed = <<folder[sought]>>
  BY <1>1 DEF FindInv, WalkTypes
<1>11. walkState = "missing" /\ sought \in alive =>
         \/ folder[sought] \notin Opened
         \/ \E i \in DOMAIN frames : i < Len(frames) /\ sought \in Named(Tail(frames[i]))
  <2>1. walkState = "missing" => walk = "find"
    BY <1>1 DEF WalkTypes
  <2> QED BY <1>1, <2>1, FindMisses
<1> QED BY <1>4, <1>5, <1>6, <1>7, <1>8, <1>9, <1>10, <1>11 DEF WalkPrintsAll

LEMMA WalkAlways == WalkSpec => []WalkAll
BY WalkInitAll, WalkStepAll, PTL DEF WalkSpec

\* A walk that ends without an error has printed every file that is still there, each
\* once and after its directory; breadth first by depth; ls its own entries in order.
THEOREM WalkPrintsTheorem == WalkSpec => []WalkPrintsAll
BY WalkAlways, WalkImplies, PTL

==============================================================================
