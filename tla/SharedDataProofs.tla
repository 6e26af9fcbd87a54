--------------------------- MODULE SharedDataProofs ---------------------------
(***************************************************************************)
(* What threads and processes share in the programs that stand alone.  The *)
(* ring buffer and the linked work queue implement a bounded queue, for    *)
(* every BUFFER_SIZE and number of data, and for every number of nodes and *)
(* capacity; tickets, counters and goods are not lost, for any number of   *)
(* windows, refills, rounds and goods.                                     *)
(***************************************************************************)
EXTENDS RingBuffer, LinkedQueue, SharedNumbers, SequenceTheorems, FiniteSetTheorems,
        WellFoundedInduction, TLAPS


----------------------------------------------------------------------------
(* The ring buffer.  The type invariant is inductive; the refinement needs *)
(* nothing else, as the mapping Contents is a function of the two          *)
(* positions and the buffer.                                               *)

\* A position has a successor that is a position.
LEMMA AfterType == ASSUME NEW i \in Positions PROVE After(i) \in Positions
  BY RingConstants DEF After, Positions

\* The initial ring has its types.
LEMMA InitTyped == ASSUME Init PROVE TypeOK
  BY RingConstants DEF Init, TypeOK, Positions, Data, Over

LEMMA PutTyped == ASSUME TypeOK, Put PROVE TypeOK'
<1>1. CASE Full
  BY <1>1 DEF TypeOK, Put, Wait, ringVars
<1>2. CASE ~Full
  <2>1. /\ buffer' = [buffer EXCEPT ![writepos] = n]
        /\ writepos' = After(writepos) /\ readpos' = readpos
        /\ waiting' = waiting \ {"consumer"} /\ n' = n + 1 /\ got' = got
        /\ producer = "running"
        /\ producer' = IF n = Over THEN "stopped" ELSE "running"
        /\ UNCHANGED <<consumer, main>>
    BY <1>2 DEF Put, Store, Signal
  <2>2. n \in Data /\ n <= Last
    BY <2>1, RingConstants DEF TypeOK, Data, Over
  <2>3. buffer' \in [Positions -> Data]
    BY <2>1, <2>2 DEF TypeOK
  <2>4. writepos' \in Positions /\ readpos' \in Positions
    BY <2>1, AfterType DEF TypeOK
  <2>5. n' \in 0 .. Last + 1 /\ (producer' = "running" => n' <= Over)
    BY <2>1, <2>2, RingConstants DEF TypeOK, Over
  <2> QED
    BY <2>1, <2>3, <2>4, <2>5 DEF TypeOK
<1> QED BY <1>1, <1>2

LEMMA GetTyped == ASSUME TypeOK, Get PROVE TypeOK'
<1>1. CASE Empty
  BY <1>1 DEF TypeOK, Get, Wait, ringVars
<1>2. CASE ~Empty
  <2>1. /\ got' = Append(got, buffer[readpos])
        /\ readpos' = After(readpos) /\ UNCHANGED <<buffer, writepos, n>>
        /\ consumer' = IF buffer[readpos] = Over THEN "stopped" ELSE "running"
        /\ waiting' = waiting \ {"producer"}
        /\ UNCHANGED <<producer, main>>
    BY <1>2 DEF Get, Signal
  <2>2. buffer[readpos] \in Data
    BY DEF TypeOK
  <2>3. got' \in Seq(Data)
    BY <2>1, <2>2 DEF TypeOK
  <2>4. readpos' \in Positions
    BY <2>1, AfterType DEF TypeOK
  <2> QED
    BY <2>1, <2>3, <2>4 DEF TypeOK
<1> QED BY <1>1, <1>2

LEMMA StepTyped == ASSUME TypeOK, [Next]_vars PROVE TypeOK'
<1>1. CASE SpuriousWake
  BY <1>1 DEF TypeOK, SpuriousWake, ringVars
<1>2. CASE Join
  BY <1>2 DEF TypeOK, Join, ringVars
<1>3. CASE UNCHANGED vars
  BY <1>3 DEF TypeOK, vars, ringVars
<1> QED BY <1>1, <1>2, <1>3, PutTyped, GetTyped DEF Next

\* The positions stay inside the buffer, and everything else in its type.
THEOREM RingTypeCorrect == Spec => []TypeOK
  BY InitTyped, StepTyped, PTL DEF Spec

----------------------------------------------------------------------------
(* The refinement *)

\* Count is a number below BUFFER_SIZE, and the slots it names are positions.
LEMMA CountType ==
  ASSUME TypeOK
  PROVE  /\ Count \in 0 .. BufferSize - 1
         /\ \A i \in 1 .. Count : Slot(i) \in Positions
  BY RingConstants DEF TypeOK, Count, Slot, Positions

\* A function on 1 .. m is a sequence of length m.
LEMMA SeqOfFunction ==
  ASSUME NEW D, NEW m \in Nat, NEW f \in [1 .. m -> D]
  PROVE  f \in Seq(D) /\ Len(f) = m
<1>1. f \in Seq(D)
  OBVIOUS
<1> QED BY <1>1, LenProperties

\* A sequence is what its elements are, and Append and Tail give these.
LEMMA AppendElements ==
  ASSUME NEW D, NEW s \in Seq(D), NEW d \in D, NEW m \in Nat, Len(s) = m,
         NEW t \in Seq(D), Len(t) = m + 1, t[m + 1] = d, \A i \in 1 .. m : t[i] = s[i]
  PROVE  t = Append(s, d)
  OBVIOUS

LEMMA TailElements ==
  ASSUME NEW D, NEW s \in Seq(D), NEW m \in Nat \ {0}, Len(s) = m,
         NEW t \in Seq(D), Len(t) = m - 1, \A i \in 1 .. m - 1 : t[i] = s[i + 1]
  PROVE  s # <<>> /\ t = Tail(s)
  OBVIOUS

LEMMA ContentsType ==
  ASSUME TypeOK
  PROVE  Contents \in [1 .. Count -> Data] /\ Contents \in Seq(Data) /\ Len(Contents) = Count
<1>1. Count \in Nat
  BY CountType, RingConstants
<1>2. \A i \in 1 .. Count : buffer[Slot(i)] \in Data
  BY CountType DEF TypeOK
<1>3. Contents \in [1 .. Count -> Data]
  BY <1>2 DEF Contents
<1> QED BY <1>1, <1>3, SeqOfFunction

\* A put that finds room appends to the contents.
LEMMA StoreAppends ==
  ASSUME TypeOK, ~Full, NEW d \in Data, Store(d)
  PROVE  Count < BufferSize - 1 /\ Contents' = Append(Contents, d)
<1>1. /\ buffer' = [buffer EXCEPT ![writepos] = d]
      /\ writepos' = After(writepos) /\ readpos' = readpos
  BY DEF Store
<1>2. Count < BufferSize - 1 /\ Count' = Count + 1 /\ Count \in Nat
  BY <1>1, RingConstants DEF TypeOK, Full, After, Count, Positions
<1>3. PICK m \in Nat : m = Count
  BY <1>2
<1>5. \A i \in 1 .. m : Slot(i)' = Slot(i) /\ Slot(i) # writepos /\ Slot(i) \in Positions
  BY <1>1, <1>3, RingConstants DEF TypeOK, Count, Slot, Positions
<1>6. Slot(m + 1)' = writepos
  BY <1>1, <1>3, RingConstants DEF TypeOK, Count, Slot, Positions
<1>7. \A i \in 1 .. m : Contents'[i] = Contents[i]
  <2>1. \A i \in 1 .. m : Contents[i] = buffer[Slot(i)] /\ Contents'[i] = buffer'[Slot(i)']
    BY <1>2, <1>3 DEF Contents
  <2> QED BY <1>1, <1>5, <2>1 DEF TypeOK
<1>8. Contents'[m + 1] = d
  <2>1. Contents'[m + 1] = buffer'[Slot(m + 1)']
    BY <1>2, <1>3 DEF Contents
  <2> QED BY <1>1, <1>6, <2>1 DEF TypeOK
<1>9. Contents \in Seq(Data) /\ Len(Contents) = m /\ Contents \in [1 .. m -> Data]
  BY <1>3, ContentsType
<1>10. Contents' \in Seq(Data) /\ Len(Contents') = m + 1
  <2>1. Contents' = [i \in 1 .. m + 1 |-> Contents'[i]]
    BY <1>2, <1>3 DEF Contents
  <2>2. \A i \in 1 .. m + 1 : Contents'[i] \in Data
    BY <1>7, <1>8, <1>9
  <2>3. Contents' \in [1 .. m + 1 -> Data]
    BY <2>1, <2>2
  <2> QED BY <2>3, SeqOfFunction
<1>11. Contents' = Append(Contents, d)
  BY <1>7, <1>8, <1>9, <1>10, AppendElements
<1> QED BY <1>2, <1>11

\* A get that finds something takes the first of the contents.
LEMMA GetTakes ==
  ASSUME TypeOK, ~Empty, readpos' = After(readpos), UNCHANGED <<buffer, writepos>>
  PROVE  Contents # <<>> /\ Contents' = Tail(Contents) /\ Head(Contents) = buffer[readpos]
<1>1. Count \in Nat /\ Count > 0 /\ Count' = Count - 1
  BY RingConstants DEF TypeOK, Empty, After, Count, Positions
<1>2. PICK m \in Nat \ {0} : m = Count
  BY <1>1
<1>3. \A i \in 1 .. m - 1 : Slot(i)' = Slot(i + 1)
  BY <1>1, <1>2, RingConstants DEF TypeOK, After, Count, Slot, Positions
<1>4. \A i \in 1 .. m - 1 : Contents'[i] = Contents[i + 1]
  BY <1>1, <1>2, <1>3 DEF Contents
<1>5. Contents \in Seq(Data) /\ Len(Contents) = m /\ Contents \in [1 .. m -> Data]
  BY <1>2, ContentsType
<1>6. Contents' \in Seq(Data) /\ Len(Contents') = m - 1
  <2>1. Contents' = [i \in 1 .. m - 1 |-> Contents'[i]]
    BY <1>1, <1>2 DEF Contents
  <2>2. \A i \in 1 .. m - 1 : Contents'[i] \in Data
    BY <1>4, <1>5
  <2>3. Contents' \in [1 .. m - 1 -> Data]
    BY <2>1, <2>2
  <2> QED BY <2>3, SeqOfFunction
<1>7. Contents[1] = buffer[readpos]
  <2>1. Slot(1) = readpos
    BY RingConstants DEF TypeOK, Slot, Positions
  <2> QED BY <1>2, <2>1 DEF Contents
<1>8. Contents # <<>> /\ Contents' = Tail(Contents)
  BY <1>4, <1>5, <1>6, TailElements
<1> QED BY <1>5, <1>7, <1>8

\* A step that leaves the ring alone leaves the contents alone.
LEMMA RingUnchanged == ASSUME UNCHANGED <<ringVars, got>> PROVE UNCHANGED <<Contents, Delivered>>
  BY DEF ringVars, Contents, Count, Slot, Delivered

LEMMA PutStep == ASSUME TypeOK, Put PROVE Fifo!Next \/ UNCHANGED <<Contents, Delivered>>
<1>1. CASE Full
  BY <1>1, RingUnchanged DEF Put, Wait
<1>2. CASE ~Full
  <2>1. Store(n) /\ producer = "running"
    BY <1>2 DEF Put
  <2>2. n \in Data
    BY <2>1, RingConstants DEF TypeOK, Data, Over
  <2>3. Count < BufferSize - 1 /\ Contents' = Append(Contents, n)
    BY <1>2, <2>1, <2>2, StoreAppends
  <2>4. Len(Contents) = Count
    BY CountType, RingConstants DEF Contents
  <2>5. UNCHANGED Delivered
    BY <1>2 DEF Put, Delivered
  <2> QED BY <2>2, <2>3, <2>4, <2>5 DEF Fifo!Next, Fifo!Put
<1> QED BY <1>1, <1>2

LEMMA GetStep == ASSUME TypeOK, Get PROVE Fifo!Next \/ UNCHANGED <<Contents, Delivered>>
<1>1. CASE Empty
  BY <1>1, RingUnchanged DEF Get, Wait
<1>2. CASE ~Empty
  <2>1. readpos' = After(readpos) /\ UNCHANGED <<buffer, writepos>>
    BY <1>2 DEF Get
  <2>2. Contents # <<>> /\ Contents' = Tail(Contents) /\ Head(Contents) = buffer[readpos]
    BY <1>2, <2>1, GetTakes
  <2>3. Delivered' = buffer[readpos]
    <3>1. got' = Append(got, buffer[readpos]) /\ got \in Seq(Data) /\ buffer[readpos] \in Data
      BY <1>2 DEF Get, TypeOK
    <3>2. got' # <<>> /\ got'[Len(got')] = buffer[readpos]
      BY <3>1
    <3> QED BY <3>2 DEF Delivered
  <2> QED BY <2>2, <2>3 DEF Fifo!Next, Fifo!Take
<1> QED BY <1>1, <1>2

\* The ring buffer of cus_pro_queue.c is a queue of capacity BUFFER_SIZE - 1: every
\* put appends, every get takes the oldest, and all other steps stutter.
THEOREM RingImplementsFifo == Spec => RingRefinesFifo
<1>1. ASSUME Init PROVE Fifo!Init
  <2>1. Count = 0
    BY <1>1, RingConstants DEF Init, Count
  <2>2. Contents = <<>>
    BY <2>1 DEF Contents
  <2>3. Delivered \in Data
    BY <1>1, RingConstants DEF Init, Delivered, Data, Over
  <2> QED BY <2>2, <2>3 DEF Fifo!Init
<1>2. ASSUME TypeOK, [Next]_vars PROVE [Fifo!Next]_<<Contents, Delivered>>
  <2>1. CASE SpuriousWake \/ Join \/ UNCHANGED vars
    BY <2>1, RingUnchanged DEF SpuriousWake, Join, vars
  <2> QED BY <1>2, <2>1, PutStep, GetStep DEF Next
<1> QED BY <1>1, <1>2, RingTypeCorrect, PTL DEF Spec, RingRefinesFifo, Fifo!Spec

----------------------------------------------------------------------------
(* The linked work queue.  QueueShape, with the types, is inductive: it    *)
(* relates the links to the history of what is due, and says that the tail *)
(* is right where it is used, although queue_pop does not maintain it.     *)

QueueInv == QueueTypeOK /\ QueueShape

LEMMA QueueInitInv == ASSUME QueueInit PROVE QueueInv
<1>1. QueueTypeOK
  BY QueueConstants DEF QueueInit, QueueTypeOK, Pointers
<1>2. items = <<>> /\ Len(items) = 0
  BY DEF QueueInit
<1>3. QueueShape
  BY <1>2, QueueConstants DEF QueueInit, QueueShape, Pointers
<1> QED BY <1>1, <1>3 DEF QueueInv

\* What Append, Tail and a new head do to the elements.
LEMMA AppendAt ==
  ASSUME NEW D, NEW s \in Seq(D), NEW d \in D
  PROVE  /\ Append(s, d) \in Seq(D) /\ Len(Append(s, d)) = Len(s) + 1
         /\ Append(s, d)[Len(s) + 1] = d
         /\ \A i \in 1 .. Len(s) : Append(s, d)[i] = s[i]
  OBVIOUS

LEMMA TailAt ==
  ASSUME NEW D, NEW s \in Seq(D), s # <<>>
  PROVE  /\ Tail(s) \in Seq(D) /\ Len(Tail(s)) = Len(s) - 1 /\ Len(s) \in Nat \ {0}
         /\ \A i \in 1 .. Len(s) - 1 : Tail(s)[i] = s[i + 1]
         /\ Head(s) = s[1]
  OBVIOUS

LEMMA PrependAt ==
  ASSUME NEW D, NEW s \in Seq(D), NEW d \in D
  PROVE  /\ <<d>> \o s \in Seq(D) /\ Len(<<d>> \o s) = Len(s) + 1
         /\ (<<d>> \o s)[1] = d
         /\ \A i \in 1 .. Len(s) : (<<d>> \o s)[i + 1] = s[i]
  OBVIOUS

\* An insert that finds room links the node behind the last one.
LEMMA InsertInv ==
  ASSUME QueueInv, QueueInsert
  PROVE  QueueInv' /\ (Queue!Put \/ UNCHANGED <<items, buf>>)
<1>1. PICK node \in Nodes \ live :
       /\ phase = "open" /\ live' = live \cup {node}
       /\ IF size = QueueCapacity THEN UNCHANGED <<links, tail, size, items>>
          ELSE /\ links' = Linked(IF size = 0 THEN Dummy ELSE tail, node)
               /\ tail' = node /\ size' = size + 1 /\ items' = Append(items, node)
       /\ UNCHANGED <<held, buf, phase>>
  BY DEF QueueInsert
<1>2. CASE size = QueueCapacity
  <2>1. UNCHANGED <<links, tail, size, items, held, buf, phase>> /\ live' = live \cup {node}
    BY <1>1, <1>2
  <2> QED BY <2>1 DEF QueueInv, QueueTypeOK, QueueShape
<1>3. CASE size # QueueCapacity
  <2> DEFINE m == Len(items)
             p == IF size = 0 THEN Dummy ELSE tail
  <2>1. /\ links' = [links EXCEPT ![node] = Null, ![p] = node]
        /\ tail' = node /\ size' = size + 1 /\ items' = Append(items, node)
        /\ live' = live \cup {node} /\ UNCHANGED <<held, buf, phase>> /\ phase = "open"
    BY <1>1, <1>3 DEF Linked
  <2>2. items \in Seq(Nodes) /\ m \in Nat /\ size = m /\ m < QueueCapacity
    BY <1>1, <1>3, QueueConstants DEF QueueInv, QueueTypeOK, QueueShape
  <2>3. /\ items' \in Seq(Nodes) /\ Len(items') = m + 1 /\ items'[m + 1] = node
        /\ \A i \in 1 .. m : items'[i] = items[i]
    BY <2>1, <2>2, AppendAt
  <2>4. /\ m = 0 => p = Dummy
        /\ m # 0 => p = items[m]
    BY <2>1, <2>2 DEF QueueInv, QueueShape
  <2>5. \A i \in 1 .. m : items[i] \in Nodes /\ items[i] # node /\ items[i] # Dummy
    BY <2>2, QueueConstants DEF QueueInv, QueueTypeOK, QueueShape
  <2>6. p \in Pointers /\ p # node /\ node \in Pointers /\ node # Dummy
    BY <2>2, <2>4, <2>5, QueueConstants DEF Pointers
  <2>7. QueueTypeOK'
    BY <2>1, <2>2, <2>3, <2>6, QueueConstants DEF QueueInv, QueueTypeOK, Pointers
  <2>8. /\ links'[p] = node /\ links'[node] = Null
        /\ \A q \in Pointers \ {p, node} : links'[q] = links[q]
    BY <2>1, <2>6 DEF QueueInv, QueueTypeOK
  <2>9. \A i, j \in 1 .. Len(items') : items'[i] = items'[j] => i = j
    BY <2>2, <2>3, <2>5 DEF QueueInv, QueueShape
  <2>10. \A i \in 1 .. Len(items') : items'[i] \in live' \ held'
    BY <2>1, <2>2, <2>3 DEF QueueInv, QueueTypeOK, QueueShape
  <2>11. links'[Dummy] = items'[1]
    <3>1. CASE m = 0
      BY <3>1, <2>3, <2>4, <2>8
    <3>2. CASE m # 0
      <4>1. p # Dummy /\ Dummy \in Pointers
        BY <3>2, <2>2, <2>4, <2>5 DEF Pointers
      <4>2. links'[Dummy] = links[Dummy]
        BY <4>1, <2>6, <2>8
      <4>3. links[Dummy] = items[1]
        BY <3>2, <2>2 DEF QueueInv, QueueShape
      <4> QED BY <4>2, <4>3, <3>2, <2>2, <2>3
    <3> QED BY <3>1, <3>2
  <2>12. ASSUME NEW i \in 1 .. Len(items')
         PROVE  links'[items'[i]] = IF i = Len(items') THEN Null ELSE items'[i + 1]
    <3>1. CASE i = m + 1
      BY <3>1, <2>3, <2>8
    <3>2. CASE i = m
      BY <3>2, <2>2, <2>3, <2>4, <2>8
    <3>3. CASE i < m
      <4>1. items[i] # p /\ items[i] # node /\ items[i] \in Pointers
        BY <3>3, <2>2, <2>3, <2>4, <2>5 DEF QueueInv, QueueShape, Pointers
      <4>2. links[items[i]] = items[i + 1]
        BY <3>3, <2>2, <2>3 DEF QueueInv, QueueShape
      <4> QED BY <4>1, <4>2, <3>3, <2>2, <2>3, <2>8
    <3> QED BY <3>1, <3>2, <3>3, <2>2, <2>3
  <2>13. QueueShape'
    <3>1. items' # <<>>
      BY <2>2, <2>3
    <3>2. size' = Len(items') /\ size' <= QueueCapacity /\ tail' = items'[Len(items')]
      BY <2>1, <2>2, <2>3, QueueConstants
    <3> QED BY <2>1, <2>9, <2>10, <2>11, <2>12, <3>1, <3>2 DEF QueueShape
  <2>14. Queue!Put
    BY <2>1, <2>2 DEF Queue!Put
  <2> QED BY <2>7, <2>13, <2>14 DEF QueueInv
<1> QED BY <1>2, <1>3

\* Unlinking the first node delivers what is due first, and leaves the list of
\* the others.
LEMMA UnlinkFirst ==
  ASSUME QueueInv, Unlink, items # <<>>
  PROVE  /\ buf' = Head(items) /\ buf' = items[1] /\ buf' \in live \ held
         /\ items' = Tail(items) /\ items' \in Seq(Nodes)
         /\ Len(items') = Len(items) - 1 /\ Len(items) \in Nat \ {0}
         /\ \A i \in 1 .. Len(items') : items'[i] = items[i + 1]
         /\ links' \in [Pointers -> Pointers \cup {Null}]
         /\ \A i, j \in 1 .. Len(items') : items'[i] = items'[j] => i = j
         /\ \A i \in 1 .. Len(items') : items'[i] \in live \ held /\ items'[i] # buf'
         /\ links'[Dummy] = IF items' = <<>> THEN Null ELSE items'[1]
         /\ \A i \in 1 .. Len(items') :
               links'[items'[i]] = IF i = Len(items') THEN Null ELSE items'[i + 1]
<1> DEFINE m == Len(items)
<1>1. items \in Seq(Nodes) /\ links \in [Pointers -> Pointers \cup {Null}]
  BY DEF QueueInv, QueueTypeOK
<1>2. m \in Nat \ {0} /\ Head(items) = items[1]
  BY <1>1, TailAt
<1>3. buf' = items[1] /\ links' = [links EXCEPT ![Dummy] = links[buf']] /\ items' = Tail(items)
  BY DEF Unlink, QueueInv, QueueShape
<1>4. /\ items' \in Seq(Nodes) /\ Len(items') = m - 1
      /\ \A i \in 1 .. m - 1 : items'[i] = items[i + 1]
  BY <1>1, <1>3, TailAt
<1>5. buf' \in live \ held /\ buf' \in Nodes
  BY <1>1, <1>2, <1>3 DEF QueueInv, QueueShape
<1>6. links' \in [Pointers -> Pointers \cup {Null}]
  BY <1>1, <1>3, <1>5 DEF Pointers
<1>7. \A i, j \in 1 .. m : items[i] = items[j] => i = j
  BY DEF QueueInv, QueueShape
<1>8. \A i, j \in 1 .. Len(items') : items'[i] = items'[j] => i = j
  BY <1>2, <1>4, <1>7
<1>9. ASSUME NEW i \in 1 .. Len(items')
      PROVE  items'[i] \in live \ held /\ items'[i] # buf'
  <2>1. items'[i] = items[i + 1] /\ i + 1 \in 1 .. m /\ i + 1 # 1 /\ 1 \in 1 .. m
    BY <1>2, <1>4
  <2>2. items[i + 1] \in live \ held
    BY <2>1 DEF QueueInv, QueueShape
  <2> QED BY <2>1, <2>2, <1>3, <1>7
<1>10. \A i \in 1 .. m : links[items[i]] = IF i = m THEN Null ELSE items[i + 1]
  BY DEF QueueInv, QueueShape
<1>11. links'[Dummy] = IF items' = <<>> THEN Null ELSE items'[1]
  <2>1. links'[Dummy] = links[items[1]]
    BY <1>1, <1>3 DEF Pointers
  <2>2. CASE m = 1
    <3>1. links[items[1]] = Null
      BY <2>2, <1>10
    <3>2. items' = <<>>
      BY <2>2, <1>4
    <3> QED BY <2>1, <3>1, <3>2
  <2>3. CASE m # 1
    <3>1. links[items[1]] = items[2] /\ items'[1] = items[2] /\ items' # <<>>
      BY <2>3, <1>2, <1>4, <1>10
    <3> QED BY <2>1, <3>1
  <2> QED BY <2>2, <2>3
<1>12. ASSUME NEW i \in 1 .. Len(items')
       PROVE  links'[items'[i]] = IF i = Len(items') THEN Null ELSE items'[i + 1]
  <2>1. items'[i] = items[i + 1] /\ i + 1 \in 1 .. m
    BY <1>2, <1>4
  <2>2. items[i + 1] \in Pointers /\ items[i + 1] # Dummy
    BY <2>1, <1>1, QueueConstants DEF Pointers
  <2>3. links'[items[i + 1]] = links[items[i + 1]]
    BY <2>2, <1>1, <1>3
  <2>4. links[items[i + 1]] = IF i + 1 = m THEN Null ELSE items[i + 2]
    BY <2>1, <1>10
  <2>5. CASE i + 1 = m
    BY <2>1, <2>3, <2>4, <2>5, <1>4
  <2>6. CASE i + 1 # m
    BY <2>1, <2>3, <2>4, <2>6, <1>2, <1>4
  <2> QED BY <2>5, <2>6
<1> QED BY <1>2, <1>3, <1>4, <1>5, <1>6, <1>8, <1>9, <1>11, <1>12

LEMMA PopInv ==
  ASSUME QueueInv, QueuePop
  PROVE  QueueInv' /\ Queue!Take
<1>1. /\ phase \in {"open", "closing"} /\ size # 0 /\ Unlink
      /\ size' = size - 1 /\ held' = held \cup {buf'} /\ UNCHANGED <<tail, live, phase>>
  BY DEF QueuePop
<1>2. size = Len(items) /\ items # <<>>
  BY <1>1 DEF QueueInv, QueueTypeOK, QueueShape
<1>3. /\ buf' = Head(items) /\ buf' = items[1] /\ buf' \in live \ held
      /\ items' = Tail(items) /\ items' \in Seq(Nodes)
      /\ Len(items') = Len(items) - 1 /\ Len(items) \in Nat \ {0}
      /\ \A i \in 1 .. Len(items') : items'[i] = items[i + 1]
      /\ links' \in [Pointers -> Pointers \cup {Null}]
      /\ \A i, j \in 1 .. Len(items') : items'[i] = items'[j] => i = j
      /\ \A i \in 1 .. Len(items') : items'[i] \in live \ held /\ items'[i] # buf'
      /\ links'[Dummy] = IF items' = <<>> THEN Null ELSE items'[1]
      /\ \A i \in 1 .. Len(items') :
            links'[items'[i]] = IF i = Len(items') THEN Null ELSE items'[i + 1]
  BY <1>1, <1>2, UnlinkFirst
<1>4. QueueTypeOK'
  BY <1>1, <1>2, <1>3 DEF QueueInv, QueueTypeOK
<1>5. \A i \in 1 .. Len(items') : items'[i] \in live' \ held'
  BY <1>1, <1>3
<1>6. size' = Len(items') /\ (phase = "open" => size' <= QueueCapacity)
  BY <1>1, <1>2, <1>3, QueueConstants DEF QueueInv, QueueShape
<1>7. phase' = "open" /\ size' # 0 => tail' = items'[Len(items')]
  <2>1. SUFFICES ASSUME phase = "open", size' # 0 PROVE tail = items'[Len(items')]
    BY <1>1
  <2>2. tail = items[Len(items)]
    BY <2>1, <1>1 DEF QueueInv, QueueShape
  <2>3. Len(items') \in 1 .. Len(items') /\ Len(items') + 1 = Len(items)
    BY <2>1, <1>1, <1>2, <1>3, <1>6
  <2>4. items'[Len(items')] = items[Len(items') + 1]
    BY <2>3, <1>3
  <2> QED BY <2>2, <2>3, <2>4
<1>8. QueueShape'
  BY <1>1, <1>3, <1>5, <1>6, <1>7 DEF QueueShape
<1> QED BY <1>2, <1>3, <1>4, <1>8 DEF QueueInv, Queue!Take

LEMMA FreeInv ==
  ASSUME QueueInv, FreeTask
  PROVE  QueueInv' /\ UNCHANGED <<items, buf>>
<1>1. PICK node \in held, garbage \in Pointers \cup {Null} :
        /\ held' = held \ {node} /\ live' = live \ {node}
        /\ links' = [links EXCEPT ![node] = garbage]
        /\ UNCHANGED <<tail, size, buf, phase, items>>
  BY DEF FreeTask
<1>2. node \in Nodes /\ node # Dummy
  BY QueueConstants DEF QueueInv, QueueTypeOK
<1>3. QueueTypeOK'
  BY <1>1, <1>2 DEF QueueInv, QueueTypeOK
<1>4. \A i \in 1 .. Len(items) : items[i] \in live' \ held' /\ items[i] # node /\ items[i] \in Pointers
  BY <1>1 DEF QueueInv, QueueTypeOK, QueueShape, Pointers
<1>5. links'[Dummy] = links[Dummy] /\ \A i \in 1 .. Len(items) : links'[items[i]] = links[items[i]]
  BY <1>1, <1>2, <1>4 DEF QueueInv, QueueTypeOK, Pointers
<1>6. QueueShape'
  BY <1>1, <1>4, <1>5 DEF QueueInv, QueueShape
<1> QED BY <1>1, <1>3, <1>6 DEF QueueInv

\* The exit node is linked before the others, with a tail that may be wrong: no
\* insert follows.
LEMMA ExitInv ==
  ASSUME QueueInv, QueueHeadInsertExit
  PROVE  QueueInv' /\ Queue!PutFirst
<1> DEFINE m == Len(items)
<1>1. PICK node \in Nodes \ live :
        /\ phase = "open" /\ phase' = "closing" /\ live' = live \cup {node}
        /\ links' = [links EXCEPT ![node] = links[Dummy], ![Dummy] = node]
        /\ size' = size + 1 /\ items' = <<node>> \o items
        /\ UNCHANGED <<tail, held, buf>>
  BY DEF QueueHeadInsertExit
<1>2. items \in Seq(Nodes) /\ links \in [Pointers -> Pointers \cup {Null}] /\ m \in Nat
  BY DEF QueueInv, QueueTypeOK
<1>3. /\ items' \in Seq(Nodes) /\ Len(items') = m + 1 /\ items'[1] = node
      /\ \A i \in 1 .. m : items'[i + 1] = items[i]
  BY <1>1, <1>2, PrependAt
<1>4. node # Dummy /\ node \in Pointers /\ Dummy \in Pointers
  BY QueueConstants DEF Pointers
<1>5. /\ links'[node] = links[Dummy] /\ links'[Dummy] = node
      /\ \A q \in Pointers \ {node, Dummy} : links'[q] = links[q]
  BY <1>1, <1>2, <1>4
<1>6. \A i \in 1 .. m : items[i] \in Pointers \ {node, Dummy}
  BY <1>2, QueueConstants DEF QueueInv, QueueShape, Pointers
<1>7. QueueTypeOK'
  <2>1. links' \in [Pointers -> Pointers \cup {Null}]
    BY <1>1, <1>2, <1>4
  <2>2. size' \in Nat /\ live' \subseteq Nodes /\ held' \subseteq live'
    BY <1>1 DEF QueueInv, QueueTypeOK
  <2> QED BY <2>1, <2>2, <1>1, <1>3 DEF QueueInv, QueueTypeOK
<1>8. \A i \in 1 .. Len(items') : i # 1 => i - 1 \in 1 .. m /\ items'[i] = items[i - 1]
  <2>1. TAKE i \in 1 .. Len(items')
  <2>2. HAVE i # 1
  <2>3. i - 1 \in 1 .. m /\ (i - 1) + 1 = i
    BY <2>2, <1>2, <1>3
  <2> QED BY <2>3, <1>3
<1>9. ASSUME NEW i \in 1 .. Len(items'), NEW j \in 1 .. Len(items'), items'[i] = items'[j]
      PROVE  i = j
  <2>1. \A k, l \in 1 .. m : items[k] = items[l] => k = l
    BY DEF QueueInv, QueueShape
  <2>2. CASE i = 1 \/ j = 1
    BY <2>2, <1>3, <1>6, <1>8, <1>9
  <2>3. CASE i # 1 /\ j # 1
    <3>1. i - 1 = j - 1
      BY <2>1, <2>3, <1>8, <1>9
    <3> QED BY <3>1, <1>2, <1>3
  <2> QED BY <2>2, <2>3
<1>10. \A i \in 1 .. Len(items') : items'[i] \in live' \ held'
  <2>1. node \in live' \ held'
    BY <1>1 DEF QueueInv, QueueTypeOK
  <2>2. \A i \in 1 .. m : items[i] \in live' \ held'
    BY <1>1 DEF QueueInv, QueueShape
  <2> QED BY <2>1, <2>2, <1>3, <1>8
<1>11. ASSUME NEW i \in 1 .. Len(items')
       PROVE  links'[items'[i]] = IF i = Len(items') THEN Null ELSE items'[i + 1]
  <2>1. CASE i = 1
    <3>1. links'[items'[i]] = links[Dummy]
      BY <2>1, <1>3, <1>5
    <3>2. links[Dummy] = IF items = <<>> THEN Null ELSE items[1]
      BY DEF QueueInv, QueueShape
    <3>3. CASE m = 0
      BY <2>1, <3>1, <3>2, <3>3, <1>2, <1>3
    <3>4. CASE m # 0
      <4>1. items # <<>> /\ 1 \in 1 .. m
        BY <3>4, <1>2
      <4>2. items'[1 + 1] = items[1]
        BY <4>1, <1>3
      <4> QED BY <2>1, <3>1, <3>2, <3>4, <4>1, <4>2, <1>2, <1>3
    <3> QED BY <3>3, <3>4
  <2>2. CASE i # 1
    <3>1. i - 1 \in 1 .. m /\ items'[i] = items[i - 1]
      BY <2>2, <1>8
    <3>2. links'[items'[i]] = links[items[i - 1]]
      BY <3>1, <1>5, <1>6
    <3>3. links[items[i - 1]] = IF i - 1 = m THEN Null ELSE items[(i - 1) + 1]
      BY <3>1 DEF QueueInv, QueueShape
    <3>4. CASE i - 1 = m
      BY <3>2, <3>3, <3>4, <1>2, <1>3
    <3>5. CASE i - 1 # m
      <4>1. i \in 1 .. m /\ (i - 1) + 1 = i /\ i # Len(items')
        BY <3>1, <3>5, <1>2, <1>3
      <4>2. items'[i + 1] = items[i]
        BY <4>1, <1>3
      <4> QED BY <3>2, <3>3, <3>5, <4>1, <4>2
    <3> QED BY <3>4, <3>5
  <2> QED BY <2>1, <2>2
<1>12. QueueShape'
  <2>1. items' # <<>> /\ links'[Dummy] = items'[1]
    BY <1>2, <1>3, <1>5
  <2>2. size' = Len(items') /\ phase' = "closing"
    BY <1>1, <1>2, <1>3 DEF QueueInv, QueueShape
  <2> QED BY <2>1, <2>2, <1>9, <1>10, <1>11 DEF QueueShape
<1>13. Queue!PutFirst
  BY <1>1 DEF Queue!PutFirst
<1> QED BY <1>7, <1>12, <1>13 DEF QueueInv

LEMMA DeleteInv ==
  ASSUME QueueInv, QueueDelete
  PROVE  QueueInv' /\ (Queue!Take \/ UNCHANGED <<items, buf>>)
<1>1. CASE links[Dummy] # Null
  <2>1. /\ Unlink /\ live' = live \ {buf'} /\ phase' = "deleting"
        /\ UNCHANGED <<size, tail, held>> /\ held = {}
    BY <1>1 DEF QueueDelete
  <2>2. items # <<>>
    BY <1>1 DEF QueueInv, QueueShape
  <2>3. /\ buf' = Head(items) /\ buf' = items[1] /\ buf' \in live \ held
        /\ items' = Tail(items) /\ items' \in Seq(Nodes)
        /\ Len(items') = Len(items) - 1 /\ Len(items) \in Nat \ {0}
        /\ \A i \in 1 .. Len(items') : items'[i] = items[i + 1]
        /\ links' \in [Pointers -> Pointers \cup {Null}]
        /\ \A i, j \in 1 .. Len(items') : items'[i] = items'[j] => i = j
        /\ \A i \in 1 .. Len(items') : items'[i] \in live \ held /\ items'[i] # buf'
        /\ links'[Dummy] = IF items' = <<>> THEN Null ELSE items'[1]
        /\ \A i \in 1 .. Len(items') :
              links'[items'[i]] = IF i = Len(items') THEN Null ELSE items'[i + 1]
    BY <2>1, <2>2, UnlinkFirst
  <2>4. QueueTypeOK'
    BY <2>1, <2>3 DEF QueueInv, QueueTypeOK
  <2>5. \A i \in 1 .. Len(items') : items'[i] \in live' \ held'
    BY <2>1, <2>3
  <2>6. QueueShape'
    BY <2>1, <2>3, <2>5 DEF QueueShape
  <2> QED BY <2>2, <2>3, <2>4, <2>6 DEF QueueInv, Queue!Take
<1>2. CASE links[Dummy] = Null
  <2>1. phase' = "deleted" /\ size' = 0 /\ UNCHANGED <<links, live, buf, items, tail, held>>
    BY <1>2 DEF QueueDelete
  <2>2. items = <<>>
    <3>1. SUFFICES ASSUME items # <<>> PROVE FALSE
      OBVIOUS
    <3>2. items[1] \in Nodes
      BY <3>1 DEF QueueInv, QueueTypeOK
    <3> QED BY <1>2, <3>1, <3>2, QueueConstants DEF QueueInv, QueueShape
  <2> QED BY <2>1, <2>2 DEF QueueInv, QueueTypeOK, QueueShape
<1> QED BY <1>1, <1>2

LEMMA QueueStep ==
  ASSUME QueueInv, [QueueNext]_queueVars
  PROVE  QueueInv' /\ [Queue!Next]_<<items, buf>>
<1>1. CASE UNCHANGED queueVars
  BY <1>1 DEF queueVars, QueueInv, QueueTypeOK, QueueShape
<1>2. CASE QueueNext
  BY <1>2, InsertInv, PopInv, FreeInv, ExitInv, DeleteInv DEF QueueNext, Queue!Next
<1> QED BY <1>1, <1>2

\* Whatever the callers do, the links lead through exactly the nodes that are due,
\* all of them allocated, and queue_insert finds the tail right.
THEOREM QueueShapeKept == QueueSpec => [](QueueTypeOK /\ QueueShape)
<1>1. QueueSpec => []QueueInv
  BY QueueInitInv, QueueStep, PTL DEF QueueSpec
<1> QED BY <1>1 DEF QueueInv

\* The linked list of work_queue.c implements a bounded queue.
THEOREM LinkedImplementsFifo == QueueSpec => LinkedRefinesFifo
<1>1. QueueInit => Queue!Init
  BY DEF QueueInit, Queue!Init
<1>2. QueueSpec => []QueueInv
  BY QueueInitInv, QueueStep, PTL DEF QueueSpec
<1> QED BY <1>1, <1>2, QueueStep, PTL DEF QueueSpec, LinkedRefinesFifo, Queue!Spec

----------------------------------------------------------------------------
(* The ticket sale.  TotalSold is a sum over the windows, and two facts    *)
(* about sums are needed: nothing sold makes 0, one ticket more makes one  *)
(* more.  A sum is a recursive function, so its existence comes first.     *)

\* g holds the sums of f over the first windows; SoldBy are the sums of sold.
Sums(f, g) == g = [w \in 0 .. SaleWindows |-> IF w = 0 THEN 0 ELSE g[w - 1] + f[w]]

\* A set of numbers has a least one.
LEMMA LeastNumber == ASSUME NEW S \in SUBSET Nat, S # {} PROVE \E m \in S : \A l \in S : m <= l
<1> DEFINE Lt == {p \in Nat \X Nat : p[1] < p[2]}
<1>1. IsWellFoundedOn(Lt, Nat)
  BY NatLessThanWellFounded DEF OpToRel
<1>2. PICK m \in S : \A l \in S : ~(<<l, m>> \in Lt)
  BY <1>1, WFMin
<1>3. \A x, y \in Nat : x < y => <<x, y>> \in Lt
  BY DEF Lt
<1>4. \A x, y \in Nat : ~(x < y) => y <= x
  OBVIOUS
<1>5. \A l \in S : m <= l
  BY <1>2, <1>3, <1>4
<1> QED BY <1>5

\* The sums exist: the first window up to which there were none would have one more.
LEMMA SumsExist == ASSUME NEW f \in [Windows -> Nat] PROVE \E g : Sums(f, g)
<1> DEFINE UpTo(k, g) == g = [w \in 0 .. k |-> IF w = 0 THEN 0 ELSE g[w - 1] + f[w]]
           Bad == {k \in 0 .. SaleWindows : ~ \E g : UpTo(k, g)}
<1>1. SUFFICES ASSUME Bad # {} PROVE FALSE
  <2>1. SaleWindows \notin Bad => \E g : UpTo(SaleWindows, g)
    BY SaleConstants
  <2> QED BY <2>1 DEF Sums
<1>2. PICK m \in Bad : \A l \in Bad : m <= l
  <2>1. Bad \in SUBSET Nat
    OBVIOUS
  <2> HIDE DEF Bad
  <2> QED BY <1>1, <2>1, LeastNumber
<1>3. CASE m = 0
  <2>1. UpTo(0, [w \in 0 .. 0 |-> 0])
    OBVIOUS
  <2> QED BY <1>2, <1>3, <2>1
<1>4. CASE m # 0
  <2>1. m - 1 \in 0 .. SaleWindows /\ m - 1 \notin Bad /\ m \in 1 .. SaleWindows
    <3>1. m \in 0 .. SaleWindows
      BY <1>2
    <3>2. m - 1 \in 0 .. SaleWindows /\ m \in 1 .. SaleWindows /\ ~(m <= m - 1)
      BY <3>1, <1>4, SaleConstants
    <3> HIDE DEF Bad
    <3> QED BY <3>2, <1>2
  <2>2. PICK g : UpTo(m - 1, g)
    BY <2>1
  <2> DEFINE h == [w \in 0 .. m |-> IF w = m THEN g[m - 1] + f[m] ELSE g[w]]
  <2>3. ASSUME NEW w \in 0 .. m PROVE h[w] = IF w = 0 THEN 0 ELSE h[w - 1] + f[w]
    BY <2>1, <2>2, <2>3
  <2>4. UpTo(m, h)
    BY <2>3
  <2> QED BY <1>2, <2>4
<1> QED BY <1>3, <1>4

\* What a sum is, entry by entry.
LEMMA SumsRule ==
    ASSUME NEW f, NEW g, Sums(f, g)
    PROVE  g[0] = 0 /\ \A w \in 1 .. SaleWindows : g[w] = g[w - 1] + f[w]
<1>1. ASSUME NEW w \in 0 .. SaleWindows PROVE g[w] = IF w = 0 THEN 0 ELSE g[w - 1] + f[w]
  BY Zenon DEF Sums
<1> HIDE DEF Sums
<1>2. 0 \in 0 .. SaleWindows /\ \A w \in 1 .. SaleWindows : w \in 0 .. SaleWindows /\ w # 0
  BY SaleConstants
<1> QED BY <1>1, <1>2

\* Sums are numbers.
LEMMA SumsTyped ==
    ASSUME NEW f \in [Windows -> Nat], NEW g, Sums(f, g)
    PROVE  \A w \in 0 .. SaleWindows : g[w] \in Nat
<1> DEFINE Bad == {k \in 0 .. SaleWindows : g[k] \notin Nat}
<1>1. SUFFICES ASSUME Bad # {} PROVE FALSE
  OBVIOUS
<1>2. PICK m \in Bad : \A l \in Bad : m <= l
  <2>1. Bad \in SUBSET Nat
    BY SaleConstants
  <2> HIDE DEF Bad
  <2> QED BY <1>1, <2>1, LeastNumber
<1>3. g[0] = 0 /\ \A w \in 1 .. SaleWindows : g[w] = g[w - 1] + f[w]
  BY SumsRule
<1>4. m \in 1 .. SaleWindows /\ m - 1 \in 0 .. SaleWindows
  BY <1>2, <1>3, SaleConstants
<1>5. g[m - 1] \in Nat /\ f[m] \in Nat
  BY <1>2, <1>4 DEF Windows
<1> QED BY <1>2, <1>3, <1>4, <1>5

\* Nothing sold yet adds up to 0.
LEMMA SumOfNothing ==
    ASSUME NEW g, Sums([w \in Windows |-> 0], g)
    PROVE  g[SaleWindows] = 0
<1> DEFINE Bad == {k \in 0 .. SaleWindows : g[k] # 0}
<1>1. SUFFICES ASSUME Bad # {} PROVE FALSE
  BY SaleConstants
<1>2. PICK m \in Bad : \A l \in Bad : m <= l
  <2>1. Bad \in SUBSET Nat
    BY SaleConstants
  <2> HIDE DEF Bad
  <2> QED BY <1>1, <2>1, LeastNumber
<1>3. g[0] = 0 /\ \A w \in 1 .. SaleWindows : g[w] = g[w - 1] + 0
  <2> DEFINE f == [w \in Windows |-> 0]
  <2>1. g[0] = 0 /\ \A w \in 1 .. SaleWindows : g[w] = g[w - 1] + f[w]
    <3> HIDE DEF f
    <3>1. Sums(f, g)
      BY DEF f
    <3> QED BY <3>1, SumsRule
  <2> QED BY <2>1 DEF Windows
<1>4. m \in 1 .. SaleWindows /\ m - 1 \in 0 .. SaleWindows
  BY <1>2, <1>3, SaleConstants
<1> QED BY <1>2, <1>3, <1>4

\* One ticket more at one window is one more in the sum.
LEMMA SumOfOneMore ==
    ASSUME NEW f \in [Windows -> Nat], NEW g, Sums(f, g), NEW v \in Windows,
           NEW h, Sums([f EXCEPT ![v] = @ + 1], h)
    PROVE  h[SaleWindows] = g[SaleWindows] + 1
<1> DEFINE More(k) == IF k < v THEN g[k] ELSE g[k] + 1
           Bad == {k \in 0 .. SaleWindows : h[k] # More(k)}
<1>1. SUFFICES ASSUME Bad # {} PROVE FALSE
  BY SaleConstants DEF Windows
<1>2. PICK m \in Bad : \A l \in Bad : m <= l
  <2>1. Bad \in SUBSET Nat
    BY SaleConstants
  <2> HIDE DEF Bad
  <2> QED BY <1>1, <2>1, LeastNumber
<1>3. /\ g[0] = 0 /\ \A w \in 1 .. SaleWindows : g[w] = g[w - 1] + f[w]
      /\ h[0] = 0 /\ \A w \in 1 .. SaleWindows : h[w] = h[w - 1] + [f EXCEPT ![v] = @ + 1][w]
  BY SumsRule
<1>4. m \in 1 .. SaleWindows /\ m - 1 \in 0 .. SaleWindows
  BY <1>2, <1>3, SaleConstants DEF Windows
<1>5. g[m - 1] \in Nat /\ f[m] \in Nat /\ h[m - 1] = More(m - 1)
  BY <1>2, <1>4, SumsTyped DEF Windows
<1>6. g[m] = g[m - 1] + f[m] /\ h[m] = h[m - 1] + (IF m = v THEN f[m] + 1 ELSE f[m])
  BY <1>3, <1>4 DEF Windows
<1>7. h[m] = More(m)
  BY <1>4, <1>5, <1>6 DEF Windows
<1> QED BY <1>2, <1>7

\* A signal means that the tickets are sold out, unless it was none.
SaleInv ==
    /\ ticket_num \in Nat /\ issued \in Nat /\ sold \in [Windows -> Nat] /\ spurious \in BOOLEAN
    /\ setter = "signalled" => spurious \/ ticket_num = 0
    /\ NoTicketLost

\* TotalSold is the last of the sums of sold, now and after a step.
LEMMA SoldNow == ASSUME sold \in [Windows -> Nat] PROVE Sums(sold, SoldBy)
<1>1. \E g : Sums(sold, g)
  BY SumsExist
<1> QED BY <1>1 DEF Sums, SoldBy

LEMMA SoldThen == ASSUME sold' \in [Windows -> Nat] PROVE Sums(sold', SoldBy')
<1>1. \E g : Sums(sold', g)
  BY SumsExist
<1> QED BY <1>1 DEF Sums, SoldBy

LEMMA TotalTyped == ASSUME sold \in [Windows -> Nat] PROVE TotalSold \in Nat
  BY SoldNow, SumsTyped, SaleConstants DEF TotalSold

LEMMA InitSale == ASSUME SaleInit PROVE SaleInv
<1>1. sold = [w \in Windows |-> 0] /\ sold \in [Windows -> Nat]
  BY DEF SaleInit
<1>2. TotalSold = 0
  <2>1. Sums([w \in Windows |-> 0], SoldBy)
    BY <1>1, SoldNow
  <2> QED BY <2>1, SumOfNothing DEF TotalSold
<1>3. /\ ticket_num \in Nat /\ issued \in Nat /\ issued = TotalSold + ticket_num
      /\ setter # "signalled"
  BY <1>2, SaleConstants DEF SaleInit
<1>4. spurious \in BOOLEAN
  BY DEF SaleInit
<1> QED BY <1>1, <1>3, <1>4, Zenon DEF SaleInv, NoTicketLost

LEMMA SellKeeps == ASSUME SaleInv, NEW w \in Windows, Sell(w) PROVE SaleInv'
<1>1. /\ ticket_num > 0 /\ ticket_num' = ticket_num - 1 /\ sold' = [sold EXCEPT ![w] = @ + 1]
      /\ UNCHANGED <<issued, spurious>>
      /\ setter' = IF ticket_num' = 0 /\ setter = "waiting" THEN "signalled" ELSE setter
  BY DEF Sell
<1>2. sold \in [Windows -> Nat] /\ sold' \in [Windows -> Nat]
  BY <1>1 DEF SaleInv
<1>3. TotalSold' = TotalSold + 1
  <2>1. Sums(sold, SoldBy)
    BY <1>2, SoldNow
  <2>2. Sums([sold EXCEPT ![w] = @ + 1], SoldBy')
    BY <1>1, <1>2, SoldThen
  <2>3. SoldBy'[SaleWindows] = SoldBy[SaleWindows] + 1
    BY <1>2, <2>1, <2>2, SumOfOneMore
  <2> QED BY <2>3 DEF TotalSold
<1>4. TotalSold \in Nat
  BY <1>2, TotalTyped
<1> QED BY <1>1, <1>2, <1>3, <1>4 DEF SaleInv, NoTicketLost

\* A refill after a signal finds no ticket that it could overwrite.
LEMMA RefillKeeps == ASSUME SaleInv, Refill PROVE SaleInv'
<1>1. /\ setter = "signalled" \/ ticket_num = 0
      /\ ticket_num' = Batch /\ issued' = issued + Batch /\ setter' = "running"
      /\ UNCHANGED <<sold, spurious>>
  BY DEF Refill
<1>2. TotalSold' = TotalSold
  BY <1>1 DEF TotalSold, SoldBy
<1>3. TotalSold \in Nat
  BY TotalTyped DEF SaleInv
<1> QED BY <1>1, <1>2, <1>3, SaleConstants DEF SaleInv, NoTicketLost

LEMMA SaleStepKeeps == ASSUME SaleInv, [SaleNext]_saleVars PROVE SaleInv'
<1>1. ASSUME UNCHANGED ticketVars, UNCHANGED spurious, setter' = "signalled" => setter = "signalled"
      PROVE  SaleInv'
  <2>1. TotalSold' = TotalSold
    BY <1>1 DEF TotalSold, SoldBy, ticketVars
  <2> QED BY <1>1, <2>1 DEF SaleInv, NoTicketLost, ticketVars
<1>2. CASE WakeUnasked
  BY <1>2 DEF WakeUnasked, SaleInv, NoTicketLost, ticketVars
<1>3. CASE WaitSoldOut \/ StopSetting \/ Main
  BY <1>1, <1>3 DEF WaitSoldOut, StopSetting, Main, Create, Ready, CreateSetter, JoinWindows, setVars, ticketVars
<1>4. ASSUME NEW w \in Windows, ReadNumber(w) \/ CountItself(w) \/ Close(w) PROVE SaleInv'
  BY <1>1, <1>4 DEF ReadNumber, CountItself, Close, setVars
<1>5. CASE UNCHANGED saleVars
  BY <1>1, <1>5 DEF saleVars, setVars
<1> QED BY <1>2, <1>3, <1>4, <1>5, SellKeeps, RefillKeeps DEF SaleNext, SetWindow, Window

\* The refill after a wait sets the tickets without a test and overwrites none, for
\* any number of windows and refills.
THEOREM RefillsOverwriteNothing == SaleSpec => []NoTicketLost
<1>1. SaleInv => NoTicketLost
  BY DEF SaleInv
<1> QED BY <1>1, InitSale, SaleStepKeeps, PTL DEF SaleSpec

\* trigger is the number of windows that have counted themselves, and the setter waits
\* only while there are refills left.
Counted == {w \in Windows : seller[w] \in {"selling", "stopped"}}
SaleTypeInv ==
    /\ SaleTypeOK
    /\ trigger = Cardinality(Counted)
    /\ setter \in {"waiting", "signalled"} => times < Times

\* The windows are finitely many, and so are those that count.
LEMMA CountedTyped ==
    /\ IsFiniteSet(Windows) /\ Cardinality(Windows) = SaleWindows
    /\ \A S \in SUBSET Windows : IsFiniteSet(S) /\ Cardinality(S) \in 0 .. SaleWindows
<1>1. IsFiniteSet(Windows) /\ Cardinality(Windows) = SaleWindows
  BY FS_Interval, SaleConstants DEF Windows
<1>2. ASSUME NEW S \in SUBSET Windows PROVE IsFiniteSet(S) /\ Cardinality(S) \in 0 .. SaleWindows
  <2>1. IsFiniteSet(S) /\ Cardinality(S) <= Cardinality(Windows)
    BY <1>1, FS_Subset
  <2>2. Cardinality(S) \in Nat
    BY <2>1, FS_CardinalityType
  <2> QED BY <1>1, <2>1, <2>2, SaleConstants
<1> QED BY <1>1, <1>2

LEMMA InitSaleTyped == ASSUME SaleInit PROVE SaleTypeInv
<1>1. Counted = {}
  BY DEF SaleInit, Counted
<1>2. Cardinality(Counted) = 0
  BY <1>1, FS_EmptySet
<1>3. SaleTypeOK
  <2>1. Batch \in 0 .. Batch /\ 0 \in 0 .. SaleWindows /\ 0 \in 0 .. Times
    BY SaleConstants
  <2> QED BY <2>1 DEF SaleInit, SaleTypeOK
<1> QED BY <1>2, <1>3 DEF SaleInit, SaleTypeInv

\* A step that counts no window.
LEMMA NoneCounted ==
    ASSUME SaleTypeInv, SaleTypeOK', UNCHANGED trigger,
           \A w \in Windows : seller'[w] \in {"selling", "stopped"} <=> seller[w] \in {"selling", "stopped"},
           setter' \in {"waiting", "signalled"} => times' < Times
    PROVE  SaleTypeInv'
<1>1. Counted' = Counted
  BY DEF Counted
<1> QED BY <1>1 DEF SaleTypeInv

LEMMA SaleStepTyped == ASSUME SaleTypeInv, [SaleNext]_saleVars PROVE SaleTypeInv'
<1> USE DEF SaleTypeInv, SaleTypeOK, startVars, ticketVars, setVars
<1>1. CASE UNCHANGED saleVars
  BY <1>1, NoneCounted DEF saleVars
<1>2. CASE Create
  <2>1. PICK w \in New : seller' = [seller EXCEPT ![w] = "starting"]
    BY <1>2 DEF Create
  <2>2. w \in Windows /\ seller[w] = "none"
    BY <2>1 DEF New
  <2>3. \A v \in Windows : seller'[v] = IF v = w THEN "starting" ELSE seller[v]
    BY <2>1, <2>2
  <2>4. SaleTypeOK'
    BY <1>2, <2>1, <2>2 DEF Create
  <2> QED BY <1>2, <2>2, <2>3, <2>4, NoneCounted DEF Create
<1>3. CASE Ready \/ CreateSetter \/ JoinWindows
  BY <1>3, NoneCounted DEF Ready, CreateSetter, JoinWindows
<1>4. CASE WaitSoldOut \/ WakeUnasked \/ StopSetting
  BY <1>4, NoneCounted DEF WaitSoldOut, WakeUnasked, StopSetting
<1>5. CASE Refill
  <2>1. times < Times
    BY <1>5 DEF Refill
  <2>2. SaleTypeOK'
    BY <1>5, <2>1, SaleConstants DEF Refill
  <2> QED BY <1>5, <2>2, NoneCounted DEF Refill
<1>6. ASSUME NEW w \in Windows, ReadNumber(w) \/ Close(w) PROVE SaleTypeInv'
  <2>1. \A v \in Windows : seller'[v] \in {"selling", "stopped"} <=> seller[v] \in {"selling", "stopped"}
    BY <1>6 DEF ReadNumber, Close
  <2>2. SaleTypeOK'
    BY <1>6 DEF ReadNumber, Close
  <2> QED BY <1>6, <2>1, <2>2, NoneCounted DEF ReadNumber, Close
<1>7. ASSUME NEW w \in Windows, Sell(w) PROVE SaleTypeInv'
  <2>1. SaleTypeOK'
    BY <1>7, SaleConstants DEF Sell
  <2> QED BY <1>7, <2>1, NoneCounted DEF Sell
<1>8. ASSUME NEW w \in Windows, CountItself(w) PROVE SaleTypeInv'
  <2>1. /\ seller[w] = "counting" /\ seller' = [seller EXCEPT ![w] = "selling"] /\ trigger' = trigger + 1
        /\ UNCHANGED <<ticket_num, thread_ready, boss, setter, times, spurious>>
    BY <1>8 DEF CountItself
  <2>2. w \notin Counted /\ Counted' = Counted \cup {w}
    BY <2>1 DEF Counted
  <2>3. Counted \in SUBSET Windows /\ Counted \cup {w} \in SUBSET Windows
    BY DEF Counted
  <2> HIDE DEF Counted
  <2>4. Cardinality(Counted \cup {w}) = Cardinality(Counted) + 1
    BY <2>2, <2>3, CountedTyped, FS_AddElement
  <2>5. Cardinality(Counted \cup {w}) \in 0 .. SaleWindows
    BY <2>3, CountedTyped
  <2>6. trigger' = Cardinality(Counted') /\ trigger' \in 0 .. SaleWindows
    BY <2>1, <2>2, <2>4, <2>5
  <2> QED BY <2>1, <2>6
<1> QED BY <1>1, <1>2, <1>3, <1>4, <1>5, <1>6, <1>7, <1>8 DEF SaleNext, Main, SetWindow, Window

\* The sale keeps its types, for any number of windows and refills: no window counts itself
\* twice, no more tickets wait than were set, and no refill comes after the last.
THEOREM SaleTyped == SaleSpec => []SaleTypeOK
<1>1. SaleTypeInv => SaleTypeOK
  BY DEF SaleTypeInv
<1> QED BY <1>1, InitSaleTyped, SaleStepTyped, PTL DEF SaleSpec

----------------------------------------------------------------------------
(* The exercises with semaphores.  The lock is what makes the read and the *)
(* write of a number one step (CopyOK); what a killed process leaves       *)
(* behind is known from what the kernel recorded for it (LockOK, UndoOK).  *)

\* Where a process of each exercise can be.
Steps == {"start", "lock", "read", "write", "trade", "unlock", "last", "empty", "timing", "take",
          "give", "exit", "ended", "killed"}

PlaceOK(p) ==
    /\ exercise \in {"counter", "tickets"} =>
         step[p] \in {"start", "lock", "read", "write", "unlock", "last", "exit", "ended", "killed"}
    /\ exercise = "market" =>
         step[p] \in {"start", "lock", "trade", "unlock", "last", "empty", "timing", "exit", "ended"}
    /\ exercise = "unlocked" => step[p] \in {"start", "read", "write", "exit", "ended"}
    /\ exercise = "stock" => step[p] \in {"start", "take", "give", "killed"}
    /\ exercise = "undo" /\ p = "first" => step[p] \in {"start", "give", "exit", "ended"}
    /\ exercise = "undo" /\ p = "second" => step[p] \in {"start", "take", "exit", "ended"}

SemTyped ==
    /\ exercise \in {"unlocked", "counter", "tickets", "stock", "undo", "market"}
    /\ sem \in [{0, 1} -> Nat] /\ undo \in [Procs -> [{0, 1} -> Int]]
    /\ step \in [Procs -> Steps] /\ \A p \in Procs : PlaceOK(p)
    /\ value \in Int /\ copy \in [Procs -> Int] /\ turns \in [Procs -> Nat] /\ store \in Nat

\* Who holds the lock has taken it, and the kernel will give it back.
LockOK ==
    Locked =>
        /\ ~(Holding("first") /\ Holding("second"))
        /\ sem[0] = IF Holding("first") \/ Holding("second") THEN 0 ELSE 1
        /\ \A p \in Procs : ~IsEnd(step[p]) =>
              undo[p][0] = IF Holding(p) /\ exercise # "market" THEN 1 ELSE 0

\* A process that is about to write has read what it increments.
CopyOK ==
    /\ Locked => \A p \in Procs : step[p] = "write" => copy[p] = value
    /\ exercise = "unlocked" => \A p \in Procs : step[p] = "write" => copy[p] <= turns["first"] + turns["second"]
    /\ exercise = "market" => value >= 0

\* What the kernel takes back when the producer is killed.
UndoOK ==
    exercise = "stock" /\ step["first"] # "killed" =>
        undo["first"][0] >= 0 /\ undo["first"][0] + undo["first"][1] = Busy("first")

SemInv == SemTyped /\ LockOK /\ CopyOK /\ UndoOK /\ NumbersAddUp

LEMMA InitSem == ASSUME SemInit PROVE SemInv
<1>1. SemTyped
  BY SemaphoreConstants DEF SemInit, SemTyped, PlaceOK, Steps, Procs, Locked
<1>2. LockOK /\ CopyOK /\ UndoOK
  BY SemaphoreConstants DEF SemInit, LockOK, CopyOK, UndoOK, Procs, Locked, Holding, Busy, IsEnd
<1>3. NumbersAddUp
  BY SemaphoreConstants DEF SemInit, NumbersAddUp, Procs, Locked, Holding, Busy, IsEnd
<1> QED BY <1>1, <1>2, <1>3 DEF SemInv

LEMMA StartKeeps == ASSUME SemInv, NEW p \in Procs, Start(p) PROVE SemInv'
<1> USE DEF SemInv
<1>1. /\ step[p] = "start" /\ UNCHANGED <<exercise, sem, undo, value, copy, turns, store>>
      /\ step' = [step EXCEPT ![p] = CASE Locked                                -> "lock"
                        [] exercise = "unlocked"                 -> "read"
                        [] exercise = "undo" /\ p = "first"      -> "give"
                        [] OTHER                                 -> "take"]
  BY DEF Start, At
<1>2. SemTyped'
  BY <1>1 DEF SemTyped, PlaceOK, Steps, Procs, Locked
<1>3. LockOK'
  BY <1>1 DEF LockOK, SemTyped, Procs, Locked, Holding, IsEnd
<1>4. CopyOK' /\ UndoOK'
  BY <1>1 DEF CopyOK, UndoOK, SemTyped, Procs, Locked, Busy
<1>5. NumbersAddUp'
  BY <1>1 DEF NumbersAddUp, SemTyped, Procs, Locked, Busy, IsEnd, Holding
<1> QED BY <1>2, <1>3, <1>4, <1>5

LEMMA LoadKeeps == ASSUME SemInv, NEW p \in Procs, Load(p) PROVE SemInv'
<1> USE DEF SemInv
<1>1. /\ step[p] = "read" /\ copy' = [copy EXCEPT ![p] = value] /\ UNCHANGED <<exercise, sem, undo, value, turns, store>>
      /\ step' = [step EXCEPT ![p] = IF exercise = "tickets" /\ value = 0 THEN "last" ELSE "write"]
  BY DEF Load, At
<1>2. SemTyped'
  BY <1>1 DEF SemTyped, PlaceOK, Steps, Procs, Locked
<1>3. LockOK'
  BY <1>1 DEF LockOK, SemTyped, Procs, Locked, Holding, IsEnd
<1>4. CopyOK' /\ UndoOK'
  BY <1>1 DEF CopyOK, UndoOK, NumbersAddUp, SemTyped, Procs, Locked, Busy, PlaceOK
<1>5. NumbersAddUp'
  BY <1>1 DEF NumbersAddUp, SemTyped, Procs, Locked, Busy, IsEnd, Holding
<1> QED BY <1>2, <1>3, <1>4, <1>5

LEMMA LockKeeps == ASSUME SemInv, NEW p \in Procs, Lock(p) PROVE SemInv'
<1> USE DEF SemInv
<1>1. /\ step[p] = "lock" /\ step' = [step EXCEPT ![p] = IF exercise = "market" THEN "trade" ELSE "read"]
      /\ sem[0] + -1 >= 0 /\ sem' = [sem EXCEPT ![0] = @ + -1]
      /\ undo' = IF exercise = "market" THEN undo ELSE [undo EXCEPT ![p][0] = @ - -1]
      /\ UNCHANGED <<exercise, value, copy, turns, store>>
  BY DEF Lock, At, Semop
<1>2. SemTyped'
  BY <1>1, SemaphoreConstants DEF SemTyped, PlaceOK, Steps, Procs, Locked
<1>3. LockOK'
  BY <1>1 DEF LockOK, SemTyped, PlaceOK, Procs, Locked, Holding, IsEnd
<1>4. CopyOK' /\ UndoOK'
  BY <1>1 DEF CopyOK, UndoOK, LockOK, NumbersAddUp, SemTyped, Procs, Locked, Busy, PlaceOK, Holding, IsEnd
<1>5. NumbersAddUp'
  BY <1>1 DEF NumbersAddUp, LockOK, CopyOK, UndoOK, SemTyped, PlaceOK, Procs, Locked, Busy, IsEnd, Holding
<1> QED BY <1>2, <1>3, <1>4, <1>5

LEMMA IncrementKeeps == ASSUME SemInv, NEW p \in Procs, Increment(p) PROVE SemInv'
<1> USE DEF SemInv
<1>1. /\ step[p] = "write"
      /\ step' = [step EXCEPT ![p] =
              CASE exercise = "tickets"                               -> "unlock"
                [] exercise = "counter" /\ turns[p] + 1 = Rounds      -> "last"
                [] exercise = "counter" /\ turns[p] + 1 # Rounds      -> "unlock"
                [] exercise = "unlocked" /\ turns[p] + 1 = Rounds     -> "exit"
                [] OTHER                                              -> "read"]
      /\ value' = copy[p] + (IF exercise = "tickets" THEN -1 ELSE 1)
      /\ copy' = [copy EXCEPT ![p] = 0] /\ turns' = [turns EXCEPT ![p] = @ + 1]
      /\ UNCHANGED <<exercise, sem, undo, store>>
  BY DEF Increment, At
<1>2. SemTyped'
  BY <1>1, SemaphoreConstants DEF SemTyped, PlaceOK, Steps, Procs, Locked
<1>3. LockOK'
  BY <1>1 DEF LockOK, SemTyped, PlaceOK, Procs, Locked, Holding, IsEnd
<1>4. CopyOK' /\ UndoOK'
  BY <1>1 DEF CopyOK, UndoOK, LockOK, NumbersAddUp, SemTyped, Procs, Locked, Busy, PlaceOK, Holding, IsEnd
<1>5. NumbersAddUp'
  BY <1>1 DEF NumbersAddUp, LockOK, CopyOK, UndoOK, SemTyped, PlaceOK, Procs, Locked, Busy, IsEnd, Holding
<1> QED BY <1>2, <1>3, <1>4, <1>5

LEMMA UnlockKeeps == ASSUME SemInv, NEW p \in Procs, Unlock(p) PROVE SemInv'
<1> USE DEF SemInv
<1>1. /\ \/ step[p] = "unlock" /\ step' = [step EXCEPT ![p] = "lock"]
         \/ step[p] = "last" /\ step' = [step EXCEPT ![p] = "exit"]
         \/ step[p] = "empty" /\ step' = [step EXCEPT ![p] = "timing"]
      /\ sem' = [sem EXCEPT ![0] = @ + 1]
      /\ undo' = IF exercise = "market" THEN undo ELSE [undo EXCEPT ![p][0] = @ - 1]
      /\ UNCHANGED <<exercise, value, copy, turns, store>>
  BY DEF Unlock, At, Semop
<1>2. SemTyped'
  BY <1>1, SemaphoreConstants DEF SemTyped, PlaceOK, Steps, Procs, Locked
<1>3. LockOK'
  BY <1>1 DEF LockOK, SemTyped, PlaceOK, Procs, Locked, Holding, IsEnd
<1>4. CopyOK' /\ UndoOK'
  BY <1>1 DEF CopyOK, UndoOK, LockOK, NumbersAddUp, SemTyped, Procs, Locked, Busy, PlaceOK, Holding, IsEnd
<1>5. NumbersAddUp'
  BY <1>1 DEF NumbersAddUp, LockOK, CopyOK, UndoOK, SemTyped, PlaceOK, Procs, Locked, Busy, IsEnd, Holding
<1> QED BY <1>2, <1>3, <1>4, <1>5

LEMMA TakeKeeps == ASSUME SemInv, NEW p \in Procs, Take(p) PROVE SemInv'
<1> USE DEF SemInv
<1>1. /\ step[p] = "take"
      /\ step' = [step EXCEPT ![p] = IF exercise = "stock" THEN "give"
                     ELSE IF turns[p] + 1 = Rounds THEN "exit" ELSE "take"]
      /\ sem[From(p)] + -1 >= 0 /\ sem' = [sem EXCEPT ![From(p)] = @ + -1]
      /\ undo' = IF exercise = "market" THEN undo ELSE [undo EXCEPT ![p][From(p)] = @ - -1]
      /\ turns' = [turns EXCEPT ![p] = IF exercise = "undo" THEN @ + 1 ELSE @]
      /\ UNCHANGED <<exercise, value, copy, store>>
  BY DEF Take, At, Semop
<1>2. SemTyped'
  BY <1>1, SemaphoreConstants DEF SemTyped, PlaceOK, Steps, Procs, Locked, From
<1>3. LockOK'
  BY <1>1 DEF LockOK, SemTyped, PlaceOK, Procs, Locked, Holding, IsEnd, From
<1>4. CopyOK' /\ UndoOK'
  BY <1>1 DEF CopyOK, UndoOK, LockOK, NumbersAddUp, SemTyped, Procs, Locked, Busy, PlaceOK, Holding, IsEnd, From
<1>5. NumbersAddUp'
  BY <1>1 DEF NumbersAddUp, LockOK, CopyOK, UndoOK, SemTyped, PlaceOK, Procs, Locked, Busy, IsEnd, Holding, From
<1> QED BY <1>2, <1>3, <1>4, <1>5

LEMMA GiveKeeps == ASSUME SemInv, NEW p \in Procs, Give(p) PROVE SemInv'
<1> USE DEF SemInv
<1>1. /\ step[p] = "give"
      /\ step' = [step EXCEPT ![p] = IF exercise = "stock" THEN "take"
                     ELSE IF turns[p] + 1 = Rounds THEN "exit" ELSE "give"]
      /\ sem' = [sem EXCEPT ![To(p)] = @ + 1]
      /\ undo' = IF exercise = "market" THEN undo ELSE [undo EXCEPT ![p][To(p)] = @ - 1]
      /\ turns' = [turns EXCEPT ![p] = @ + 1]
      /\ UNCHANGED <<exercise, value, copy, store>>
  BY DEF Give, At, Semop
<1>2. SemTyped'
  BY <1>1, SemaphoreConstants DEF SemTyped, PlaceOK, Steps, Procs, Locked, To
<1>3. LockOK'
  BY <1>1 DEF LockOK, SemTyped, PlaceOK, Procs, Locked, Holding, IsEnd, To
<1>4. CopyOK' /\ UndoOK'
  BY <1>1 DEF CopyOK, UndoOK, LockOK, NumbersAddUp, SemTyped, Procs, Locked, Busy, PlaceOK, Holding, IsEnd, To
<1>5. NumbersAddUp'
  BY <1>1 DEF NumbersAddUp, LockOK, CopyOK, UndoOK, SemTyped, PlaceOK, Procs, Locked, Busy, IsEnd, Holding, To
<1> QED BY <1>2, <1>3, <1>4, <1>5

LEMMA MarketKeeps == ASSUME SemInv, MarketStep PROVE SemInv'
<1> USE DEF SemInv
<1>1. \/ Produce \/ Purchase \/ TimeOut
  BY DEF MarketStep
<1>2. SemTyped'
  BY <1>1, SemaphoreConstants DEF SemTyped, PlaceOK, Steps, Procs, Locked, Produce, Purchase, TimeOut, At
<1>3. LockOK'
  BY <1>1 DEF LockOK, SemTyped, PlaceOK, Procs, Locked, Holding, IsEnd, Produce, Purchase, TimeOut, At
<1>4. CopyOK' /\ UndoOK'
  BY <1>1 DEF CopyOK, UndoOK, LockOK, NumbersAddUp, SemTyped, Procs, Locked, Busy, PlaceOK, Holding, IsEnd, Produce, Purchase, TimeOut, At
<1>5. NumbersAddUp'
  BY <1>1 DEF NumbersAddUp, LockOK, CopyOK, UndoOK, SemTyped, PlaceOK, Procs, Locked, Busy, IsEnd, Holding, Produce, Purchase, TimeOut, At
<1> QED BY <1>2, <1>3, <1>4, <1>5

LEMMA EndKeeps == ASSUME SemInv, NEW p \in Procs, End(p) PROVE SemInv'
<1> USE DEF SemInv
<1>1. /\ step[p] = "exit" /\ step' = [step EXCEPT ![p] = "ended"] /\ sem' = AfterUndo(p)
      /\ UNCHANGED <<exercise, undo, value, copy, turns, store>>
  BY DEF End, At
<1>2. SemTyped'
  BY <1>1, SemaphoreConstants DEF SemTyped, PlaceOK, Steps, Procs, Locked, AfterUndo
<1>3. LockOK'
  BY <1>1 DEF LockOK, SemTyped, PlaceOK, Procs, Locked, Holding, IsEnd, AfterUndo
<1>4. CopyOK' /\ UndoOK'
  BY <1>1 DEF CopyOK, UndoOK, LockOK, NumbersAddUp, SemTyped, Procs, Locked, Busy, PlaceOK, Holding, IsEnd, AfterUndo
<1>5. NumbersAddUp'
  BY <1>1 DEF NumbersAddUp, LockOK, CopyOK, UndoOK, SemTyped, PlaceOK, Procs, Locked, Busy, IsEnd, Holding, AfterUndo
<1> QED BY <1>2, <1>3, <1>4, <1>5

LEMMA KillKeeps == ASSUME SemInv, KillChild PROVE SemInv'
<1> USE DEF SemInv
<1>1. /\ exercise \in {"counter", "tickets", "stock"} /\ ~IsEnd(step["first"])
      /\ step' = [step EXCEPT !["first"] = "killed"] /\ sem' = AfterUndo("first")
      /\ UNCHANGED <<exercise, undo, value, copy, turns, store>>
  BY DEF KillChild
<1>2. SemTyped'
  BY <1>1, SemaphoreConstants DEF SemTyped, PlaceOK, Steps, Procs, Locked, AfterUndo
<1>3. LockOK'
  BY <1>1 DEF LockOK, SemTyped, PlaceOK, Procs, Locked, Holding, IsEnd, AfterUndo
<1>4. CopyOK' /\ UndoOK'
  BY <1>1 DEF CopyOK, UndoOK, LockOK, NumbersAddUp, SemTyped, Procs, Locked, Busy, PlaceOK, Holding, IsEnd, AfterUndo
<1>5. NumbersAddUp'
  BY <1>1 DEF NumbersAddUp, LockOK, CopyOK, UndoOK, SemTyped, PlaceOK, Procs, Locked, Busy, IsEnd, Holding, AfterUndo
<1> QED BY <1>2, <1>3, <1>4, <1>5

LEMMA SemStepKeeps == ASSUME SemInv, [SemNext]_semVars PROVE SemInv'
<1>1. CASE UNCHANGED semVars
  <2>1. SemTyped' /\ LockOK' /\ CopyOK' /\ UndoOK'
    BY <1>1 DEF SemInv, SemTyped, PlaceOK, LockOK, CopyOK, UndoOK, Locked, Holding, Busy, semVars
  <2> QED BY <1>1, <2>1 DEF SemInv, NumbersAddUp, Locked, Holding, Busy, semVars
<1> QED BY <1>1, StartKeeps, LockKeeps, LoadKeeps, IncrementKeeps, UnlockKeeps, TakeKeeps, GiveKeeps,
           EndKeeps, MarketKeeps, KillKeeps DEF SemNext, ProcStep

\* In the six exercises with semaphores, mutexes and shared memory the numbers add up, for
\* any number of rounds and goods, also when the kernel undoes what a killed process did.
THEOREM NumbersAreKept == SemSpec => []NumbersAddUp
<1>1. SemInv => NumbersAddUp
  BY DEF SemInv
<1> QED BY <1>1, InitSem, SemStepKeeps, PTL DEF SemSpec

(* The bounds.  Every exercise has its own. *)

\* How often a process goes round.
TurnsOK ==
    /\ exercise \in {"counter", "unlocked", "stock", "undo"} =>
         \A p \in Procs : /\ turns[p] <= Rounds
                          /\ step[p] \in {"start", "lock", "read", "write", "unlock", "give"} => turns[p] < Rounds
    /\ exercise = "market" => turns["first"] = 0

\* A window that is about to sell has read a ticket.
ValueOK ==
    /\ value >= 0
    /\ \A p \in Procs : step[p] = "write" => copy[p] >= IF exercise = "tickets" THEN 1 ELSE 0

\* What the semaphores are after the kernel has taken the operations of a process back.
SemsOK ==
    /\ exercise # "stock" => sem[1] = 0 /\ \A p \in Procs : undo[p][1] = 0
    /\ exercise = "unlocked" => sem[0] = 0 /\ \A p \in Procs : undo[p][0] = 0
    /\ exercise = "stock" =>
         IF step["first"] # "killed" THEN undo["first"][1] = -turns["first"]
                                     ELSE sem[0] + sem[1] + Busy("second") <= Stored + Rounds
    /\ exercise = "undo" =>
         /\ undo["first"][0] = -turns["first"] /\ undo["second"][0] = turns["second"]
         /\ IsEnd(step["first"]) /\ ~IsEnd(step["second"]) => sem[0] = 0
         /\ ~IsEnd(step["first"]) /\ IsEnd(step["second"]) => sem[0] = turns["first"]
         /\ IsEnd(step["first"]) /\ IsEnd(step["second"]) => sem[0] <= Rounds

SemMore == SemInv /\ TurnsOK /\ ValueOK /\ SemsOK

LEMMA InitMore == ASSUME SemInit PROVE SemMore
<1>1. TurnsOK /\ ValueOK
  BY SemaphoreConstants DEF SemInit, TurnsOK, ValueOK, Procs
<1>2. SemsOK
  <2>1. /\ \A p \in Procs : undo[p][0] = 0 /\ undo[p][1] = 0 /\ turns[p] = 0 /\ step[p] = "start"
        /\ sem[1] = 0 /\ (exercise = "unlocked" => sem[0] = 0)
    BY DEF SemInit, Locked
  <2> QED BY <2>1 DEF SemsOK, Procs, IsEnd
<1> QED BY <1>1, <1>2, InitSem DEF SemMore

LEMMA StartBounds == ASSUME SemMore, NEW p \in Procs, Start(p) PROVE SemMore'
<1> USE SemaphoreConstants DEF SemMore, SemInv
<1>1. /\ step[p] = "start" /\ UNCHANGED <<exercise, sem, undo, value, copy, turns, store>>
      /\ step' = [step EXCEPT ![p] = CASE Locked                                -> "lock"
                        [] exercise = "unlocked"                 -> "read"
                        [] exercise = "undo" /\ p = "first"      -> "give"
                        [] OTHER                                 -> "take"]
  BY DEF Start, At
<1>2. TurnsOK'
  BY <1>1 DEF TurnsOK, SemTyped, PlaceOK, Procs, Locked, IsEnd
<1>3. ValueOK'
  BY <1>1 DEF ValueOK, CopyOK, NumbersAddUp, SemTyped, PlaceOK, Procs, Locked
<1>4. SemsOK'
  BY <1>1 DEF SemsOK, TurnsOK, LockOK, UndoOK, NumbersAddUp, SemTyped, PlaceOK, Procs, Locked, IsEnd, Busy, Holding
<1> QED BY <1>2, <1>3, <1>4, StartKeeps

LEMMA LoadBounds == ASSUME SemMore, NEW p \in Procs, Load(p) PROVE SemMore'
<1> USE SemaphoreConstants DEF SemMore, SemInv
<1>1. /\ step[p] = "read" /\ copy' = [copy EXCEPT ![p] = value] /\ UNCHANGED <<exercise, sem, undo, value, turns, store>>
      /\ step' = [step EXCEPT ![p] = IF exercise = "tickets" /\ value = 0 THEN "last" ELSE "write"]
  BY DEF Load, At
<1>2. TurnsOK'
  BY <1>1 DEF TurnsOK, SemTyped, PlaceOK, Procs, Locked, IsEnd
<1>3. ValueOK'
  BY <1>1 DEF ValueOK, CopyOK, NumbersAddUp, SemTyped, PlaceOK, Procs, Locked
<1>4. SemsOK'
  BY <1>1 DEF SemsOK, TurnsOK, LockOK, UndoOK, NumbersAddUp, SemTyped, PlaceOK, Procs, Locked, IsEnd, Busy, Holding
<1> QED BY <1>2, <1>3, <1>4, LoadKeeps

LEMMA LockBounds == ASSUME SemMore, NEW p \in Procs, Lock(p) PROVE SemMore'
<1> USE SemaphoreConstants DEF SemMore, SemInv
<1>1. /\ step[p] = "lock" /\ step' = [step EXCEPT ![p] = IF exercise = "market" THEN "trade" ELSE "read"]
      /\ sem[0] + -1 >= 0 /\ sem' = [sem EXCEPT ![0] = @ + -1]
      /\ undo' = IF exercise = "market" THEN undo ELSE [undo EXCEPT ![p][0] = @ - -1]
      /\ UNCHANGED <<exercise, value, copy, turns, store>>
  BY DEF Lock, At, Semop
<1>2. TurnsOK'
  BY <1>1 DEF TurnsOK, SemTyped, PlaceOK, Procs, Locked, IsEnd
<1>3. ValueOK'
  BY <1>1 DEF ValueOK, CopyOK, NumbersAddUp, SemTyped, PlaceOK, Procs, Locked
<1>4. SemsOK'
  BY <1>1 DEF SemsOK, TurnsOK, LockOK, UndoOK, NumbersAddUp, SemTyped, PlaceOK, Procs, Locked, IsEnd, Busy, Holding
<1> QED BY <1>2, <1>3, <1>4, LockKeeps

LEMMA IncrementBounds == ASSUME SemMore, NEW p \in Procs, Increment(p) PROVE SemMore'
<1> USE SemaphoreConstants DEF SemMore, SemInv
<1>1. /\ step[p] = "write"
      /\ step' = [step EXCEPT ![p] =
              CASE exercise = "tickets"                               -> "unlock"
                [] exercise = "counter" /\ turns[p] + 1 = Rounds      -> "last"
                [] exercise = "counter" /\ turns[p] + 1 # Rounds      -> "unlock"
                [] exercise = "unlocked" /\ turns[p] + 1 = Rounds     -> "exit"
                [] OTHER                                              -> "read"]
      /\ value' = copy[p] + (IF exercise = "tickets" THEN -1 ELSE 1)
      /\ copy' = [copy EXCEPT ![p] = 0] /\ turns' = [turns EXCEPT ![p] = @ + 1]
      /\ UNCHANGED <<exercise, sem, undo, store>>
  BY DEF Increment, At
<1>2. TurnsOK'
  BY <1>1 DEF TurnsOK, SemTyped, PlaceOK, Procs, Locked, IsEnd
<1>3. ValueOK'
  BY <1>1 DEF ValueOK, CopyOK, NumbersAddUp, SemTyped, PlaceOK, Procs, Locked
<1>4. SemsOK'
  BY <1>1 DEF SemsOK, TurnsOK, LockOK, UndoOK, NumbersAddUp, SemTyped, PlaceOK, Procs, Locked, IsEnd, Busy, Holding
<1> QED BY <1>2, <1>3, <1>4, IncrementKeeps

LEMMA UnlockBounds == ASSUME SemMore, NEW p \in Procs, Unlock(p) PROVE SemMore'
<1> USE SemaphoreConstants DEF SemMore, SemInv
<1>1. /\ \/ step[p] = "unlock" /\ step' = [step EXCEPT ![p] = "lock"]
         \/ step[p] = "last" /\ step' = [step EXCEPT ![p] = "exit"]
         \/ step[p] = "empty" /\ step' = [step EXCEPT ![p] = "timing"]
      /\ sem' = [sem EXCEPT ![0] = @ + 1]
      /\ undo' = IF exercise = "market" THEN undo ELSE [undo EXCEPT ![p][0] = @ - 1]
      /\ UNCHANGED <<exercise, value, copy, turns, store>>
  BY DEF Unlock, At, Semop
<1>2. TurnsOK'
  BY <1>1 DEF TurnsOK, SemTyped, PlaceOK, Procs, Locked, IsEnd
<1>3. ValueOK'
  BY <1>1 DEF ValueOK, CopyOK, NumbersAddUp, SemTyped, PlaceOK, Procs, Locked
<1>4. SemsOK'
  BY <1>1 DEF SemsOK, TurnsOK, LockOK, UndoOK, NumbersAddUp, SemTyped, PlaceOK, Procs, Locked, IsEnd, Busy, Holding
<1> QED BY <1>2, <1>3, <1>4, UnlockKeeps

LEMMA TakeBounds == ASSUME SemMore, NEW p \in Procs, Take(p) PROVE SemMore'
<1> USE SemaphoreConstants DEF SemMore, SemInv
<1>1. /\ step[p] = "take" /\ turns[p] < Rounds
      /\ step' = [step EXCEPT ![p] = IF exercise = "stock" THEN "give"
                     ELSE IF turns[p] + 1 = Rounds THEN "exit" ELSE "take"]
      /\ sem[From(p)] + -1 >= 0 /\ sem' = [sem EXCEPT ![From(p)] = @ + -1]
      /\ undo' = IF exercise = "market" THEN undo ELSE [undo EXCEPT ![p][From(p)] = @ - -1]
      /\ turns' = [turns EXCEPT ![p] = IF exercise = "undo" THEN @ + 1 ELSE @]
      /\ UNCHANGED <<exercise, value, copy, store>>
  BY DEF Take, At, Semop
<1>2. TurnsOK'
  BY <1>1 DEF TurnsOK, SemTyped, PlaceOK, Procs, Locked, IsEnd, From
<1>3. ValueOK'
  BY <1>1 DEF ValueOK, CopyOK, NumbersAddUp, SemTyped, PlaceOK, Procs, Locked, From
<1>4. SemsOK'
  BY <1>1 DEF SemsOK, TurnsOK, LockOK, UndoOK, NumbersAddUp, SemTyped, PlaceOK, Procs, Locked, IsEnd, Busy, Holding, From
<1> QED BY <1>2, <1>3, <1>4, TakeKeeps

LEMMA GiveBounds == ASSUME SemMore, NEW p \in Procs, Give(p) PROVE SemMore'
<1> USE SemaphoreConstants DEF SemMore, SemInv
<1>1. /\ step[p] = "give"
      /\ step' = [step EXCEPT ![p] = IF exercise = "stock" THEN "take"
                     ELSE IF turns[p] + 1 = Rounds THEN "exit" ELSE "give"]
      /\ sem' = [sem EXCEPT ![To(p)] = @ + 1]
      /\ undo' = IF exercise = "market" THEN undo ELSE [undo EXCEPT ![p][To(p)] = @ - 1]
      /\ turns' = [turns EXCEPT ![p] = @ + 1]
      /\ UNCHANGED <<exercise, value, copy, store>>
  BY DEF Give, At, Semop
<1>2. TurnsOK'
  BY <1>1 DEF TurnsOK, SemTyped, PlaceOK, Procs, Locked, IsEnd, To
<1>3. ValueOK'
  BY <1>1 DEF ValueOK, CopyOK, NumbersAddUp, SemTyped, PlaceOK, Procs, Locked, To
<1>4. SemsOK'
  BY <1>1 DEF SemsOK, TurnsOK, LockOK, UndoOK, NumbersAddUp, SemTyped, PlaceOK, Procs, Locked, IsEnd, Busy, Holding, To
<1> QED BY <1>2, <1>3, <1>4, GiveKeeps

LEMMA EndBounds == ASSUME SemMore, NEW p \in Procs, End(p) PROVE SemMore'
<1> USE SemaphoreConstants DEF SemMore, SemInv
<1>1. /\ step[p] = "exit" /\ step' = [step EXCEPT ![p] = "ended"] /\ sem' = AfterUndo(p)
      /\ UNCHANGED <<exercise, undo, value, copy, turns, store>>
  BY DEF End, At
<1>2. TurnsOK'
  BY <1>1 DEF TurnsOK, SemTyped, PlaceOK, Procs, Locked, IsEnd, AfterUndo
<1>3. ValueOK'
  BY <1>1 DEF ValueOK, CopyOK, NumbersAddUp, SemTyped, PlaceOK, Procs, Locked, AfterUndo
<1>4. SemsOK'
  BY <1>1 DEF SemsOK, TurnsOK, LockOK, UndoOK, NumbersAddUp, SemTyped, PlaceOK, Procs, Locked, IsEnd, Busy, Holding, AfterUndo
<1> QED BY <1>2, <1>3, <1>4, EndKeeps

LEMMA MarketBounds == ASSUME SemMore, MarketStep PROVE SemMore'
<1> USE SemaphoreConstants DEF SemMore, SemInv
<1>1. \/ Produce \/ Purchase \/ TimeOut
  BY DEF MarketStep
<1>2. TurnsOK'
  BY <1>1 DEF TurnsOK, SemTyped, PlaceOK, Procs, Locked, IsEnd, Produce, Purchase, TimeOut, At
<1>3. ValueOK'
  BY <1>1 DEF ValueOK, CopyOK, NumbersAddUp, SemTyped, PlaceOK, Procs, Locked, Produce, Purchase, TimeOut, At
<1>4. SemsOK'
  BY <1>1 DEF SemsOK, TurnsOK, LockOK, UndoOK, NumbersAddUp, SemTyped, PlaceOK, Procs, Locked, IsEnd, Busy, Holding, Produce, Purchase, TimeOut, At
<1> QED BY <1>2, <1>3, <1>4, MarketKeeps

LEMMA KillBounds == ASSUME SemMore, KillChild PROVE SemMore'
<1> USE SemaphoreConstants DEF SemMore, SemInv
<1>1. /\ exercise \in {"counter", "tickets", "stock"} /\ ~IsEnd(step["first"])
      /\ step' = [step EXCEPT !["first"] = "killed"] /\ sem' = AfterUndo("first")
      /\ UNCHANGED <<exercise, undo, value, copy, turns, store>>
  BY DEF KillChild
<1>2. TurnsOK'
  BY <1>1 DEF TurnsOK, SemTyped, PlaceOK, Procs, Locked, IsEnd, AfterUndo
<1>3. ValueOK'
  BY <1>1 DEF ValueOK, CopyOK, NumbersAddUp, SemTyped, PlaceOK, Procs, Locked, AfterUndo
<1>4. SemsOK'
  BY <1>1 DEF SemsOK, TurnsOK, LockOK, UndoOK, NumbersAddUp, SemTyped, PlaceOK, Procs, Locked, IsEnd, Busy, Holding, AfterUndo
<1> QED BY <1>2, <1>3, <1>4, KillKeeps

LEMMA SemStepBounds == ASSUME SemMore, [SemNext]_semVars PROVE SemMore'
<1>1. CASE UNCHANGED semVars
  <2>1. TurnsOK' /\ ValueOK' /\ SemsOK'
    BY <1>1 DEF SemMore, TurnsOK, ValueOK, SemsOK, Busy, IsEnd, semVars
  <2> QED BY <1>1, <2>1, SemStepKeeps DEF SemMore
<1> QED BY <1>1, StartBounds, LockBounds, LoadBounds, IncrementBounds, UnlockBounds, TakeBounds, GiveBounds,
           EndBounds, MarketBounds, KillBounds DEF SemNext, ProcStep

LEMMA BoundsShape == ASSUME SemMore PROVE SemShape
<1> USE SemaphoreConstants DEF SemMore, SemInv
<1>1. value >= 0 /\ store >= 0
  BY DEF ValueOK, SemTyped
<1>2. \A p \in Procs : turns[p] \in 0 .. Stored + Rounds
  BY <1>1 DEF TurnsOK, NumbersAddUp, SemTyped, Procs
<1>3. sem[0] \in 0 .. Stored + Rounds + 1
  BY <1>2 DEF SemsOK, LockOK, NumbersAddUp, SemTyped, Procs, Locked, Busy, IsEnd
<1>4. sem[1] \in 0 .. Stored + Rounds + 1
  BY DEF SemsOK, NumbersAddUp, SemTyped, Procs, Busy
<1>5. sem \in [{0, 1} -> 0 .. Stored + Rounds + 1]
  BY <1>3, <1>4 DEF SemTyped
<1>6. turns \in [Procs -> 0 .. Stored + Rounds]
  BY <1>2 DEF SemTyped
<1> QED BY <1>1, <1>5, <1>6 DEF SemShape

\* The semaphores and the numbers stay within bounds, for any number of rounds and goods:
\* nothing is sold that was not there, and what the kernel gives back when a process ends
\* or is killed is at most what the process did.
THEOREM SemaphoresBounded == SemSpec => []SemShape
<1>1. SemMore => SemShape
  BY BoundsShape
<1> QED BY <1>1, InitMore, SemStepBounds, PTL DEF SemSpec

\* No ticket, increment or product is lost in the ticket sale and the six exercises, which
\* do not touch each other's variables.
THEOREM SharedNumbersKept == SaleSpec /\ SemSpec => []NothingLost
<1>1. NoTicketLost /\ NumbersAddUp => NothingLost
  BY DEF NothingLost
<1> QED BY <1>1, RefillsOverwriteNothing, NumbersAreKept, PTL
=============================================================================
