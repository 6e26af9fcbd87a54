----------------------------- MODULE RingBuffer -----------------------------
(***************************************************************************)
(* The producer and the consumer of 20180707/cus_pro_queue.c around a ring *)
(* buffer with one mutex and two condition variables.  put and get hold    *)
(* the mutex from their first test to their end, except while they wait,   *)
(* so that one step is a turn of their while loop.                         *)
(***************************************************************************)
EXTENDS Naturals, Sequences

CONSTANTS
    BufferSize,  \* BUFFER_SIZE
    Last         \* the producer puts 0 .. Last - 1, and then OVER

ASSUME RingConstants == BufferSize \in Nat \ {0, 1} /\ Last \in Nat

VARIABLES
    buffer, readpos, writepos,
    waiting,   \* the threads that wait for their condition
    n,         \* the producer's counter
    got,       \* what the consumer got
    producer, consumer, main

ringVars == <<buffer, readpos, writepos>>
vars == <<ringVars, waiting, n, got, producer, consumer, main>>

Over == Last
Data == 0 .. Last

Positions == 0 .. BufferSize - 1

\* Mutant: the position runs over the end of the buffer by one.
AfterOver(i) == IF i + 1 > BufferSize THEN 0 ELSE i + 1

\* (i + 1) % BUFFER_SIZE, of a position.
After(i) == IF i + 1 >= BufferSize THEN 0 ELSE i + 1

Init ==
    /\ buffer \in [Positions -> Data]    \* not initialised
    /\ readpos = 0 /\ writepos = 0
    /\ waiting = {}
    /\ n = 0 /\ got = <<>>
    /\ producer = "running" /\ consumer = "running" /\ main = "joining"

----------------------------------------------------------------------------
Full  == After(writepos) = readpos
Empty == writepos = readpos

\* pthread_cond_signal: the other thread tests its condition again.
Signal(t) == waiting' = waiting \ {t}

Wait(t) == waiting' = waiting \cup {t} /\ UNCHANGED <<ringVars, n, got>>

Store(d) == /\ buffer' = [buffer EXCEPT ![writepos] = d]
            /\ writepos' = After(writepos)
            /\ UNCHANGED readpos

\* Mutant: the buffer may fill up to its last slot.
PutFull ==
    /\ producer = "running" /\ "producer" \notin waiting
    /\ Store(n) /\ Signal("consumer") /\ n' = n + 1 /\ UNCHANGED got
    /\ producer' = IF n = Over THEN "stopped" ELSE "running"
    /\ UNCHANGED <<consumer, main>>

\* producer: put of the next number, at last of OVER.
Put ==
    /\ producer = "running" /\ "producer" \notin waiting
    /\ IF Full THEN Wait("producer") /\ UNCHANGED producer
       ELSE /\ Store(n) /\ Signal("consumer") /\ n' = n + 1 /\ UNCHANGED got
            /\ producer' = IF n = Over THEN "stopped" ELSE "running"
    /\ UNCHANGED <<consumer, main>>

\* Mutant: nobody is told that there is room.
GetSilent ==
    /\ consumer = "running" /\ "consumer" \notin waiting
    /\ IF Empty THEN Wait("consumer") /\ UNCHANGED consumer
       ELSE /\ got' = Append(got, buffer[readpos])
            /\ readpos' = After(readpos)
            /\ consumer' = IF buffer[readpos] = Over THEN "stopped" ELSE "running"
            /\ UNCHANGED <<buffer, writepos, n, waiting>>
    /\ UNCHANGED <<producer, main>>

\* consumer: get, until OVER.
Get ==
    /\ consumer = "running" /\ "consumer" \notin waiting
    /\ IF Empty THEN Wait("consumer") /\ UNCHANGED consumer
       ELSE /\ got' = Append(got, buffer[readpos])
            /\ readpos' = After(readpos)
            /\ consumer' = IF buffer[readpos] = Over THEN "stopped" ELSE "running"
            /\ Signal("producer")
            /\ UNCHANGED <<buffer, writepos, n>>
    /\ UNCHANGED <<producer, main>>

\* pthread_cond_wait may return without a signal.
SpuriousWake ==
    /\ waiting # {}
    /\ waiting' = {}
    /\ UNCHANGED <<ringVars, n, got, producer, consumer, main>>

\* main joins pro, which by then is the id of the consumer, and con, which was
\* never set: it returns at once, or the process dies.
Join ==
    /\ main = "joining" /\ consumer = "stopped"
    /\ main' \in {"returned", "dead"}
    /\ UNCHANGED <<ringVars, waiting, n, got, producer, consumer>>

Next == main = "joining" /\ (Put \/ Get \/ SpuriousWake \/ Join)

Spec == Init /\ [][Next]_vars

\* The scheduler runs every thread; spurious wakeups need not happen.
Fairness == /\ WF_vars(main = "joining" /\ Put)
            /\ WF_vars(main = "joining" /\ Get)
            /\ WF_vars(Join)

----------------------------------------------------------------------------
(* Properties *)

\* Type invariant: the positions stay inside the buffer.
TypeOK ==
    /\ buffer \in [Positions -> Data]
    /\ readpos \in Positions /\ writepos \in Positions
    /\ waiting \subseteq {"producer", "consumer"}
    /\ n \in 0 .. Last + 1 /\ got \in Seq(Data)
    /\ producer \in {"running", "stopped"} /\ consumer \in {"running", "stopped"}
    /\ main \in {"joining", "returned", "dead"}
    /\ producer = "running" => n <= Over

\* What the ring holds, from readpos on.
Count == IF writepos >= readpos THEN writepos - readpos
                                ELSE writepos + BufferSize - readpos
Slot(i) == IF readpos + i <= BufferSize THEN readpos + i - 1
                                        ELSE readpos + i - 1 - BufferSize
Contents == [i \in 1 .. Count |-> buffer[Slot(i)]]

\* What get returned last.
Delivered == IF got = <<>> THEN Over ELSE got[Len(got)]

Fifo == INSTANCE BoundedFifo
        WITH Capacity <- BufferSize - 1, items <- Contents, out <- Delivered

\* The ring with its two positions is a bounded queue: nothing is overwritten,
\* read twice or out of order when the positions wrap around.
RingRefinesFifo == Fifo!Spec

\* The program comes to its end, and the consumer has got all the numbers by then,
\* although main joins no producer.
AllConsumed == <>(main # "joining" /\ got = [i \in 1 .. Last + 1 |-> i - 1])
============================================================================
