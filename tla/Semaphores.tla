----------------------------- MODULE Semaphores -----------------------------
(***************************************************************************)
(* The exercises in which two processes, or a thread and main, share a     *)
(* number.  The first is the child or the producer, the second the parent  *)
(* or the customer.  exercise is                                           *)
(*   "unlocked"  20180626/task7.c: both increment shared memory;           *)
(*   "counter"   20180627/semaphore_.c, and with a mutex pthread_add.c:    *)
(*               they do so under a lock;                                  *)
(*   "tickets"   20180628/sale_tickets.c: two windows sell under a lock;   *)
(*   "stock"     20180628/pro_cus.c: two semaphores, free and filled;      *)
(*   "undo"      os7/Process/os7_87.c: one semaphore, the producer ends;   *)
(*   "market"    20180702/pthread_cus_sale.c: store and product under a    *)
(*               mutex, and a customer who does not wait for long.         *)
(* Every semop has SEM_UNDO: when a process ends, the kernel takes back    *)
(* what it did, and stops at 0.                                            *)
(***************************************************************************)
EXTENDS Integers

CONSTANTS
    Rounds,  \* increments, or operations of one process
    Stored   \* tickets, free places, goods in store

ASSUME SemaphoreConstants == Rounds \in Nat \ {0} /\ Stored \in Nat

VARIABLES
    exercise,
    sem,    \* the values of the semaphores 0 and 1; the lock is number 0
    undo,   \* what the kernel will add to them when a process ends
    step,   \* where a process is
    value,  \* p[0], or data.product
    copy,   \* the register with which a process increments it
    turns,  \* increments, sales or operations of a process
    store   \* data.store

semVars == <<exercise, sem, undo, step, value, copy, turns, store>>

Procs == {"first", "second"}
Locked == exercise \in {"counter", "tickets", "market"}
IsEnd(s) == s \in {"ended", "killed"}

SemInit ==
    /\ exercise \in {"unlocked", "counter", "tickets", "stock", "undo", "market"}
    /\ sem = [s \in {0, 1} |-> IF s = 1 THEN 0 ELSE IF Locked THEN 1
                               ELSE IF exercise = "stock" THEN Stored ELSE 0]
    /\ undo = [p \in Procs |-> [s \in {0, 1} |-> 0]]
    /\ step = [p \in Procs |-> "start"]
    /\ value = (IF exercise = "tickets" THEN Stored ELSE 0)
    /\ store = (IF exercise = "market" THEN Stored ELSE 0)
    /\ copy = [p \in Procs |-> 0] /\ turns = [p \in Procs |-> 0]

At(p, s, next) == step[p] = s /\ step' = [step EXCEPT ![p] = next]

\* semop; a mutex is a semaphore without undo.
Semop(p, s, n) ==
    /\ sem[s] + n >= 0
    /\ sem' = [sem EXCEPT ![s] = @ + n]
    /\ undo' = IF exercise = "market" THEN undo ELSE [undo EXCEPT ![p][s] = @ - n]

\* exit_sem of the kernel
AfterUndo(p) == [s \in {0, 1} |-> IF sem[s] + undo[p][s] < 0 THEN 0 ELSE sem[s] + undo[p][s]]

\* The windows, and the threads of the market, start one after the other.
Start(p) ==
    /\ p = "second" /\ exercise \in {"tickets", "market"} => step["first"] # "start"
    /\ At(p, "start", CASE Locked                                -> "lock"
                        [] exercise = "unlocked"                 -> "read"
                        [] exercise = "undo" /\ p = "first"      -> "give"
                        [] OTHER                                 -> "take")
    /\ UNCHANGED <<exercise, sem, undo, value, copy, turns, store>>

Lock(p) ==
    /\ At(p, "lock", IF exercise = "market" THEN "trade" ELSE "read")
    /\ Semop(p, 0, -1)
    /\ UNCHANGED <<exercise, value, copy, turns, store>>

----------------------------------------------------------------------------
(* The counters and the windows *)

\* The value is read; a window finds out whether there is a ticket left.
Load(p) ==
    /\ At(p, "read", IF exercise = "tickets" /\ value = 0 THEN "last" ELSE "write")
    /\ copy' = [copy EXCEPT ![p] = value]
    /\ UNCHANGED <<exercise, sem, undo, value, turns, store>>

\* The value is written, and a counter's loop ends after Rounds times.
Increment(p) ==
    /\ At(p, "write", CASE exercise = "tickets"                               -> "unlock"
                        [] exercise = "counter" /\ turns[p] + 1 = Rounds      -> "last"
                        [] exercise = "counter" /\ turns[p] + 1 # Rounds      -> "unlock"
                        [] exercise = "unlocked" /\ turns[p] + 1 = Rounds     -> "exit"
                        [] OTHER                                              -> "read")
    /\ value' = copy[p] + (IF exercise = "tickets" THEN -1 ELSE 1)
    /\ copy' = [copy EXCEPT ![p] = 0]
    /\ turns' = [turns EXCEPT ![p] = @ + 1]
    /\ UNCHANGED <<exercise, sem, undo, store>>

Unlock(p) ==
    /\ At(p, "unlock", "lock") \/ At(p, "last", "exit") \/ At(p, "empty", "timing")
    /\ Semop(p, 0, 1)
    /\ UNCHANGED <<exercise, value, copy, turns, store>>

----------------------------------------------------------------------------
(* The semaphores as counters *)

From(p) == IF exercise = "stock" /\ p = "second" THEN 1 ELSE 0
To(p) == IF exercise = "stock" /\ p = "first" THEN 1 ELSE 0

\* The loops of pro_cus.c have no end; Rounds bounds them.
Take(p) ==
    /\ turns[p] < Rounds
    /\ At(p, "take", IF exercise = "stock" THEN "give"
                     ELSE IF turns[p] + 1 = Rounds THEN "exit" ELSE "take")
    /\ Semop(p, From(p), -1)
    /\ turns' = [turns EXCEPT ![p] = IF exercise = "undo" THEN @ + 1 ELSE @]
    /\ UNCHANGED <<exercise, value, copy, store>>

Give(p) ==
    /\ At(p, "give", IF exercise = "stock" THEN "take"
                     ELSE IF turns[p] + 1 = Rounds THEN "exit" ELSE "give")
    /\ Semop(p, To(p), 1)
    /\ turns' = [turns EXCEPT ![p] = @ + 1]
    /\ UNCHANGED <<exercise, value, copy, store>>

----------------------------------------------------------------------------
(* The market *)

Produce ==
    /\ At("first", "trade", IF store > 0 THEN "unlock" ELSE "last")
    /\ IF store > 0 THEN store' = store - 1 /\ value' = value + 1 ELSE UNCHANGED <<store, value>>
    /\ UNCHANGED <<exercise, sem, undo, copy, turns>>

Purchase ==
    /\ At("second", "trade", IF value > 0 THEN "unlock" ELSE "empty")
    /\ value' = IF value > 0 THEN value - 1 ELSE 0
    /\ turns' = [turns EXCEPT !["second"] = IF value > 0 THEN @ + 1 ELSE @]
    /\ UNCHANGED <<exercise, sem, undo, copy, store>>

\* The customer looks at the product without the lock, for three seconds.
TimeOut ==
    /\ IF value = 0 THEN At("second", "timing", "exit") ELSE At("second", "timing", "lock")
    /\ UNCHANGED <<exercise, sem, undo, value, copy, turns, store>>

----------------------------------------------------------------------------
(* The end of a process.  The parent of a counter or a window waits for its child. *)

End(p) ==
    /\ p = "second" /\ exercise \in {"unlocked", "counter", "tickets"} => IsEnd(step["first"])
    /\ At(p, "exit", "ended")
    /\ sem' = AfterUndo(p)
    /\ UNCHANGED <<exercise, undo, value, copy, turns, store>>

\* The child is killed by a signal, anywhere.
KillChild ==
    /\ exercise \in {"counter", "tickets", "stock"}
    /\ ~IsEnd(step["first"])
    /\ step' = [step EXCEPT !["first"] = "killed"]
    /\ sem' = AfterUndo("first")
    /\ UNCHANGED <<exercise, undo, value, copy, turns, store>>

ProcStep(p) == Start(p) \/ Lock(p) \/ Load(p) \/ Increment(p) \/ Unlock(p) \/ Take(p) \/ Give(p) \/ End(p)
MarketStep == Produce \/ Purchase \/ TimeOut

SemNext == (\E p \in Procs : ProcStep(p)) \/ MarketStep \/ KillChild

SemSpec == SemInit /\ [][SemNext]_semVars

\* Both are scheduled; nobody has to be killed.
SemFairness == WF_semVars(MarketStep) /\ \A p \in Procs : WF_semVars(ProcStep(p))

----------------------------------------------------------------------------
(* Properties *)

SemShape ==
    /\ sem \in [{0, 1} -> 0 .. Stored + Rounds + 1] /\ value >= 0 /\ store >= 0
    /\ turns \in [Procs -> 0 .. Stored + Rounds]

Holding(p) == step[p] \in {"read", "write", "trade", "unlock", "last", "empty"}
Busy(p) == IF step[p] = "give" THEN 1 ELSE 0

\* Under the lock no increment, ticket or product is lost, and one process at a time
\* holds it, also after the other was killed in the middle.  Without it the counter
\* loses increments and never invents one.  Free and filled places are as many as at
\* the start while the producer lives; afterwards the kernel has taken its operations
\* back, and what the customer had consumed by then counts twice.
NumbersAddUp ==
    LET done == turns["first"] + turns["second"] IN
    /\ Locked => ~(Holding("first") /\ Holding("second"))
    /\ exercise = "counter"  => value = done
    /\ exercise = "tickets"  => value + done = Stored
    /\ exercise = "unlocked" => value <= done
    /\ exercise = "market"   => store + value + turns["second"] = Stored
    /\ exercise = "stock"    =>
         IF step["first"] # "killed"
         THEN sem[0] + sem[1] + Busy("first") + Busy("second") = Stored
         ELSE sem[0] + sem[1] + Busy("second") >= Stored
    /\ exercise = "undo" /\ (\A p \in Procs : ~IsEnd(step[p])) => sem[0] = turns["first"] - turns["second"]

\* Every program ends, also when a process is killed while it holds the lock.  Two do
\* not: the customer whose producer is gone may wait for ever.
SemaphoresEnd ==
    /\ <>(exercise \in {"stock", "undo"} \/ \A p \in Procs : IsEnd(step[p]))
    /\ <>(exercise = "stock" => turns["second"] = Rounds \/ step["first"] = "killed")
=============================================================================
