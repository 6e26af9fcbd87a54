----------------------------- MODULE TicketSale -----------------------------
(***************************************************************************)
(* 20180702/pthread_sale_tickets.c: windows that sell tickets, and one     *)
(* that puts more on sale when a condition variable says that they are     *)
(* sold out.  One step is one critical section, or one access to a         *)
(* variable that main and a new thread share without the mutex.            *)
(***************************************************************************)
EXTENDS Naturals

CONSTANTS
    SaleWindows,  \* SALE_WINDOWS
    Times,        \* TIMES
    Batch         \* tickets at the start and in each refill, 20

ASSUME SaleConstants == SaleWindows \in Nat /\ Times \in Nat /\ Batch \in Nat

Windows == 1 .. SaleWindows

VARIABLES
    ticket_num, thread_ready, trigger,
    seller,     \* what each selling thread does
    setter,     \* what the refilling thread does
    times,      \* refills
    boss,       \* what main does
    issued,     \* history: tickets put on sale
    sold,       \* total_sale of each window
    spurious    \* history: pthread_cond_wait returned without a signal

startVars == <<thread_ready, trigger, boss>>
ticketVars  == <<ticket_num, issued, sold>>
setVars   == <<setter, times, spurious>>
saleVars == <<startVars, ticketVars, setVars, seller>>

SaleInit ==
    /\ ticket_num = Batch /\ issued = Batch
    /\ thread_ready = FALSE /\ trigger = 0
    /\ seller = [w \in Windows |-> "none"] /\ sold = [w \in Windows |-> 0]
    /\ setter = "none" /\ times = 0
    /\ boss = "creating"
    /\ spurious = FALSE

----------------------------------------------------------------------------
(* main *)

New == {w \in Windows : seller[w] = "none"}

\* pthread_create of the next window.  The windows that exist sell already.
Create ==
    /\ boss = "creating"
    /\ \E w \in New : /\ \A v \in New : w <= v
                      /\ seller' = [seller EXCEPT ![w] = "starting"]
    /\ boss' = "started"
    /\ UNCHANGED <<thread_ready, trigger, ticketVars, setVars>>

\* main spins until the new thread has read its number.
Ready ==
    /\ boss = "started" /\ thread_ready
    /\ thread_ready' = FALSE
    /\ boss' = "creating"
    /\ UNCHANGED <<trigger, ticketVars, setVars, seller>>

\* main spins until every window has counted itself, and creates the setter.
CreateSetter ==
    /\ boss = "creating" /\ New = {} /\ trigger = SaleWindows
    /\ setter' = "running"
    /\ boss' = "joining"
    /\ UNCHANGED <<thread_ready, trigger, ticketVars, times, spurious, seller>>

JoinWindows ==
    /\ boss = "joining" /\ setter = "stopped"
    /\ \A w \in Windows : seller[w] = "stopped"
    /\ boss' = "ended"
    /\ UNCHANGED <<thread_ready, trigger, ticketVars, setVars, seller>>

----------------------------------------------------------------------------
(* saleWindows *)

ReadNumber(w) ==
    /\ seller[w] = "starting"
    /\ thread_ready' = TRUE
    /\ seller' = [seller EXCEPT ![w] = "counting"]
    /\ UNCHANGED <<trigger, boss, ticketVars, setVars>>

CountItself(w) ==
    /\ seller[w] = "counting"
    /\ trigger' = trigger + 1
    /\ seller' = [seller EXCEPT ![w] = "selling"]
    /\ UNCHANGED <<thread_ready, boss, ticketVars, setVars>>

\* Mutant: the signal comes with one ticket left.
SellEarly(w) ==
    /\ seller[w] = "selling" /\ ticket_num > 0
    /\ ticket_num' = ticket_num - 1
    /\ sold' = [sold EXCEPT ![w] = @ + 1]
    /\ setter' = IF ticket_num' = 1 /\ setter = "waiting" THEN "signalled" ELSE setter
    /\ UNCHANGED <<startVars, issued, times, spurious, seller>>

\* A ticket is sold, and the last one is signalled.
Sell(w) ==
    /\ seller[w] = "selling" /\ ticket_num > 0
    /\ ticket_num' = ticket_num - 1
    /\ sold' = [sold EXCEPT ![w] = @ + 1]
    /\ setter' = IF ticket_num' = 0 /\ setter = "waiting" THEN "signalled" ELSE setter
    /\ UNCHANGED <<startVars, issued, times, spurious, seller>>

\* The window closes at the first empty till, whatever will be refilled.
Close(w) ==
    /\ seller[w] = "selling" /\ ticket_num = 0
    /\ seller' = [seller EXCEPT ![w] = "stopped"]
    /\ UNCHANGED <<startVars, ticketVars, setVars>>

Window(w) == ReadNumber(w) \/ CountItself(w) \/ Sell(w) \/ Close(w)

----------------------------------------------------------------------------
(* setWindows *)

WaitSoldOut ==
    /\ setter = "running" /\ times < Times /\ ticket_num > 0
    /\ setter' = "waiting"
    /\ UNCHANGED <<startVars, ticketVars, times, spurious, seller>>

\* pthread_cond_wait may return without a signal.
WakeUnasked ==
    /\ setter = "waiting"
    /\ setter' = "signalled" /\ spurious' = TRUE
    /\ UNCHANGED <<startVars, ticketVars, times, seller>>

\* The tickets are set, not added, after a wait or when there were none.
Refill ==
    /\ setter = "signalled" \/ (setter = "running" /\ times < Times /\ ticket_num = 0)
    /\ ticket_num' = Batch /\ issued' = issued + Batch
    /\ times' = times + 1
    /\ setter' = "running"
    /\ UNCHANGED <<startVars, sold, spurious, seller>>

StopSetting ==
    /\ setter = "running" /\ times = Times
    /\ setter' = "stopped"
    /\ UNCHANGED <<startVars, ticketVars, times, spurious, seller>>

SetWindow == WaitSoldOut \/ Refill \/ StopSetting

Main == Create \/ Ready \/ CreateSetter \/ JoinWindows

SaleNext == Main \/ SetWindow \/ WakeUnasked \/ \E w \in Windows : Window(w)

SaleSpec == SaleInit /\ [][SaleNext]_saleVars

\* All threads are scheduled; spurious wakeups need not happen.
SaleFairness == WF_saleVars(Main) /\ WF_saleVars(SetWindow) /\ \A w \in Windows : WF_saleVars(Window(w))

----------------------------------------------------------------------------
(* Properties *)

SoldBy[w \in 0 .. SaleWindows] == IF w = 0 THEN 0 ELSE SoldBy[w - 1] + sold[w]
TotalSold == SoldBy[SaleWindows]

\* Type invariant of the sale.
SaleTypeOK ==
    /\ ticket_num \in 0 .. Batch /\ thread_ready \in BOOLEAN
    /\ trigger \in 0 .. SaleWindows
    /\ seller \in [Windows -> {"none", "starting", "counting", "selling", "stopped"}]
    /\ setter \in {"none", "running", "waiting", "signalled", "stopped"}
    /\ times \in 0 .. Times
    /\ boss \in {"creating", "started", "joining", "ended"}
    /\ spurious \in BOOLEAN

\* No ticket is lost, though a refill overwrites ticket_num without a test after
\* its wait: a signal means that the tickets are sold out, and they stay so until
\* the setter comes.  A wakeup without a signal is the exception.
NoTicketLost == spurious \/ issued = TotalSold + ticket_num

\* The windows have all closed at an empty till before a refill, and the setter
\* waits for them to sell it.
NobodySells ==
    /\ setter = "waiting" /\ ticket_num = Batch
    /\ \A w \in Windows : seller[w] = "stopped"

\* The sale ends and main joins its threads, or the windows have closed too early
\* and the setter waits for ever: nothing else can stop it.
SaleSettles == <>(boss = "ended") \/ <>[]NobodySells
============================================================================
