---------------------------- MODULE SharedNumbers ----------------------------
(***************************************************************************)
(* The programs whose threads or processes share numbers, and what they    *)
(* promise together.  They share no state with each other.                 *)
(***************************************************************************)
EXTENDS TicketSale, Semaphores

\* Tickets, increments and goods are neither lost nor made, whoever sells, refills,
\* produces and buys at the same time.
NothingLost == NoTicketLost /\ NumbersAddUp
=============================================================================
