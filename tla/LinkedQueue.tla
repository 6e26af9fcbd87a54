---------------------------- MODULE LinkedQueue -----------------------------
(***************************************************************************)
(* The work queue of the net disk server and of the thread pool servers: a *)
(* linked list with a dummy head, a tail pointer and a size.  Its callers  *)
(* hold queue_lock, so each operation is one step.  Nodes are addresses:   *)
(* calloc takes one that is not in use, and free gives it back, so that a  *)
(* pointer into freed memory meets whatever is there then.                 *)
(***************************************************************************)
EXTENDS Naturals, Sequences

CONSTANTS
    Nodes,          \* addresses of nodes
    Dummy,          \* q->head
    Null,
    QueueCapacity   \* QUEUE_CAPACITY

ASSUME QueueConstants ==
    /\ Dummy \notin Nodes /\ Null \notin Nodes \cup {Dummy}
    /\ QueueCapacity \in Nat

VARIABLES
    links,   \* the field next of every node
    tail,    \* q->tail
    size,    \* q->size
    live,    \* the nodes that are allocated
    held,    \* those that a worker has popped and not freed
    buf,     \* the node that the last pop delivered
    phase,   \* "open", then "closing" with the exit node, "deleting", "deleted"
    items    \* history: the nodes in the order they should come out

queueVars == <<links, tail, size, live, held, buf, phase, items>>

Pointers == Nodes \cup {Dummy}

QueueInit ==
    /\ links = [p \in Pointers |-> Null]
    /\ tail = Dummy
    /\ size = 0
    /\ live = {} /\ held = {}
    /\ buf \in Nodes
    /\ phase = "open"
    /\ items = <<>>

----------------------------------------------------------------------------
\* calloc of a node that is linked behind p.
Linked(p, n) == [links EXCEPT ![n] = Null, ![p] = n]

\* Mutant: an insert into the empty queue leaves the tail where it was.
QueueInsertEmpty ==
    \E n \in Nodes \ live :
       /\ phase = "open"
       /\ live' = live \cup {n}
       /\ IF size = QueueCapacity THEN UNCHANGED <<links, tail, size, items>>
          ELSE /\ links' = Linked(IF size = 0 THEN Dummy ELSE tail, n)
               /\ tail' = IF size = 0 THEN tail ELSE n
               /\ size' = size + 1
               /\ items' = Append(items, n)
       /\ UNCHANGED <<held, buf, phase>>

\* queue_insert of a new node.  A full queue refuses it, and no caller looks.
QueueInsert ==
    \E n \in Nodes \ live :
       /\ phase = "open"
       /\ live' = live \cup {n}
       /\ IF size = QueueCapacity THEN UNCHANGED <<links, tail, size, items>>
          ELSE /\ links' = Linked(IF size = 0 THEN Dummy ELSE tail, n)
               /\ tail' = n
               /\ size' = size + 1
               /\ items' = Append(items, n)
       /\ UNCHANGED <<held, buf, phase>>

\* The first node is unlinked.
Unlink == /\ buf' = links[Dummy]
          /\ links' = [links EXCEPT ![Dummy] = links[buf']]
          /\ items' = Tail(items)

\* queue_pop.  Its test of 0 == q->size-- is never true after the test of an
\* empty queue, so that the tail stays on the popped node.
QueuePop ==
    /\ phase \in {"open", "closing"}
    /\ size # 0
    /\ Unlink
    /\ size' = size - 1
    /\ held' = held \cup {buf'}
    /\ UNCHANGED <<tail, live, phase>>

\* The worker frees its task; free and later users of the memory write to it.
FreeTask ==
    \E n \in held : \E garbage \in Pointers \cup {Null} :
       /\ held' = held \ {n} /\ live' = live \ {n}
       /\ links' = [links EXCEPT ![n] = garbage]
       /\ UNCHANGED <<tail, size, buf, phase, items>>

\* queue_head_insert_exit: once, by main, which inserts nothing afterwards.
QueueHeadInsertExit ==
    \E n \in Nodes \ live :
       /\ phase = "open" /\ phase' = "closing"
       /\ live' = live \cup {n}
       /\ links' = [links EXCEPT ![n] = links[Dummy], ![Dummy] = n]
       /\ size' = size + 1
       /\ items' = <<n>> \o items
       /\ UNCHANGED <<tail, held, buf>>

\* queue_delete, after the workers have ended, with or without an exit node (the
\* thread pool servers have none): the loop frees node after node,
\* then the head.
QueueDelete ==
    /\ phase # "deleted" /\ held = {}
    /\ IF links[Dummy] # Null
         THEN /\ Unlink
              /\ live' = live \ {buf'}
              /\ phase' = "deleting"
              /\ UNCHANGED size
         ELSE /\ phase' = "deleted"
              /\ size' = 0
              /\ UNCHANGED <<links, live, buf, items>>
    /\ UNCHANGED <<tail, held>>

QueueNext == QueueInsert \/ QueuePop \/ FreeTask \/ QueueHeadInsertExit \/ QueueDelete

QueueSpec == QueueInit /\ [][QueueNext]_queueVars

----------------------------------------------------------------------------
(* Properties *)

QueueTypeOK ==
    /\ links \in [Pointers -> Pointers \cup {Null}]
    /\ tail \in Pointers /\ size \in Nat
    /\ live \subseteq Nodes /\ held \subseteq live
    /\ buf \in Nodes
    /\ phase \in {"open", "closing", "deleting", "deleted"}
    /\ items \in Seq(Nodes)

\* What makes the queue correct although the tail may point to a freed node: the
\* links lead through exactly the nodes that are due, each of them allocated, and
\* the tail is right whenever queue_insert uses it.
QueueShape ==
    /\ \A i, j \in 1 .. Len(items) : items[i] = items[j] => i = j
    /\ \A i \in 1 .. Len(items) : items[i] \in live \ held
    /\ links[Dummy] = IF items = <<>> THEN Null ELSE items[1]
    /\ \A i \in 1 .. Len(items) :
          links[items[i]] = IF i = Len(items) THEN Null ELSE items[i + 1]
    /\ phase \in {"open", "closing"} => size = Len(items)
    /\ phase = "open" /\ size # 0 => tail = items[Len(items)]
    /\ phase = "open" => size <= QueueCapacity
    /\ phase = "deleted" => items = <<>>

Queue == INSTANCE BoundedFifo WITH Data <- Nodes, Capacity <- QueueCapacity, out <- buf

\* The linked list is a bounded queue, and the exit node comes out before the tasks
\* that are pending: no task is lost, repeated or overtaken, and no freed node is
\* delivered, though queue_pop never resets the tail.
LinkedRefinesFifo == Queue!Spec
============================================================================
