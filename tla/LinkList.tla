------------------------------ MODULE LinkList ------------------------------
(***************************************************************************)
(* The linked list with a head node and a pointer to its last node that ls *)
(* (20180621/ls_task) and the chat room (20180704/group_chat_task) share.  *)
(* contents is what the list should hold, kept next to the pointers.       *)
(***************************************************************************)
EXTENDS Naturals, Sequences, FiniteSets

CONSTANTS
    Elements,  \* nodes that malloc can return
    Keys,      \* data
    HeadNode,     \* the head node
    Nil        \* NULL

ASSUME ListConstants ==
    /\ IsFiniteSet(Elements) /\ Keys \subseteq Nat /\ Keys # {}
    /\ HeadNode \notin Elements /\ Nil \notin Elements \union {HeadNode}

VARIABLES
    next, rear,
    data,
    contents   \* the nodes, in order

listVars == <<next, rear, data, contents>>

\* The i-th node that the pointers lead to from the head.
NodeAt[i \in 0 .. Len(contents)] == IF i = 0 THEN HeadNode ELSE next[NodeAt[i - 1]]

Listed == {contents[i] : i \in DOMAIN contents}
Unused == Elements \ (Listed \union {rear})
Dangling == rear \notin Listed \union {HeadNode}

InitList ==
    /\ next = [n \in Elements \union {HeadNode} |-> Nil]
    /\ rear = HeadNode
    /\ data = [n \in Elements |-> CHOOSE k \in Keys : TRUE]
    /\ contents = <<>>

\* The caller's data in a new node.
Fill(n) == \E k \in Keys : data' = [data EXCEPT ![n] = k]

ListHeadInsert(n) ==
    /\ Fill(n)
    /\ rear' = IF rear = HeadNode THEN n ELSE rear
    /\ next' = [next EXCEPT ![n] = next[HeadNode], ![HeadNode] = n]
    /\ contents' = <<n>> \o contents

ListTailInsert(n) ==
    /\ Fill(n)
    /\ next' = [next EXCEPT ![n] = Nil, ![rear] = n]
    /\ rear' = n
    /\ contents' = Append(contents, n)

\* The predecessor of the first node with larger data; without one the last node.
Place(k) ==
    LET larger == {i \in DOMAIN contents : k < data[contents[i]]}
        at == CHOOSE i \in larger : \A j \in larger : i <= j
    IN  IF larger = {} THEN Len(contents) ELSE at - 1

ListSortInsert(n) ==
    \E k \in Keys :
      LET i == Place(k) IN
      /\ data' = [data EXCEPT ![n] = k]
      /\ next' = [next EXCEPT ![n] = next[NodeAt[i]], ![NodeAt[i]] = n]
      /\ rear' = IF next[NodeAt[i]] = Nil THEN n ELSE rear
      /\ contents' = SubSeq(contents, 1, i) \o <<n>> \o SubSeq(contents, i + 1, Len(contents))

\* deleteNode on the predecessor of the first node with the key; rear moves with the
\* last node.
ListDeleteByKey(k) ==
    \E i \in DOMAIN contents :
      /\ data[contents[i]] = k /\ \A j \in 1 .. i - 1 : data[contents[j]] # k
      /\ LET p == NodeAt[i - 1] IN
         /\ next' = [next EXCEPT ![p] = next[next[p]], ![next[p]] = Nil]
         /\ rear' = IF next[next[p]] = Nil THEN p ELSE rear
      /\ contents' = SubSeq(contents, 1, i - 1) \o SubSeq(contents, i + 1, Len(contents))
      /\ UNCHANGED data

\* The first num nodes.  Only a num larger than the list moves rear back to the head:
\* an exact one leaves it at a node that is free.
ListDeleteByNum(num) ==
    LET m == IF num < Len(contents) THEN num ELSE Len(contents)
        deleted == {contents[i] : i \in 1 .. m}
    IN  /\ next' = [n \in Elements \union {HeadNode} |->
                      IF n = HeadNode THEN (IF m = Len(contents) THEN Nil ELSE contents[m + 1])
                      ELSE IF n \in deleted THEN Nil ELSE next[n]]
        /\ rear' = IF num > Len(contents) THEN HeadNode ELSE rear
        /\ contents' = SubSeq(contents, m + 1, Len(contents))
        /\ UNCHANGED data

ClearList ==
    /\ next' = [n \in Elements \union {HeadNode} |-> Nil]
    /\ rear' = HeadNode
    /\ contents' = <<>>
    /\ UNCHANGED data

\* The programs insert and delete; after a delete that leaves rear dangling the next
\* insert would write to the freed node, and the model ends.
ListNext ==
    /\ ~Dangling
    /\ \/ \E n \in Unused : ListHeadInsert(n) \/ ListTailInsert(n) \/ ListSortInsert(n)
       \/ \E k \in Keys : ListDeleteByKey(k)
       \/ \E num \in 1 .. Cardinality(Elements) : ListDeleteByNum(num)
       \/ ClearList

ListSpec == InitList /\ [][ListNext]_listVars

----------------------------------------------------------------------------
(* Properties *)

\* The pointers lead from the head through the nodes that the operations describe, in
\* their order, to NULL; and rear is the last of them, the head when there are none.  Only
\* a delete by number that empties the list exactly leaves rear behind.
ListHoldsContents ==
    /\ \A i \in DOMAIN contents : NodeAt[i] = contents[i]
    /\ next[NodeAt[Len(contents)]] = Nil
    /\ contents # <<>> => rear = contents[Len(contents)]
    /\ rear # HeadNode /\ contents = <<>> => next[rear] = Nil
=============================================================================
