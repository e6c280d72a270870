----------------------------- MODULE LinkedList -----------------------------
(***************************************************************************)
(* The intrusive doubly linked list behind every wait list                 *)
(* (src/src/container/intrusive/linked_list.rs): pointers only.            *)
(*                                                                         *)
(* A pointer is a node in Node, the base node of a list in List, or Nil.  *)
(* The lists are rings through their base.  items[l] is the sequence the   *)
(* documentation speaks of, kept beside the pointers as an auxiliary       *)
(* variable: no action reads it, and Represents says the pointers agree.   *)
(***************************************************************************)
EXTENDS Integers, Sequences, FiniteSets

CONSTANTS Node, List, Nil

ASSUME PointersAssumption ==
    /\ Node \cap List = {}
    /\ Nil \notin Node \cup List

VARIABLES
    prev, next,   \* Node.prev, Node.next
    items         \* auxiliary: the contents of each list, front first

lvars == <<prev, next, items>>

Base == Node \cup List

ListInit ==
    /\ prev = [x \in Base |-> Nil]
    /\ next = [x \in Base |-> Nil]
    /\ items = [l \in List |-> <<>>]

-----------------------------------------------------------------------------
(* Node *)

Linked(x) == prev[x] # Nil

\* set_ptrs(x, Some(p), Some(n)): the two pairs are written in this order
SetPtrs(x, p, n) ==
    /\ prev' = [prev EXCEPT ![x] = p, ![n] = x]
    /\ next' = [next EXCEPT ![p] = x, ![x] = n]

\* unlink_unchecked: both pointers are nulled before the neighbours are joined
UnlinkPtrs(x) ==
    /\ prev' = [prev EXCEPT ![x] = Nil, ![next[x]] = prev[x]]
    /\ next' = [next EXCEPT ![x] = Nil, ![prev[x]] = next[x]]

-----------------------------------------------------------------------------
(* LinkedList; every method but new needs a pinned list *)

Pinned(l) == Linked(l)
Head_(l) == next[l]
Tail_(l) == next[l]
IsEmpty(l) == Head_(l) = l

\* s less the place where x is
Without(s, x) ==
    LET At(k) == s[k] = x
        at == CHOOSE k \in 1..Len(s) : At(k)
    IN  IF \E k \in 1..Len(s) : At(k)
        THEN [i \in 1..(Len(s) - 1) |-> s[IF i < at THEN i ELSE i + 1]]
        ELSE s

\* pin, once and before any node is linked: set_circular
Pin(l) ==
    /\ ~Pinned(l)
    /\ prev' = [prev EXCEPT ![l] = l]
    /\ next' = [next EXCEPT ![l] = l]
    /\ UNCHANGED items

\* an append that leaves the base's prev pointer alone
AppendHalf(l, x) ==
    /\ Pinned(l) /\ ~Linked(x)
    /\ prev' = [prev EXCEPT ![x] = prev[l]]
    /\ next' = [next EXCEPT ![prev[l]] = x, ![x] = l]
    /\ items' = [items EXCEPT ![l] = Append(@, x)]

\* append; the caller's duty is that the node is not linked
AppendNode(l, x) ==
    /\ Pinned(l) /\ ~Linked(x)
    /\ SetPtrs(x, prev[l], l)
    /\ items' = [items EXCEPT ![l] = Append(@, x)]

\* unlink, and unlink_unchecked: the node takes itself out of whatever list
Unlink(x) ==
    /\ Linked(x)
    /\ UnlinkPtrs(x)
    /\ items' = [l \in List |-> Without(items[l], x)]

\* pop_edge(head)
PopFront(l) ==
    /\ Pinned(l)
    /\ IF IsEmpty(l)
         THEN UNCHANGED <<prev, next, items>>
         ELSE /\ UnlinkPtrs(Head_(l))
              /\ items' = [items EXCEPT ![l] = Tail(@)]

\* pop_edge(tail); tail reads base.next, so the node that goes is the front one
PopBack(l) ==
    /\ Pinned(l)
    /\ IF IsEmpty(l)
         THEN UNCHANGED <<prev, next, items>>
         ELSE /\ UnlinkPtrs(Tail_(l))
              /\ items' = [items EXCEPT ![l] = Without(@, Tail_(l))]

\* move_elements of l into the empty list m
MoveElements(l, m) ==
    /\ Pinned(l) /\ Pinned(m) /\ IsEmpty(m)
    /\ IF IsEmpty(l)
         THEN UNCHANGED <<prev, next, items>>
         ELSE /\ prev' = [prev EXCEPT ![m] = prev[l], ![next[l]] = m, ![l] = l]
              /\ next' = [next EXCEPT ![prev[l]] = m, ![m] = next[l], ![l] = l]
              /\ items' = [items EXCEPT ![m] = items[l], ![l] = <<>>]

-----------------------------------------------------------------------------

ListNext ==
    \/ \E l \in List : Pin(l) \/ PopFront(l) \/ PopBack(l)
    \/ \E l \in List, x \in Node : AppendNode(l, x)
    \/ \E x \in Node : Unlink(x)
    \/ \E l, m \in List : MoveElements(l, m)

ListSpec == ListInit /\ [][ListNext]_lvars

-----------------------------------------------------------------------------
(* Properties *)

Ring(l) == [i \in 0..(Len(items[l]) + 1) |->
              IF i \in 1..Len(items[l]) THEN items[l][i] ELSE l]

\* The pointers spell the sequence, both ways round: following next from the
\* base visits the nodes front to back, following prev back to front, whatever
\* was appended, popped, unlinked from the middle or moved before.
Represents ==
    \A l \in List : Pinned(l) =>
        \A i \in 0..Len(items[l]) :
            /\ next[Ring(l)[i]] = Ring(l)[i + 1]
            /\ prev[Ring(l)[i + 1]] = Ring(l)[i]

\* A node is linked exactly when it is in some list, in one list only and there
\* once: what the code relies on when it frees a waiter that is not linked.
InOneList ==
    /\ \A x \in Node :
         Linked(x) <=> \E l \in List : \E i \in 1..Len(items[l]) : items[l][i] = x
    /\ \A l, m \in List : \A i \in 1..Len(items[l]), j \in 1..Len(items[m]) :
         items[l][i] = items[m][j] => l = m /\ i = j

\* The pointers are the lists, and the lists share nothing.
ListSound == Represents /\ InOneList
=============================================================================
