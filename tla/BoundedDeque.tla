---------------------------- MODULE BoundedDeque ----------------------------
(***************************************************************************)
(* What the comments of Utility/AQueue.h promise of a queue, with no ring, *)
(* no index and no buffer: a sequence of at most `capacity' items, oldest  *)
(* first.  Appending to a full queue drops the oldest item; prepending to  *)
(* a full queue is refused.  `ret' is the code the last call returned.     *)
(***************************************************************************)
EXTENDS Integers, Sequences

CONSTANTS Queues,      \* the queue objects of the program
          Elements,    \* the values stored in them
          Capacities   \* the capacities the program asks for

VARIABLES deque,       \* deque[x] = [capacity |-> , items |-> ]
          ret

vars == <<deque, ret>>

EmptyOf(c) == [capacity |-> c, items |-> << >>]

Init == /\ deque \in [Queues -> {EmptyOf(c) : c \in Capacities \cup {0}}]
        /\ ret = 0

Set(x, items) ==
  deque' = [deque EXCEPT ![x] = [capacity |-> @.capacity, items |-> items]]

PushBack(x, el) ==
  LET d == deque[x] IN
  \/ /\ d.capacity = 0
     /\ ret' = -1 /\ UNCHANGED deque
  \/ /\ Len(d.items) < d.capacity
     /\ Set(x, Append(d.items, el)) /\ ret' = 0
  \/ /\ d.capacity > 0 /\ Len(d.items) = d.capacity
     /\ Set(x, Append(Tail(d.items), el)) /\ ret' = 1

PushFront(x, el) ==
  LET d == deque[x] IN
  \/ /\ d.capacity = 0
     /\ ret' = -1 /\ UNCHANGED deque
  \/ /\ Len(d.items) < d.capacity
     /\ Set(x, <<el>> \o d.items) /\ ret' = 0
  \/ /\ d.capacity > 0 /\ Len(d.items) = d.capacity
     /\ ret' = 1 /\ UNCHANGED deque

PopFront(x) == /\ deque[x].items # << >>
               /\ Set(x, Tail(deque[x].items))
               /\ UNCHANGED ret

PopBack(x) == LET items == deque[x].items IN
              /\ items # << >>
              /\ Set(x, SubSeq(items, 1, Len(items) - 1))
              /\ UNCHANGED ret

Clear(x) == Set(x, << >>) /\ UNCHANGED ret

\* The queue takes the new capacity, or none at all if memory runs out.
Resize(x, c) == /\ \E d \in {c, 0} : deque' = [deque EXCEPT ![x] = EmptyOf(d)]
                /\ ret' = 1

RefuseResize == ret' = 0 /\ UNCHANGED deque

Assign(x, y) == /\ deque[x].capacity = deque[y].capacity
                /\ deque' = [deque EXCEPT ![x] = deque[y]]
                /\ UNCHANGED ret

Next == \E x \in Queues :
          \/ \E el \in Elements : PushBack(x, el) \/ PushFront(x, el)
          \/ PopFront(x) \/ PopBack(x) \/ Clear(x)
          \/ \E c \in Capacities : Resize(x, c)
          \/ RefuseResize
          \/ \E y \in Queues : Assign(x, y)

Spec == Init /\ [][Next]_vars
=============================================================================
