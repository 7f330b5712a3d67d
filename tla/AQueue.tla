------------------------------- MODULE AQueue -------------------------------
(***************************************************************************)
(* Utility/AQueue.h: the fixed-size ring buffer template AQueue<T>.        *)
(*                                                                         *)
(* Every field is `unsigned', so the arithmetic is modulo UMod (2^32 in    *)
(* the code) and `_tail = -1' stores UMod - 1.  The operators below take   *)
(* one queue object s and return the object a method leaves behind; the    *)
(* actions apply them to the objects of the program.  The assert()s are    *)
(* compiled out, as in the release build: what they claim is checked.      *)
(***************************************************************************)
EXTENDS Integers, Sequences

CONSTANTS Queues,      \* the AQueue objects of the program
          Elements,    \* the values of T it stores
          Capacities,  \* the capacities it asks for
          UMod,        \* 2^w, w the width of unsigned
          Junk         \* what an uninitialised slot of new T[cap] holds

ASSUME CapacitiesAssumption == Capacities \subseteq Nat \ {0}
ASSUME UModAssumption ==
  UMod \in Nat \ {0} /\ \A c \in Capacities : 2 * c <= UMod
ASSUME JunkAssumption == Junk \notin Elements

VARIABLES q,           \* q[x]: the fields of object x
          ret          \* what the last push or resize returned

vars == <<q, ret>>

Slots  == Elements \cup {Junk}
MinusOne == UMod - 1   \* the unsigned -1

-----------------------------------------------------------------------------
\* A NULL _buff is the empty function: it goes with capacity 0 and only then.

Fresh(c) == [capacity |-> c, buff |-> [i \in 0 .. c - 1 |-> Junk],
             size |-> 0, head |-> 0, tail |-> MinusOne]

Objects(c) == [capacity : {c}, buff : [0 .. c - 1 -> Slots], size : 0 .. c,
               head : 0 .. c, tail : 0 .. UMod - 1]

IsNull(s) == s.capacity = 0
Full(s)   == s.capacity = s.size
Empty(s)  == s.size = 0

\* Variant: the head stays, so the newest item is the one that goes.
DropKeepsHead(s) == [s EXCEPT !.size = @ - 1]

DropOldest(s) == [s EXCEPT !.head = (@ + 1) % s.capacity, !.size = @ - 1]

\* push_back on a buffer with room: the slot after _tail takes the element.
Store(s, el) == LET t == ((s.tail + 1) % UMod) % s.capacity
                IN  [s EXCEPT !.tail = t, !.buff = [@ EXCEPT ![t] = el], !.size = @ + 1]

PushBackOf(s, el) == Store(IF Full(s) THEN DropOldest(s) ELSE s, el)

\* push_front moves _head back and leaves _tail alone.
PushFrontOf(s, el) == LET h == ((s.head + s.capacity - 1) % UMod) % s.capacity
                      IN  [s EXCEPT !.head = h, !.buff = [@ EXCEPT ![h] = el], !.size = @ + 1]

\* Variant: only the count goes down.
PopBackKeepsTail(s) == [s EXCEPT !.size = @ - 1]

\* `_tail < 0' is never true of an unsigned: _tail wraps below zero.
PopBackOf(s) == [s EXCEPT !.size = @ - 1, !.tail = (@ + UMod - 1) % UMod]

ClearOf(s) == [s EXCEPT !.size = 0, !.head = 0, !.tail = MinusOne]

\* The observers.  back() of a _tail outside the buffer reads whatever lies
\* there, so it has a set of possible answers.
FrontOf(s)     == s.buff[s.head]
BackResults(s) == IF s.tail < s.capacity THEN {s.buff[s.tail]} ELSE Slots
\* Variant: the index is taken from the start of the buffer.
ReadFromStart(s, index) == s.buff[index % s.capacity]
ReadOf(s, index) == s.buff[(index + s.head) % s.capacity]

\* read(sindex, len, buff): one memcpy, or two when the range wraps.
ReadRangeOf(s, sindex, len) ==
  LET part(from, n) == [i \in 1 .. n |-> s.buff[from + i - 1]]
  IN  IF sindex + len <= s.capacity
      THEN part(sindex % s.capacity, len)
      ELSE part(sindex, s.capacity - sindex)
             \o part(0, len - (s.capacity - sindex))

\* The queue's items, oldest first.
Items(s) == [i \in 1 .. s.size |-> s.buff[(s.head + i - 1) % s.capacity]]

-----------------------------------------------------------------------------
\* AQueue(cap), or AQueue() which allocates nothing.
Init == /\ q \in [Queues -> {Fresh(c) : c \in Capacities \cup {0}}]
        /\ ret = 0

Set(x, s) == q' = [q EXCEPT ![x] = s]

PushBack(x, el) ==
  \/ IsNull(q[x]) /\ ret' = -1 /\ UNCHANGED q
  \/ /\ ~ IsNull(q[x])
     /\ Set(x, PushBackOf(q[x], el))
     /\ ret' = IF Full(q[x]) THEN 1 ELSE 0

PushFront(x, el) ==
  \/ IsNull(q[x]) /\ ret' = -1 /\ UNCHANGED q
  \/ ~ IsNull(q[x]) /\ Full(q[x]) /\ ret' = 1 /\ UNCHANGED q
  \/ /\ ~ IsNull(q[x]) /\ ~ Full(q[x])
     /\ Set(x, PushFrontOf(q[x], el)) /\ ret' = 0

PopFront(x) == ~ Empty(q[x]) /\ Set(x, DropOldest(q[x])) /\ UNCHANGED ret

PopBack(x) == ~ Empty(q[x]) /\ Set(x, PopBackOf(q[x])) /\ UNCHANGED ret

Clear(x) == Set(x, ClearOf(q[x])) /\ UNCHANGED ret

\* resize(cap): the old buffer is deleted first; new T[cap] may throw
\* bad_alloc, which leaves a NULL buffer of capacity 0.
Resize(x, c) == /\ \E got \in {c, 0} : Set(x, Fresh(got))
                /\ ret' = 1

ResizeToZero == ret' = 0 /\ UNCHANGED q

\* operator=: objects of different capacities are left as they are.
Assign(x, y) == /\ q[x].capacity = q[y].capacity
                /\ Set(x, q[y])
                /\ UNCHANGED ret

\* The class comment's discipline: append, drop from the head, clear.
FifoNext == \E x \in Queues :
              \/ \E el \in Elements : PushBack(x, el)
              \/ PopFront(x)
              \/ Clear(x)
              \/ \E c \in Capacities : Resize(x, c)
              \/ ResizeToZero
              \/ \E y \in Queues : Assign(x, y)

DequeNext == \/ FifoNext
             \/ \E x \in Queues :
                  \/ \E el \in Elements : PushFront(x, el)
                  \/ PopBack(x)

FifoSpec == Init /\ [][FifoNext]_vars
Spec     == Init /\ [][DequeNext]_vars

-----------------------------------------------------------------------------
\* Every field of a queue keeps its range, and the size its bound.
TypeOK == /\ q \in [Queues -> UNION {Objects(c) : c \in Capacities \cup {0}}]
          /\ ret \in {-1, 0, 1}

\* The link between the three indices that every method relies on: the slot
\* the next push_back fills is the one after the last item.
TailFollows(s) ==
  IF IsNull(s)
  THEN s.head = 0
  ELSE /\ s.head < s.capacity
       /\ ((s.tail + 1) % UMod) % s.capacity = (s.head + s.size) % s.capacity

Linked == \A x \in Queues : TailFollows(q[x])

\* back() returns "the last element, the newest datum" (comment at line 149).
BackIsNewest ==
  \A x \in Queues :
    ~ Empty(q[x]) => BackResults(q[x]) = {Items(q[x])[q[x].size]}

\* back() is right whenever _tail is an index of the buffer, whatever calls
\* of push_front, pop_back and clear came before.  It is not one after
\* push_front on an empty queue, nor after pop_back has taken it below zero
\* on a queue whose items wrap: then back() reads outside the buffer.
BackWhenStored ==
  \A x \in Queues :
    ~ Empty(q[x]) /\ q[x].tail < q[x].capacity
      => BackResults(q[x]) = {Items(q[x])[q[x].size]}

\* read(head(), len, buff) hands out the oldest len items in order, also when
\* they wrap around the end of the buffer; read(i), i below size(), the i-th;
\* front() the first.
ReadsAreItems ==
  \A x \in Queues :
    LET s == q[x] IN
    /\ \A len \in 1 .. s.size :
         ReadRangeOf(s, s.head, len) = SubSeq(Items(s), 1, len)
    /\ \A i \in 0 .. s.size - 1 : ReadOf(s, i) = Items(s)[i + 1]
    /\ ~ Empty(s) => FrontOf(s) = Items(s)[1]

\* What a user of the object sees of it.
Abstract(s) == [capacity |-> s.capacity, items |-> Items(s)]

\* The ring is a bounded deque: every method changes the items and returns
\* the code the comments state.
Deque == INSTANCE BoundedDeque WITH
           deque <- [x \in Queues |-> Abstract(q[x])]
ImplementsDeque == Deque!Spec
=============================================================================
