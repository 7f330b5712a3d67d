--------------------------- MODULE UtilityProofs ---------------------------
(***************************************************************************)
(* Proofs about the modules of Utility/.                                   *)
(*                                                                         *)
(* AQueue, for every set of objects, elements and capacities.              *)
(*                                                                         *)
(* DebugLog, for all threads, processes and sizes: a log file passes its   *)
(* limit by at most a record of each thread.  The invariant counts, with   *)
(* what is in a file, the cells that threads which append to it have still *)
(* to write (Coming): a file that is measured small has room for a record  *)
(* of each, a write moves a cell from what is coming to the file, and a    *)
(* thread that emptied the file writes only within its first record.  And  *)
(* a record that a file keeps is whole in it: the invariant says which     *)
(* cells of its record a thread has still to write (Progress) and that     *)
(* those before are in the file, unless the thread is marked disturbed;    *)
(* everybody who meets a thread that has emptied the file is.              *)
(*                                                                         *)
(* HardwareClock, for every number of callers and updates and every        *)
(* difference: an update that met no other leaves the two clocks apart by  *)
(* the seconds between its two settings.  The invariant says what such an  *)
(* update knows between the settings: the machine's clock is its new time  *)
(* and the seconds since, because nobody else is under way to set it.      *)
(***************************************************************************)
EXTENDS AQueue, DebugLog, HardwareClock, FiniteSetTheorems, SequenceTheorems, TLAPS

-----------------------------------------------------------------------------
\* An index below twice the capacity wraps at most once.
LEMMA ModOnce ==
  ASSUME NEW c \in Nat \ {0}, NEW a \in Nat, a < 2 * c
  PROVE  a % c = IF a < c THEN a ELSE a - c
  OBVIOUS

\* A number below m is its own remainder.
LEMMA ModSmall ==
  ASSUME NEW m \in Nat, NEW a \in Nat, a < m
  PROVE  a % m = a
  OBVIOUS

LEMMA WrapIndex ==
  ASSUME NEW c \in Nat, c > 0, NEW h \in 0 .. c - 1, NEW n \in 1 .. c
  PROVE  \A i \in 1 .. n :
           (h + i - 1) % c = IF h + i - 1 < c THEN h + i - 1 ELSE h + i - 1 - c
<1> TAKE i \in 1 .. n
<1>1. h + i - 1 \in Nat /\ h + i - 1 < 2 * c
  OBVIOUS
<1> QED BY <1>1, ModOnce

\* What a capacity is.
LEMMA CapacityFacts ==
  ASSUME NEW c \in Capacities
  PROVE  c \in Nat /\ c > 0 /\ 2 * c <= UMod /\ UMod \in Nat /\ UMod >= 2
  BY CapacitiesAssumption, UModAssumption, SMT

\* The slots of a ring of c that starts at h and holds n items: the next free
\* slot is none of theirs, and it is the one before the next free slot then.
LEMMA RingSlots ==
  ASSUME NEW c \in Nat, c > 0, NEW h \in 0 .. c - 1, NEW n \in 0 .. c
  PROVE  /\ (h + n) % c \in 0 .. c - 1
         /\ (((h + n) % c) + 1) % c = (h + (n + 1)) % c
         /\ \A i \in 1 .. n : (h + i - 1) % c \in 0 .. c - 1
         /\ n < c => \A i \in 1 .. n : (h + i - 1) % c # (h + n) % c
<1>1. (h + n) % c = IF h + n < c THEN h + n ELSE h + n - c
  BY ModOnce
<1>2. ASSUME NEW i \in 1 .. n
      PROVE  (h + i - 1) % c = IF h + i - 1 < c THEN h + i - 1 ELSE h + i - 1 - c
  <2>1. h + i - 1 \in Nat /\ h + i - 1 < 2 * c
    OBVIOUS
  <2> QED BY <2>1, ModOnce
<1>3. (h + n) % c \in 0 .. c - 1
  BY <1>1
<1>4. (((h + n) % c) + 1) % c = (h + (n + 1)) % c
  BY <1>1
<1>5. \A i \in 1 .. n : (h + i - 1) % c \in 0 .. c - 1
  BY <1>2
<1>6. n < c => \A i \in 1 .. n : (h + i - 1) % c # (h + n) % c
  BY <1>1, <1>2
<1> QED BY <1>3, <1>4, <1>5, <1>6

\* The same slots seen from the next one on.
LEMMA RingAdvance ==
  ASSUME NEW c \in Nat, c > 0, NEW h \in 0 .. c - 1, NEW n \in 1 .. c
  PROVE  /\ (h + 1) % c \in 0 .. c - 1
         /\ (((h + 1) % c) + (n - 1)) % c = (h + n) % c
         /\ \A i \in 1 .. n - 1 : (((h + 1) % c) + i - 1) % c = (h + (i + 1) - 1) % c
<1>1. (h + 1) % c = IF h + 1 < c THEN h + 1 ELSE 0
  <2>1. h + 1 \in Nat /\ h + 1 < 2 * c
    OBVIOUS
  <2> QED BY <2>1, ModOnce
<1>2. CASE h + 1 < c
  BY <1>1, <1>2
<1>3. CASE h + 1 >= c
  <2>1. h = c - 1 /\ (h + 1) % c = 0
    BY <1>1, <1>3
  <2>2. ASSUME NEW j \in 0 .. c
        PROVE  (0 + j) % c = (h + (j + 1)) % c
    <3>1. h + (j + 1) = j + c
      BY <2>1
    <3> QED BY <3>1
  <2> QED BY <2>1, <2>2
<1> QED BY <1>2, <1>3

\* The slot before the first one is free while there is room.
LEMMA RingRetreat ==
  ASSUME NEW c \in Nat, c > 0, NEW h \in 0 .. c - 1, NEW n \in 0 .. c - 1
  PROVE  LET g == (h + c - 1) % c
         IN  /\ g \in 0 .. c - 1
             /\ (g + (n + 1)) % c = (h + n) % c
             /\ \A i \in 1 .. n : (g + (i + 1) - 1) % c = (h + i - 1) % c
             /\ \A i \in 1 .. n : (h + i - 1) % c # g
             /\ (g + 1 - 1) % c = g
<1> DEFINE g == (h + c - 1) % c
<1>1. g = IF h = 0 THEN c - 1 ELSE h - 1
  <2>1. h + c - 1 \in Nat /\ h + c - 1 < 2 * c
    OBVIOUS
  <2>2. (h + c - 1) % c = IF h + c - 1 < c THEN h + c - 1 ELSE h + c - 1 - c
    BY <2>1, ModOnce
  <2> QED BY <2>2
<1> HIDE DEF g
<1>2. g \in 0 .. c - 1
  BY <1>1
<1>3. (g + 1) % c = h
  <2>1. g + 1 \in Nat /\ g + 1 < 2 * c
    BY <1>2
  <2>2. (g + 1) % c = IF g + 1 < c THEN g + 1 ELSE g + 1 - c
    BY <1>2, <2>1, ModOnce
  <2> QED BY <1>1, <2>2
<1>4. /\ (h + n) % c = (g + (n + 1)) % c
      /\ \A i \in 1 .. n : (h + i - 1) % c = (g + (i + 1) - 1) % c
  <2>1. n + 1 \in 1 .. c
    OBVIOUS
  <2> QED BY <1>2, <1>3, <2>1, RingAdvance
<1>5. ASSUME NEW i \in 1 .. n
      PROVE  (h + i - 1) % c # g
  <2>1. h + i - 1 \in Nat /\ h + i - 1 < 2 * c
    OBVIOUS
  <2>2. (h + i - 1) % c = IF h + i - 1 < c THEN h + i - 1 ELSE h + i - 1 - c
    BY <2>1, ModOnce
  <2> QED BY <1>1, <2>2
<1>6. (g + 1 - 1) % c = g
  BY <1>2
<1> QED BY <1>2, <1>4, <1>5, <1>6 DEF g

\* What pop_back's decrement needs: c divides the width's modulus m, so that
\* going back from 0 to m - 1 goes back one slot of the ring.
LEMMA ModPred ==
  ASSUME NEW c \in Nat, c > 0, NEW a \in Nat
  PROVE  (a + 1) % c = IF a % c = c - 1 THEN 0 ELSE (a % c) + 1
<1> DEFINE k == a \div c
           r == a % c
<1>1. a = c * k + r /\ k \in Int /\ r \in 0 .. c - 1
  BY Z3
<1> HIDE DEF k, r
<1>2. CASE r = c - 1
  <2>1. a + 1 = c * (k + 1)
    BY <1>1, <1>2
  <2>2. (c * (k + 1)) % c = 0
    BY <1>1
  <2> QED BY <1>2, <2>1, <2>2 DEF r
<1>3. CASE r # c - 1
  <2>1. a + 1 = c * k + (r + 1) /\ r + 1 \in 0 .. c - 1
    BY <1>1, <1>3
  <2>2. (c * k + (r + 1)) % c = r + 1
    BY <1>1, <2>1
  <2> QED BY <1>3, <2>1, <2>2 DEF r
<1> QED BY <1>2, <1>3

LEMMA WrapBack ==
  ASSUME NEW m \in Nat, NEW u \in 0 .. m - 1
  PROVE  ((u + m - 1) % m) \in 0 .. m - 1 /\ (((u + m - 1) % m) + 1) % m = u
<1>1. m \in Nat \ {0} /\ u + m - 1 \in Nat /\ u + m - 1 < 2 * m
  OBVIOUS
<1>2. (u + m - 1) % m = IF u + m - 1 < m THEN u + m - 1 ELSE u + m - 1 - m
  <2> DEFINE a == u + m - 1
  <2> HIDE DEF a
  <2>1. a % m = IF a < m THEN a ELSE a - m
    BY <1>1, ModOnce DEF a
  <2> QED BY <2>1 DEF a
<1>3. CASE u = 0
  BY <1>2, <1>3
<1>4. CASE u # 0
  <2>1. (u + m - 1) % m = u - 1
    BY <1>2, <1>4
  <2> QED BY <2>1, <1>4
<1> QED BY <1>3, <1>4

LEMMA WrapDown ==
  ASSUME NEW c \in Nat, c > 0, NEW m \in Nat, m > 0, m % c = 0,
         NEW u \in 0 .. m - 1, NEW e \in Nat, ((u + 1) % m) % c = (e + 1) % c
  PROVE  u % c = e % c
<1>1. ((u + 1) % m) % c = (u + 1) % c
  <2>1. CASE u = m - 1
    <3>1. u + 1 = m
      BY <2>1
    <3>2. m % m = 0 /\ 0 % c = 0
      OBVIOUS
    <3> QED BY <3>1, <3>2
  <2>2. CASE u < m - 1
    <3>1. u + 1 \in Nat /\ u + 1 < m
      BY <2>2
    <3>2. (u + 1) % m = u + 1
      BY <3>1, ModSmall
    <3> QED BY <3>2
  <2> QED BY <2>1, <2>2
<1>2. (u + 1) % c = IF u % c = c - 1 THEN 0 ELSE (u % c) + 1
  <2>1. u \in Nat
    OBVIOUS
  <2> QED BY <2>1, ModPred
<1>3. (e + 1) % c = IF e % c = c - 1 THEN 0 ELSE (e % c) + 1
  BY ModPred
<1>4. u % c \in 0 .. c - 1 /\ e % c \in 0 .. c - 1
  OBVIOUS
<1> QED BY <1>1, <1>2, <1>3, <1>4

\* The fields of an object with a buffer.
LEMMA ObjectFields ==
  ASSUME NEW c \in Capacities, NEW s \in Objects(c)
  PROVE  /\ s = [capacity |-> c, buff |-> s.buff, size |-> s.size,
                 head |-> s.head, tail |-> s.tail]
         /\ s.capacity = c /\ s.size \in 0 .. c /\ s.head \in 0 .. c
         /\ s.tail \in 0 .. UMod - 1 /\ s.buff \in [0 .. c - 1 -> Slots]
         /\ c \in Nat /\ c > 0 /\ 2 * c <= UMod /\ UMod \in Nat
         /\ ~ IsNull(s)
  BY CapacityFacts DEF Objects, IsNull

\* The items are a sequence of slots; also of an object with no buffer.
LEMMA ItemsType ==
  ASSUME NEW c \in Capacities, NEW s \in Objects(c), TailFollows(s)
  PROVE  /\ Items(s) \in Seq(Slots) /\ Len(Items(s)) = s.size
         /\ \A i \in 1 .. s.size : Items(s)[i] = s.buff[(s.head + i - 1) % c]
<1> DEFINE h == s.head
           n == s.size
           b == s.buff
<1>1. /\ c \in Nat /\ c > 0 /\ h \in 0 .. c - 1 /\ n \in 0 .. c
      /\ b \in [0 .. c - 1 -> Slots]
  BY ObjectFields, SMTT(30) DEF TailFollows
<1>2. Items(s) = [i \in 1 .. n |-> b[(h + i - 1) % c]]
  BY ObjectFields DEF Items
<1> HIDE DEF h, n, b
<1>3. \A i \in 1 .. n : (h + i - 1) % c \in 0 .. c - 1
  BY <1>1, RingSlots
<1>4. \A i \in 1 .. n : b[(h + i - 1) % c] \in Slots
  BY <1>1, <1>3
<1>5. /\ Items(s) \in Seq(Slots) /\ Len(Items(s)) = n
      /\ \A i \in 1 .. n : Items(s)[i] = b[(h + i - 1) % c]
  <2> DEFINE e(i) == b[(h + i - 1) % c]
  <2> HIDE DEF e
  <2>1. [i \in 1 .. n |-> e(i)] \in Seq(Slots) /\ Len([i \in 1 .. n |-> e(i)]) = n
    BY <1>1, <1>4 DEF e
  <2> QED BY <1>2, <2>1 DEF e
<1> QED BY <1>5 DEF h, n, b

\* Store puts el after the last item and keeps the indices linked.
LEMMA StoreAppends ==
  ASSUME NEW c \in Capacities, NEW s \in Objects(c), NEW el \in Elements,
         TailFollows(s), s.size < c
  PROVE  /\ Store(s, el) \in Objects(c)
         /\ TailFollows(Store(s, el))
         /\ Store(s, el).tail < c
         /\ Store(s, el).size = s.size + 1
         /\ Items(Store(s, el)) = Append(Items(s), el)
<1> DEFINE h == s.head
           n == s.size
           b == s.buff
           t == (h + n) % c
           r == Store(s, el)
<1>1. /\ s.capacity = c /\ s.head = h /\ s.size = n /\ s.buff = b
      /\ c \in Nat /\ c > 0 /\ 2 * c <= UMod /\ UMod \in Nat
      /\ h \in 0 .. c - 1 /\ n \in 0 .. c - 1 /\ b \in [0 .. c - 1 -> Slots]
  BY ObjectFields, SMTT(30) DEF TailFollows
<1>2. r = [capacity |-> c, buff |-> [b EXCEPT ![t] = el],
           size |-> n + 1, head |-> h, tail |-> t]
  <2>1. ((s.tail + 1) % UMod) % s.capacity = t
    BY ObjectFields DEF TailFollows
  <2>3. r = [s EXCEPT !.tail = t, !.buff = [b EXCEPT ![t] = el], !.size = n + 1]
    BY <2>1 DEF Store
  <2> HIDE DEF t, h, n, b, r
  <2> QED BY <1>1, <2>3 DEF Objects
<1>3. Items(s) = [i \in 1 .. n |-> b[(h + i - 1) % c]]
  BY <1>1 DEF Items
<1> HIDE DEF h, n, b, r
<1>4. /\ t \in 0 .. c - 1
      /\ (t + 1) % c = (h + (n + 1)) % c
      /\ \A i \in 1 .. n : (h + i - 1) % c \in 0 .. c - 1
      /\ \A i \in 1 .. n : (h + i - 1) % c # t
  BY <1>1, RingSlots
<1>5. (t + 1) % UMod = t + 1
  <2>1. t + 1 \in Nat /\ t + 1 < UMod
    BY <1>1, <1>4
  <2> QED BY <2>1, <1>1, ModSmall
<1>6. Items(r) = [i \in 1 .. n + 1 |-> [b EXCEPT ![t] = el][(h + i - 1) % c]]
  BY <1>2 DEF Items
<1>7. (h + (n + 1) - 1) % c = t
  BY <1>1
<1> HIDE DEF t
<1>8. r \in Objects(c)
  BY <1>1, <1>2, <1>4 DEF Objects, Slots
<1>9. TailFollows(r)
  BY <1>1, <1>2, <1>4, <1>5 DEF TailFollows, IsNull
<1>10. Items(r) = Append(Items(s), el)
  <2>1. \A i \in 1 .. n : [b EXCEPT ![t] = el][(h + i - 1) % c] = b[(h + i - 1) % c]
    BY <1>1, <1>4
  <2>2. [b EXCEPT ![t] = el][(h + (n + 1) - 1) % c] = el
    BY <1>1, <1>4, <1>7
  <2>3. Items(s) \in Seq(Slots) /\ Len(Items(s)) = n
    BY <1>1, ItemsType
  <2>4. Items(r) \in Seq(Slots) /\ Len(Items(r)) = n + 1
    BY <1>2, <1>8, <1>9, ItemsType
  <2>5. \A i \in 1 .. n : Items(r)[i] = Items(s)[i]
    BY <1>1, <1>3, <1>6, <2>1
  <2>6. Items(r)[n + 1] = el
    BY <1>1, <1>6, <2>2
  <2> QED BY <1>1, <2>3, <2>4, <2>5, <2>6 DEF Slots
<1>11. r.tail < c /\ r.size = n + 1
  BY <1>1, <1>2, <1>4
<1>12. Store(s, el) = r /\ s.size = n
  BY DEF r, n
<1> QED BY <1>8, <1>9, <1>10, <1>11, <1>12

\* Dropping the oldest item leaves the others in order.
LEMMA DropTail ==
  ASSUME NEW c \in Capacities, NEW s \in Objects(c), TailFollows(s), s.size > 0
  PROVE  /\ DropOldest(s) \in Objects(c)
         /\ TailFollows(DropOldest(s))
         /\ DropOldest(s).tail = s.tail
         /\ DropOldest(s).size = s.size - 1
         /\ Items(DropOldest(s)) = Tail(Items(s))
<1> DEFINE h == s.head
           n == s.size
           b == s.buff
           d == (h + 1) % c
           r == DropOldest(s)
<1>1. /\ s.capacity = c /\ s.head = h /\ s.size = n /\ s.buff = b
      /\ c \in Nat /\ c > 0
      /\ h \in 0 .. c - 1 /\ n \in 1 .. c /\ b \in [0 .. c - 1 -> Slots]
  BY ObjectFields, SMTT(30) DEF TailFollows
<1>2. r = [s EXCEPT !.head = d, !.size = n - 1]
  BY <1>1 DEF DropOldest
<1>3. ((s.tail + 1) % UMod) % c = (h + n) % c
  BY ObjectFields DEF TailFollows
<1>4. Items(s) = [i \in 1 .. n |-> b[(h + i - 1) % c]]
  BY <1>1 DEF Items
<1> HIDE DEF h, n, b, r, d
<1>5. r = [capacity |-> c, buff |-> b, size |-> n - 1, head |-> d, tail |-> s.tail]
  BY <1>1, <1>2 DEF Objects
<1>6. d \in 0 .. c - 1
  BY <1>1, RingAdvance DEF d
<1>7. /\ (d + (n - 1)) % c = (h + n) % c
      /\ \A i \in 1 .. n - 1 : (d + i - 1) % c = (h + (i + 1) - 1) % c
  BY <1>1, RingAdvance DEF d
<1>8. \A i \in 1 .. n : (h + i - 1) % c \in 0 .. c - 1
  BY <1>1, RingSlots
<1>9. Items(r) = [i \in 1 .. n - 1 |-> b[(d + i - 1) % c]]
  BY <1>5 DEF Items
<1>10. r \in Objects(c)
  BY <1>1, <1>5, <1>6 DEF Objects
<1>11. TailFollows(r)
  BY <1>1, <1>3, <1>5, <1>6, <1>7, SMTT(30) DEF TailFollows, IsNull
<1>12. Items(r) = Tail(Items(s))
  <2>1. Items(s) \in Seq(Slots) /\ Len(Items(s)) = n
    BY <1>1, ItemsType
  <2>2. \A i \in 1 .. n - 1 : b[(d + i - 1) % c] = Items(s)[i + 1]
    BY <1>1, <1>4, <1>7
  <2>3. /\ Items(r) \in Seq(Slots) /\ Len(Items(r)) = n - 1
        /\ \A i \in 1 .. n - 1 : Items(r)[i] = Items(s)[i + 1]
    <3>1. Items(r) \in Seq(Slots) /\ Len(Items(r)) = n - 1
      BY <1>5, <1>10, <1>11, ItemsType
    <3> QED BY <1>1, <1>9, <2>2, <3>1
  <2>4. /\ Tail(Items(s)) \in Seq(Slots) /\ Len(Tail(Items(s))) = n - 1
        /\ \A i \in 1 .. n - 1 : Tail(Items(s))[i] = Items(s)[i + 1]
    BY <1>1, <2>1, HeadTailProperties
  <2> QED BY <1>1, <2>3, <2>4, SeqEqual
<1>13. DropOldest(s) = r /\ s.size = n
  BY DEF r, n
<1> QED BY <1>1, <1>5, <1>10, <1>11, <1>12, <1>13

\* An object just built or resized has no items.
LEMMA FreshIsEmpty ==
  ASSUME NEW c \in Capacities \cup {0}
  PROVE  /\ Fresh(c) \in Objects(c)
         /\ TailFollows(Fresh(c))
         /\ Fresh(c).capacity = c
         /\ Empty(Fresh(c))
         /\ Items(Fresh(c)) = << >>
<1>1. c \in Nat /\ (c > 0 => 2 * c <= UMod) /\ UMod \in Nat /\ UMod > 0
  BY CapacityFacts, UModAssumption
<1>2. Fresh(c) \in Objects(c)
  BY <1>1 DEF Fresh, Objects, Slots, MinusOne
<1>3. TailFollows(Fresh(c))
  <2>1. (MinusOne + 1) % UMod = 0
    BY <1>1 DEF MinusOne
  <2> QED BY <1>1, <2>1 DEF TailFollows, IsNull, Fresh
<1>4. Items(Fresh(c)) = << >>
  BY <1>1 DEF Items, Fresh
<1> QED BY <1>2, <1>3, <1>4 DEF Fresh, Empty

LEMMA ClearEmpties ==
  ASSUME NEW c \in Capacities \cup {0}, NEW s \in Objects(c)
  PROVE  /\ ClearOf(s) \in Objects(c)
         /\ TailFollows(ClearOf(s))
         /\ ClearOf(s).capacity = s.capacity
         /\ Empty(ClearOf(s))
         /\ Items(ClearOf(s)) = << >>
<1>1. c \in Nat /\ (c > 0 => 2 * c <= UMod) /\ UMod \in Nat /\ UMod > 0
  BY CapacityFacts, UModAssumption
<1>2. ClearOf(s) = [capacity |-> c, buff |-> s.buff, size |-> 0, head |-> 0,
                    tail |-> MinusOne]
  <2> DEFINE b == s.buff
             t == MinusOne
  <2>1. s.capacity = c /\ s.buff = b
    BY DEF Objects
  <2>2. ClearOf(s) = [s EXCEPT !.size = 0, !.head = 0, !.tail = t]
    BY DEF ClearOf
  <2> HIDE DEF b, t
  <2>3. ClearOf(s) = [capacity |-> c, buff |-> b, size |-> 0, head |-> 0, tail |-> t]
    BY <2>1, <2>2 DEF Objects
  <2> QED BY <2>3 DEF b, t
<1>3. ClearOf(s) \in Objects(c)
  BY <1>1, <1>2 DEF Objects, MinusOne
<1>4. TailFollows(ClearOf(s))
  <2>1. (MinusOne + 1) % UMod = 0
    BY <1>1 DEF MinusOne
  <2> QED BY <1>1, <1>2, <2>1 DEF TailFollows, IsNull
<1>5. Items(ClearOf(s)) = << >>
  BY <1>2 DEF Items
<1> QED BY <1>2, <1>3, <1>4, <1>5 DEF Empty, Objects

\* push_front puts el before the first item.
LEMMA PushFrontPrepends ==
  ASSUME NEW c \in Capacities, NEW s \in Objects(c), NEW el \in Elements,
         TailFollows(s), s.size < c
  PROVE  /\ PushFrontOf(s, el) \in Objects(c)
         /\ TailFollows(PushFrontOf(s, el))
         /\ Items(PushFrontOf(s, el)) = <<el>> \o Items(s)
<1> DEFINE h == s.head
           n == s.size
           b == s.buff
           g == (h + c - 1) % c
           r == PushFrontOf(s, el)
<1>1. /\ s.capacity = c /\ s.head = h /\ s.size = n /\ s.buff = b
      /\ c \in Nat /\ c > 0 /\ 2 * c <= UMod /\ UMod \in Nat
      /\ h \in 0 .. c - 1 /\ n \in 0 .. c - 1 /\ b \in [0 .. c - 1 -> Slots]
  BY ObjectFields, SMTT(30) DEF TailFollows
<1>2. ((s.tail + 1) % UMod) % c = (h + n) % c
  BY ObjectFields DEF TailFollows
<1>3. r = [s EXCEPT !.head = g, !.buff = [b EXCEPT ![g] = el], !.size = n + 1]
  <2>1. h + c - 1 \in Nat /\ h + c - 1 < UMod
    BY <1>1
  <2>2. (h + c - 1) % UMod = h + c - 1
    <3> DEFINE a == h + c - 1
    <3> HIDE DEF a
    <3> QED BY <1>1, <2>1, ModSmall DEF a
  <2> QED BY <1>1, <2>2 DEF PushFrontOf
<1>4. Items(s) = [i \in 1 .. n |-> b[(h + i - 1) % c]]
  BY <1>1 DEF Items
<1> HIDE DEF h, n, b, r
<1>5. /\ g \in 0 .. c - 1
      /\ (g + (n + 1)) % c = (h + n) % c
      /\ \A i \in 1 .. n : (g + (i + 1) - 1) % c = (h + i - 1) % c
      /\ \A i \in 1 .. n : (h + i - 1) % c # g
      /\ (g + 1 - 1) % c = g
  BY <1>1, RingRetreat
<1> HIDE DEF g
<1>6. r = [capacity |-> c, buff |-> [b EXCEPT ![g] = el], size |-> n + 1,
           head |-> g, tail |-> s.tail]
  BY <1>1, <1>3 DEF Objects
<1>7. Items(r) = [i \in 1 .. n + 1 |-> [b EXCEPT ![g] = el][(g + i - 1) % c]]
  BY <1>6 DEF Items
<1>8. r \in Objects(c)
  BY <1>1, <1>5, <1>6 DEF Objects, Slots
<1>9. TailFollows(r)
  BY <1>1, <1>2, <1>5, <1>6 DEF TailFollows, IsNull
<1>10. Items(r) = <<el>> \o Items(s)
  <2>1. \A i \in 1 .. n : (h + i - 1) % c \in 0 .. c - 1
    BY <1>1, RingSlots
  <2>2. Items(s) \in Seq(Slots) /\ Len(Items(s)) = n
    BY <1>1, ItemsType
  <2>3. /\ Items(r) \in Seq(Slots) /\ Len(Items(r)) = n + 1
    BY <1>6, <1>8, <1>9, ItemsType
  <2>4. Items(r)[1] = el
    BY <1>1, <1>5, <1>7
  <2>5. ASSUME NEW i \in 1 .. n
        PROVE  Items(r)[i + 1] = Items(s)[i]
    <3>1. i + 1 \in 1 .. n + 1
      BY <1>1
    <3>2. Items(r)[i + 1] = [b EXCEPT ![g] = el][(g + (i + 1) - 1) % c]
      BY <1>7, <3>1
    <3>3. [b EXCEPT ![g] = el][(h + i - 1) % c] = b[(h + i - 1) % c]
      BY <1>1, <1>5, <2>1
    <3> QED BY <1>4, <1>5, <3>2, <3>3
  <2>6. <<el>> \in Seq(Slots) /\ Len(<<el>>) = 1 /\ <<el>>[1] = el
    BY DEF Slots
  <2>7. /\ <<el>> \o Items(s) \in Seq(Slots)
        /\ Len(<<el>> \o Items(s)) = 1 + n
        /\ \A i \in 1 .. 1 + n : (<<el>> \o Items(s))[i] =
              IF i <= 1 THEN <<el>>[i] ELSE Items(s)[i - 1]
    BY <2>2, <2>6, ConcatProperties
  <2>8. ASSUME NEW i \in 1 .. n + 1
        PROVE  Items(r)[i] = (<<el>> \o Items(s))[i]
    <3>1. CASE i = 1
      BY <1>1, <2>4, <2>6, <2>7, <3>1
    <3>2. CASE i # 1
      <4>1. i - 1 \in 1 .. n /\ (i - 1) + 1 = i
        BY <1>1, <3>2
      <4>2. Items(r)[i] = Items(s)[i - 1]
        BY <2>5, <4>1
      <4> QED BY <1>1, <2>7, <3>2, <4>2
    <3> QED BY <3>1, <3>2
  <2> DEFINE z == <<el>> \o Items(s)
  <2>9. Len(Items(r)) = Len(z) /\ \A i \in 1 .. Len(Items(r)) : Items(r)[i] = z[i]
    BY <1>1, <2>3, <2>7, <2>8
  <2>10. Items(r) \in Seq(Slots) /\ z \in Seq(Slots)
    BY <2>3, <2>7
  <2> HIDE DEF z
  <2>11. Items(r) = z
    BY <2>9, <2>10, SeqEqual
  <2> QED BY <2>11 DEF z
<1>11. PushFrontOf(s, el) = r
  BY DEF r
<1> QED BY <1>8, <1>9, <1>10, <1>11

\* pop_back drops the newest item, and keeps the indices linked when the
\* capacity divides 2^w.
LEMMA PopBackDrops ==
  ASSUME NEW c \in Capacities, NEW s \in Objects(c),
         TailFollows(s), s.size > 0, UMod % c = 0
  PROVE  /\ PopBackOf(s) \in Objects(c)
         /\ TailFollows(PopBackOf(s))
         /\ Items(PopBackOf(s)) = SubSeq(Items(s), 1, s.size - 1)
<1> DEFINE h == s.head
           n == s.size
           b == s.buff
           u == s.tail
           v == (u + UMod - 1) % UMod
           r == PopBackOf(s)
<1>1. /\ s.capacity = c /\ s.head = h /\ s.size = n /\ s.buff = b /\ s.tail = u
      /\ c \in Nat /\ c > 0 /\ UMod \in Nat /\ UMod > 0 /\ u \in 0 .. UMod - 1
      /\ h \in 0 .. c - 1 /\ n \in 1 .. c /\ b \in [0 .. c - 1 -> Slots]
  BY ObjectFields, SMTT(30) DEF TailFollows
<1>2. ((u + 1) % UMod) % c = (h + n) % c
  BY ObjectFields DEF TailFollows
<1>3. r = [s EXCEPT !.size = n - 1, !.tail = v]
  BY DEF PopBackOf
<1>4. Items(s) = [i \in 1 .. n |-> b[(h + i - 1) % c]]
  BY <1>1 DEF Items
<1> HIDE DEF h, n, b, u, r
<1>5. v \in 0 .. UMod - 1 /\ (v + 1) % UMod = u
  BY <1>1, WrapBack
<1>6. u % c = (h + (n - 1)) % c
  <2> DEFINE e == h + (n - 1)
  <2>1. e \in Nat /\ e + 1 = h + n
    BY <1>1
  <2>2. ((u + 1) % UMod) % c = (e + 1) % c
    BY <1>2, <2>1
  <2> DEFINE m == UMod
  <2>3. m \in Nat /\ m > 0 /\ m % c = 0 /\ u \in 0 .. m - 1
        /\ ((u + 1) % m) % c = (e + 1) % c
    BY <1>1, <2>2
  <2> HIDE DEF e, m
  <2>4. u % c = e % c
    BY <1>1, <2>1, <2>3, WrapDown, ZenonT(40)
  <2> QED BY <2>4 DEF e
<1> HIDE DEF v
<1>7. r = [capacity |-> c, buff |-> b, size |-> n - 1, head |-> h, tail |-> v]
  BY <1>1, <1>3 DEF Objects
<1>8. r \in Objects(c)
  BY <1>1, <1>5, <1>7 DEF Objects
<1>9. TailFollows(r)
  BY <1>1, <1>5, <1>6, <1>7 DEF TailFollows, IsNull
<1>10. Items(r) = SubSeq(Items(s), 1, n - 1)
  <2>1. Items(r) = [i \in 1 .. n - 1 |-> b[(h + i - 1) % c]]
    BY <1>7 DEF Items
  <2>3. Items(s) \in Seq(Slots) /\ Len(Items(s)) = n
    BY <1>1, ItemsType
  <2>4. Items(r) \in Seq(Slots) /\ Len(Items(r)) = n - 1
    BY <1>7, <1>8, <1>9, ItemsType
  <2>5. /\ SubSeq(Items(s), 1, n - 1) \in Seq(Slots)
        /\ Len(SubSeq(Items(s), 1, n - 1)) = n - 1
        /\ \A i \in 1 .. n - 1 : SubSeq(Items(s), 1, n - 1)[i] = Items(s)[i]
    BY <1>1, <2>3
  <2>6. \A i \in 1 .. n - 1 : Items(r)[i] = Items(s)[i]
    BY <1>1, <1>4, <2>1
  <2> QED BY <1>1, <2>4, <2>5, <2>6, SeqEqual, SMTT(40)
<1>11. PopBackOf(s) = r /\ s.size = n
  BY DEF r, n
<1> QED BY <1>8, <1>9, <1>10, <1>11

-----------------------------------------------------------------------------
(***************************************************************************)
(* The inductive invariant: every object is typed and its indices linked.  *)
(* TypeOK alone is not inductive: Linked is what keeps a push_back on the  *)
(* slot after the last item, and with it the refinement.                   *)
(***************************************************************************)
Sound(s) == /\ s.capacity \in Capacities \cup {0}
            /\ s \in Objects(s.capacity)
            /\ TailFollows(s)

Inv == TypeOK /\ Linked

D == [x \in Queues |-> Abstract(q[x])]

LEMMA InvSound ==
  ASSUME Inv, NEW x \in Queues
  PROVE  Sound(q[x])
<1>1. PICK c \in Capacities \cup {0} : q[x] \in Objects(c)
  BY DEF Inv, TypeOK
<1>2. q[x].capacity = c
  BY <1>1 DEF Objects
<1> QED BY <1>1, <1>2 DEF Inv, Linked, Sound

\* An object with items, or with room, has a buffer.
LEMMA SoundFields ==
  ASSUME NEW s, Sound(s)
  PROVE  /\ s.size \in Nat /\ s.capacity \in Nat /\ s.size <= s.capacity
         /\ IsNull(s) => Items(s) = << >> /\ s.size = 0
         /\ ~ IsNull(s) => /\ s.capacity \in Capacities
                           /\ s \in Objects(s.capacity)
                           /\ TailFollows(s)
                           /\ Items(s) \in Seq(Slots)
         /\ Len(Items(s)) = s.size
<1>1. s.capacity \in Nat /\ s.size \in 0 .. s.capacity
  BY CapacityFacts DEF Sound, Objects
<1>2. CASE IsNull(s)
  <2>1. s.size = 0
    BY <1>1, <1>2 DEF IsNull
  <2> QED BY <1>1, <1>2, <2>1 DEF Items
<1>3. CASE ~ IsNull(s)
  <2>1. s.capacity \in Capacities /\ s \in Objects(s.capacity) /\ TailFollows(s)
    BY <1>3 DEF Sound, IsNull
  <2> QED BY <1>1, <1>3, <2>1, ItemsType
<1> QED BY <1>2, <1>3

\* Replacing one object by a sound one keeps the invariant, and the abstract
\* queue changes at that object only.
LEMMA SetSound ==
  ASSUME Inv, NEW x \in Queues, NEW s, Sound(s), Set(x, s), ret' \in {-1, 0, 1}
  PROVE  Inv' /\ D' = [D EXCEPT ![x] = Abstract(s)]
<1>1. q' = [q EXCEPT ![x] = s] /\ q \in [Queues -> UNION {Objects(c) : c \in Capacities \cup {0}}]
  BY DEF Set, Inv, TypeOK
<1>2. s \in UNION {Objects(c) : c \in Capacities \cup {0}}
  BY DEF Sound
<1>3. TypeOK'
  BY <1>1, <1>2 DEF TypeOK
<1>4. Linked'
  BY <1>1 DEF Linked, Inv, Sound
<1>5. D' = [y \in Queues |-> Abstract(q'[y])]
  BY DEF D, Abstract, Items
<1>6. \A y \in Queues : Abstract(q'[y]) = IF y = x THEN Abstract(s) ELSE Abstract(q[y])
  BY <1>1
<1>7. D' = [D EXCEPT ![x] = Abstract(s)]
  BY <1>5, <1>6 DEF D
<1> QED BY <1>3, <1>4, <1>7 DEF Inv

LEMMA SameSound ==
  ASSUME Inv, UNCHANGED q, ret' \in {-1, 0, 1}
  PROVE  Inv' /\ D' = D
  BY DEF Inv, TypeOK, Linked, TailFollows, IsNull, D, Abstract, Items

LEMMA InitInv ==
  ASSUME Init
  PROVE  Inv /\ Deque!Init
<1>1. \A x \in Queues : \E c \in Capacities \cup {0} : q[x] = Fresh(c)
  BY DEF Init
<1>2. TypeOK
  BY <1>1, FreshIsEmpty DEF Init, TypeOK
<1>3. Linked
  BY <1>1, FreshIsEmpty DEF Linked
<1>4. \A x \in Queues : \E c \in Capacities \cup {0} : Abstract(q[x]) = Deque!EmptyOf(c)
  BY <1>1, FreshIsEmpty DEF Abstract, Deque!EmptyOf
<1>5. Deque!Init
  BY <1>4 DEF Deque!Init, Init
<1> QED BY <1>2, <1>3, <1>5 DEF Inv

-----------------------------------------------------------------------------
\* Each method keeps the invariant and does what the abstract method does.

\* The abstract queue at x, as its own definitions see it.
LEMMA AbstractFields ==
  ASSUME NEW x \in Queues
  PROVE  /\ D[x].capacity = q[x].capacity
         /\ D[x].items = Items(q[x])
         /\ D = [y \in Queues |-> Abstract(q[y])]
  BY DEF D, Abstract

LEMMA RetType ==
  ASSUME Inv
  PROVE  ret \in {-1, 0, 1}
  BY DEF Inv, TypeOK

LEMMA PushBackStep ==
  ASSUME Inv, NEW x \in Queues, NEW el \in Elements, PushBack(x, el)
  PROVE  Inv' /\ Deque!PushBack(x, el)
<1> DEFINE s == q[x]
<1>1. Sound(s)
  BY InvSound
<1>2. CASE IsNull(s) /\ ret' = -1 /\ UNCHANGED q
  <2>1. Inv' /\ D' = D
    BY <1>2, SameSound
  <2>2. D[x].capacity = 0
    BY <1>2, AbstractFields DEF IsNull
  <2> QED BY <1>2, <2>1, <2>2 DEF Deque!PushBack, D
<1>3. CASE /\ ~ IsNull(s) /\ ~ Full(s)
           /\ Set(x, PushBackOf(s, el)) /\ ret' = 0
  <2> DEFINE r == Store(s, el)
  <2>1. /\ s.capacity \in Capacities /\ s \in Objects(s.capacity)
        /\ TailFollows(s) /\ s.size < s.capacity
    BY <1>1, <1>3, SoundFields DEF Full
  <2>2. /\ r \in Objects(s.capacity) /\ TailFollows(r)
        /\ Items(r) = Append(Items(s), el)
    BY <2>1, StoreAppends
  <2>3. r.capacity = s.capacity
    BY <2>2 DEF Objects
  <2>4. Sound(r) /\ Set(x, r)
    BY <1>3, <2>1, <2>2, <2>3 DEF Sound, PushBackOf
  <2>5. Inv' /\ D' = [D EXCEPT ![x] = Abstract(r)]
    BY <1>3, <2>4, SetSound
  <2>6. Len(D[x].items) < D[x].capacity
    BY <1>1, <2>1, SoundFields, AbstractFields
  <2>7. Abstract(r) = [capacity |-> D[x].capacity, items |-> Append(D[x].items, el)]
    BY <2>2, <2>3, AbstractFields DEF Abstract
  <2> HIDE DEF r
  <2>8. D' = [D EXCEPT ![x] = [capacity |-> @.capacity, items |-> Append(D[x].items, el)]]
    BY <2>5, <2>7
  <2> QED BY <1>3, <2>5, <2>6, <2>8 DEF Deque!PushBack, Deque!Set, D
<1>4. CASE /\ ~ IsNull(s) /\ Full(s)
           /\ Set(x, PushBackOf(s, el)) /\ ret' = 1
  <2> DEFINE d == DropOldest(s)
             r == Store(d, el)
  <2>1. /\ s.capacity \in Capacities /\ s \in Objects(s.capacity)
        /\ TailFollows(s) /\ s.size = s.capacity /\ s.size > 0
    BY <1>1, <1>4, SoundFields, CapacityFacts DEF Full
  <2>2. /\ d \in Objects(s.capacity) /\ TailFollows(d)
        /\ d.size = s.size - 1 /\ Items(d) = Tail(Items(s))
    BY <2>1, DropTail
  <2>3. d.size < s.capacity
    BY <2>1, <2>2, CapacityFacts
  <2>4. /\ r \in Objects(s.capacity) /\ TailFollows(r)
        /\ Items(r) = Append(Tail(Items(s)), el)
    BY <2>1, <2>2, <2>3, StoreAppends
  <2>5. r.capacity = s.capacity
    BY <2>4 DEF Objects
  <2>6. Sound(r) /\ Set(x, r)
    BY <1>4, <2>1, <2>4, <2>5 DEF Sound, PushBackOf
  <2>7. Inv' /\ D' = [D EXCEPT ![x] = Abstract(r)]
    BY <1>4, <2>6, SetSound
  <2>8. D[x].capacity > 0 /\ Len(D[x].items) = D[x].capacity
    BY <1>1, <2>1, SoundFields, AbstractFields
  <2>9. Abstract(r) = [capacity |-> D[x].capacity,
                       items |-> Append(Tail(D[x].items), el)]
    BY <2>4, <2>5, AbstractFields DEF Abstract
  <2> HIDE DEF r
  <2>10. D' = [D EXCEPT ![x] = [capacity |-> @.capacity,
                                items |-> Append(Tail(D[x].items), el)]]
    BY <2>7, <2>9
  <2> QED BY <1>4, <2>7, <2>8, <2>10 DEF Deque!PushBack, Deque!Set, D
<1> QED BY <1>2, <1>3, <1>4 DEF PushBack

LEMMA PushFrontStep ==
  ASSUME Inv, NEW x \in Queues, NEW el \in Elements, PushFront(x, el)
  PROVE  Inv' /\ Deque!PushFront(x, el)
<1> DEFINE s == q[x]
<1>1. Sound(s)
  BY InvSound
<1>2. CASE IsNull(s) /\ ret' = -1 /\ UNCHANGED q
  <2>1. Inv' /\ D' = D
    BY <1>2, SameSound
  <2>2. D[x].capacity = 0
    BY <1>2, AbstractFields DEF IsNull
  <2> QED BY <1>2, <2>1, <2>2 DEF Deque!PushFront, D
<1>3. CASE ~ IsNull(s) /\ Full(s) /\ ret' = 1 /\ UNCHANGED q
  <2>1. Inv' /\ D' = D
    BY <1>3, SameSound
  <2>2. D[x].capacity > 0 /\ Len(D[x].items) = D[x].capacity
    BY <1>1, <1>3, SoundFields, CapacityFacts, AbstractFields DEF Full
  <2> QED BY <1>3, <2>1, <2>2 DEF Deque!PushFront, D
<1>4. CASE /\ ~ IsNull(s) /\ ~ Full(s)
           /\ Set(x, PushFrontOf(s, el)) /\ ret' = 0
  <2> DEFINE r == PushFrontOf(s, el)
  <2>1. /\ s.capacity \in Capacities /\ s \in Objects(s.capacity)
        /\ TailFollows(s) /\ s.size < s.capacity
    BY <1>1, <1>4, SoundFields DEF Full
  <2>2. /\ r \in Objects(s.capacity) /\ TailFollows(r)
        /\ Items(r) = <<el>> \o Items(s)
    BY <2>1, PushFrontPrepends
  <2>3. r.capacity = s.capacity
    BY <2>2 DEF Objects
  <2>4. Sound(r)
    BY <2>1, <2>2, <2>3 DEF Sound
  <2>5. Inv' /\ D' = [D EXCEPT ![x] = Abstract(r)]
    BY <1>4, <2>4, SetSound
  <2>6. Len(D[x].items) < D[x].capacity
    BY <1>1, <2>1, SoundFields, AbstractFields
  <2>7. Abstract(r) = [capacity |-> D[x].capacity, items |-> <<el>> \o D[x].items]
    BY <2>2, <2>3, AbstractFields DEF Abstract
  <2> HIDE DEF r
  <2>8. D' = [D EXCEPT ![x] = [capacity |-> @.capacity, items |-> <<el>> \o D[x].items]]
    BY <2>5, <2>7
  <2> QED BY <1>4, <2>5, <2>6, <2>8 DEF Deque!PushFront, Deque!Set, D
<1> QED BY <1>2, <1>3, <1>4 DEF PushFront

LEMMA PopFrontStep ==
  ASSUME Inv, NEW x \in Queues, PopFront(x)
  PROVE  Inv' /\ Deque!PopFront(x)
<1> DEFINE s == q[x]
           r == DropOldest(s)
<1>1. Sound(s)
  BY InvSound
<1>2. ~ Empty(s) /\ Set(x, r) /\ UNCHANGED ret
  BY DEF PopFront
<1>3. /\ s.capacity \in Capacities /\ s \in Objects(s.capacity)
      /\ TailFollows(s) /\ s.size > 0
  BY <1>1, <1>2, SoundFields DEF Empty
<1>4. /\ r \in Objects(s.capacity) /\ TailFollows(r) /\ Items(r) = Tail(Items(s))
  BY <1>3, DropTail
<1>5. r.capacity = s.capacity
  BY <1>4 DEF Objects
<1>6. Sound(r)
  BY <1>3, <1>4, <1>5 DEF Sound
<1>7. Inv' /\ D' = [D EXCEPT ![x] = Abstract(r)]
  BY <1>2, <1>6, SetSound, RetType
<1>8. D[x].items # << >>
  BY <1>1, <1>3, SoundFields, AbstractFields
<1>9. Abstract(r) = [capacity |-> D[x].capacity, items |-> Tail(D[x].items)]
  BY <1>4, <1>5, AbstractFields DEF Abstract
<1> HIDE DEF r
<1>10. D' = [D EXCEPT ![x] = [capacity |-> @.capacity, items |-> Tail(D[x].items)]]
  BY <1>7, <1>9
<1> QED BY <1>2, <1>7, <1>8, <1>10 DEF Deque!PopFront, Deque!Set, D

\* pop_back needs the capacities to divide 2^w: see the run aqueue_popback.
Divides == \A c \in Capacities : UMod % c = 0

LEMMA PopBackStep ==
  ASSUME Inv, Divides, NEW x \in Queues, PopBack(x)
  PROVE  Inv' /\ Deque!PopBack(x)
<1> DEFINE s == q[x]
           r == PopBackOf(s)
           new == SubSeq(Items(s), 1, Len(Items(s)) - 1)
<1>1. Sound(s)
  BY InvSound
<1>2. ~ Empty(s) /\ Set(x, r) /\ UNCHANGED ret
  BY DEF PopBack
<1>3. /\ s.capacity \in Capacities /\ s \in Objects(s.capacity)
      /\ TailFollows(s) /\ s.size > 0 /\ Len(Items(s)) = s.size
      /\ UMod % s.capacity = 0
  BY <1>1, <1>2, SoundFields DEF Empty, Divides
<1>4. /\ r \in Objects(s.capacity) /\ TailFollows(r) /\ Items(r) = new
  BY <1>3, PopBackDrops
<1>5. r.capacity = s.capacity
  BY <1>4 DEF Objects
<1>6. Sound(r)
  BY <1>3, <1>4, <1>5 DEF Sound
<1>7. Inv' /\ D' = [D EXCEPT ![x] = Abstract(r)]
  BY <1>2, <1>6, SetSound, RetType
<1>8. D[x].items # << >>
  BY <1>1, <1>3, SoundFields, AbstractFields
<1>9. Abstract(r) = [capacity |-> D[x].capacity,
                     items |-> SubSeq(D[x].items, 1, Len(D[x].items) - 1)]
  BY <1>4, <1>5, AbstractFields DEF Abstract
<1> HIDE DEF r
<1>10. D' = [D EXCEPT ![x] = [capacity |-> @.capacity,
                items |-> SubSeq(D[x].items, 1, Len(D[x].items) - 1)]]
  BY <1>7, <1>9
<1> QED BY <1>2, <1>7, <1>8, <1>10 DEF Deque!PopBack, Deque!Set, D

LEMMA ClearStep ==
  ASSUME Inv, NEW x \in Queues, Clear(x)
  PROVE  Inv' /\ Deque!Clear(x)
<1> DEFINE s == q[x]
           r == ClearOf(s)
<1>1. Sound(s)
  BY InvSound
<1>2. /\ r \in Objects(s.capacity) /\ TailFollows(r)
      /\ r.capacity = s.capacity /\ Items(r) = << >>
  BY <1>1, ClearEmpties DEF Sound
<1>3. Sound(r)
  BY <1>1, <1>2 DEF Sound
<1>4. Inv' /\ D' = [D EXCEPT ![x] = Abstract(r)]
  BY <1>3, SetSound, RetType DEF Clear
<1>5. Abstract(r) = [capacity |-> D[x].capacity, items |-> << >>]
  BY <1>2, AbstractFields DEF Abstract
<1> HIDE DEF r
<1>6. D' = [D EXCEPT ![x] = [capacity |-> @.capacity, items |-> << >>]]
  BY <1>4, <1>5
<1> QED BY <1>4, <1>6 DEF Clear, Deque!Clear, Deque!Set, D

LEMMA ResizeStep ==
  ASSUME Inv, NEW x \in Queues, NEW c \in Capacities, Resize(x, c)
  PROVE  Inv' /\ Deque!Resize(x, c)
<1>1. PICK got \in {c, 0} : Set(x, Fresh(got)) /\ ret' = 1
  BY DEF Resize
<1>2. /\ Fresh(got) \in Objects(got) /\ TailFollows(Fresh(got))
      /\ Fresh(got).capacity = got /\ Items(Fresh(got)) = << >>
      /\ got \in Capacities \cup {0}
  BY FreshIsEmpty
<1>3. Inv' /\ D' = [D EXCEPT ![x] = Abstract(Fresh(got))]
  BY <1>1, <1>2, SetSound DEF Sound
<1>4. Abstract(Fresh(got)) = Deque!EmptyOf(got)
  BY <1>2 DEF Abstract, Deque!EmptyOf
<1> QED BY <1>1, <1>3, <1>4 DEF Deque!Resize, D

LEMMA AssignStep ==
  ASSUME Inv, NEW x \in Queues, NEW y \in Queues, Assign(x, y)
  PROVE  Inv' /\ Deque!Assign(x, y)
<1>1. Sound(q[y])
  BY InvSound
<1>2. Inv' /\ D' = [D EXCEPT ![x] = Abstract(q[y])]
  BY <1>1, SetSound, RetType DEF Assign
<1>3. D[x].capacity = D[y].capacity /\ D[y] = Abstract(q[y])
  BY AbstractFields DEF Assign
<1> QED BY <1>2, <1>3 DEF Assign, Deque!Assign, D

LEMMA ResizeToZeroStep ==
  ASSUME Inv, ResizeToZero
  PROVE  Inv' /\ Deque!RefuseResize
<1>1. Inv' /\ D' = D
  BY SameSound DEF ResizeToZero
<1> QED BY <1>1 DEF ResizeToZero, Deque!RefuseResize, D

LEMMA StutterStep ==
  ASSUME Inv, UNCHANGED vars
  PROVE  Inv' /\ UNCHANGED Deque!vars
<1>1. Inv' /\ D' = D
  BY SameSound, RetType DEF vars
<1> QED BY <1>1 DEF vars, Deque!vars, D

LEMMA FifoStep ==
  ASSUME Inv, [FifoNext]_vars
  PROVE  Inv' /\ [Deque!Next]_(Deque!vars)
<1>1. CASE UNCHANGED vars
  BY <1>1, StutterStep
<1>2. CASE FifoNext
  <2>1. PICK x \in Queues :
          \/ \E el \in Elements : PushBack(x, el)
          \/ PopFront(x)
          \/ Clear(x)
          \/ \E c \in Capacities : Resize(x, c)
          \/ ResizeToZero
          \/ \E y \in Queues : Assign(x, y)
    BY <1>2 DEF FifoNext
  <2>2. CASE \E el \in Elements : PushBack(x, el)
    BY <2>2, PushBackStep DEF Deque!Next
  <2>3. CASE PopFront(x)
    BY <2>3, PopFrontStep DEF Deque!Next
  <2>4. CASE Clear(x)
    BY <2>4, ClearStep DEF Deque!Next
  <2>5. CASE \E c \in Capacities : Resize(x, c)
    BY <2>5, ResizeStep DEF Deque!Next
  <2>6. CASE ResizeToZero
    BY <2>6, ResizeToZeroStep DEF Deque!Next
  <2>7. CASE \E y \in Queues : Assign(x, y)
    BY <2>7, AssignStep DEF Deque!Next
  <2> QED BY <2>1, <2>2, <2>3, <2>4, <2>5, <2>6, <2>7
<1> QED BY <1>1, <1>2

LEMMA DequeStep ==
  ASSUME Inv, Divides, [DequeNext]_vars
  PROVE  Inv' /\ [Deque!Next]_(Deque!vars)
<1>1. CASE FifoNext \/ UNCHANGED vars
  BY <1>1, FifoStep
<1>2. CASE \E x \in Queues, el \in Elements : PushFront(x, el)
  BY <1>2, PushFrontStep DEF Deque!Next
<1>3. CASE \E x \in Queues : PopBack(x)
  BY <1>3, PopBackStep DEF Deque!Next
<1> QED BY <1>1, <1>2, <1>3 DEF DequeNext

-----------------------------------------------------------------------------
\* The observers of a sound object.

LEMMA StoredBack ==
  ASSUME NEW s, Sound(s), ~ Empty(s), s.tail < s.capacity
  PROVE  BackResults(s) = {Items(s)[s.size]}
<1> DEFINE c == s.capacity
           h == s.head
           n == s.size
           u == s.tail
<1>1. c \in Capacities /\ s \in Objects(c) /\ TailFollows(s) /\ n > 0
  BY SoundFields DEF Empty
<1>2. /\ c \in Nat /\ c > 0 /\ 2 * c <= UMod /\ UMod \in Nat
      /\ h \in 0 .. c - 1 /\ n \in 1 .. c /\ u \in 0 .. c - 1
      /\ ((u + 1) % UMod) % c = (h + n) % c
  BY <1>1, ObjectFields, SMTT(30) DEF TailFollows
<1>3. Items(s)[n] = s.buff[(h + n - 1) % c]
  <2>1. \A i \in 1 .. n : Items(s)[i] = s.buff[(h + i - 1) % c]
    BY <1>1, ItemsType
  <2> HIDE DEF c, h, n
  <2>2. n \in 1 .. n
    BY <1>2
  <2> QED BY <2>1, <2>2
<1>4. BackResults(s) = {s.buff[u]}
  BY DEF BackResults
<1> HIDE DEF c, h, n, u
<1>5. u = (h + n - 1) % c
  <2>1. u + 1 \in Nat /\ u + 1 < UMod /\ h + n - 1 \in Nat /\ h + n - 1 < 2 * c
    BY <1>2
  <2>2. (u + 1) % c = (h + n) % c
    BY <1>2, <2>1, ModSmall
  <2>3. (u + 1) % c = IF u = c - 1 THEN 0 ELSE u + 1
    BY <1>2
  <2>4. h + n - 1 + 1 = h + n
    BY <1>2
  <2> DEFINE e == h + n - 1
  <2>5. e \in Nat /\ e < 2 * c /\ e + 1 = h + n
    BY <2>1, <2>4
  <2> HIDE DEF e
  <2>6. (h + n) % c = IF e % c = c - 1 THEN 0 ELSE (e % c) + 1
    BY <1>2, <2>5, ModPred
  <2>7. e % c \in 0 .. c - 1
    BY <1>2, <2>5
  <2> QED BY <1>2, <2>2, <2>3, <2>6, <2>7 DEF e
<1> QED BY <1>3, <1>4, <1>5 DEF n

\* read(sindex, len, buff) from the head: with one memcpy or two, item by item.
LEMMA RangeIsPrefix ==
  ASSUME NEW s, Sound(s), ~ IsNull(s), NEW len \in 1 .. s.size
  PROVE  ReadRangeOf(s, s.head, len) = SubSeq(Items(s), 1, len)
<1> DEFINE c == s.capacity
           h == s.head
           n == s.size
           b == s.buff
           z == ReadRangeOf(s, h, len)
           w == SubSeq(Items(s), 1, len)
<1>1. c \in Capacities /\ s \in Objects(c) /\ TailFollows(s)
  BY SoundFields
<1>2. /\ c \in Nat /\ c > 0 /\ h \in 0 .. c - 1 /\ n \in 0 .. c
      /\ b \in [0 .. c - 1 -> Slots] /\ len \in 1 .. n
  BY <1>1, ObjectFields, SMTT(30) DEF TailFollows
<1>3. /\ Items(s) \in Seq(Slots) /\ Len(Items(s)) = n
      /\ \A i \in 1 .. n : Items(s)[i] = b[(h + i - 1) % c]
  <2>1. s.capacity = c
    OBVIOUS
  <2> QED BY <1>1, ItemsType
<1>4. /\ w \in Seq(Slots) /\ Len(w) = len
      /\ \A i \in 1 .. len : w[i] = b[(h + i - 1) % c]
  <2>1. /\ w \in Seq(Slots) /\ Len(w) = len
        /\ \A i \in 1 .. len : w[i] = Items(s)[i]
    BY <1>2, <1>3
  <2> HIDE DEF w, c, h, n, b
  <2>2. \A i \in 1 .. len : i \in 1 .. n
    BY <1>2
  <2> QED BY <1>3, <2>1, <2>2
<1>5. z = IF h + len <= c
          THEN [i \in 1 .. len |-> b[(h % c) + i - 1]]
          ELSE [i \in 1 .. c - h |-> b[h + i - 1]]
                 \o [i \in 1 .. len - (c - h) |-> b[0 + i - 1]]
  BY DEF ReadRangeOf
<1> HIDE DEF c, h, n, b, z, w
<1>6. \A i \in 1 .. len :
        (h + i - 1) % c = IF h + i - 1 < c THEN h + i - 1 ELSE h + i - 1 - c
  <2>1. len \in 1 .. c
    BY <1>2
  <2> QED BY <1>2, <2>1, WrapIndex
<1>7. CASE h + len <= c
  <2>1. z = [i \in 1 .. len |-> b[(h % c) + i - 1]]
    BY <1>5, <1>7
  <2>2. h % c = h
    <3>1. c \in Nat /\ h \in Nat /\ h < c
      BY <1>2
    <3> QED BY <3>1, ModSmall
  <2>3. ASSUME NEW i \in 1 .. len
        PROVE  z[i] = b[(h + i - 1) % c] /\ b[(h % c) + i - 1] \in Slots
    <3>1. (h + i - 1) % c = h + i - 1 /\ (h % c) + i - 1 = h + i - 1
      BY <1>2, <1>6, <1>7, <2>2
    <3>2. h + i - 1 \in 0 .. c - 1
      BY <1>2, <1>7
    <3>3. z[i] = b[(h % c) + i - 1]
      BY <2>1
    <3> QED BY <1>2, <3>1, <3>2, <3>3
  <2>4. z \in Seq(Slots) /\ Len(z) = len
    <3> DEFINE e(i) == b[(h % c) + i - 1]
    <3>1. \A i \in 1 .. len : e(i) \in Slots
      BY <2>3
    <3>2. len \in Nat /\ z = [i \in 1 .. len |-> e(i)]
      BY <1>2, <2>1
    <3> HIDE DEF e
    <3> QED BY <3>1, <3>2
  <2>5. \A i \in 1 .. Len(z) : z[i] = w[i]
    BY <1>4, <2>3, <2>4
  <2> QED BY <1>4, <2>4, <2>5, SeqEqual DEF z, w, h
<1>8. CASE ~ (h + len <= c)
  <2> DEFINE k == c - h
             p1 == [i \in 1 .. k |-> b[h + i - 1]]
             p2 == [i \in 1 .. len - k |-> b[0 + i - 1]]
  <2>1. z = p1 \o p2
    BY <1>5, <1>8
  <2>2. k \in 1 .. c /\ len - k \in 1 .. c /\ h + k = c
    BY <1>2, <1>8
  <2>3. /\ p1 \in Seq(Slots) /\ Len(p1) = k
        /\ \A i \in 1 .. k : p1[i] = b[h + i - 1]
    <3>1. \A i \in 1 .. k : b[h + i - 1] \in Slots
      BY <1>2, <2>2
    <3> HIDE DEF k
    <3> QED BY <2>2, <3>1
  <2>4. /\ p2 \in Seq(Slots) /\ Len(p2) = len - k
        /\ \A i \in 1 .. len - k : p2[i] = b[i - 1]
    <3>1. \A i \in 1 .. len - k : b[i - 1] \in Slots /\ 0 + i - 1 = i - 1
      BY <1>2, <2>2
    <3> DEFINE m == len - k
    <3>2. m \in Nat
      BY <2>2
    <3> HIDE DEF m
    <3>3. /\ [i \in 1 .. m |-> b[0 + i - 1]] \in Seq(Slots)
          /\ Len([i \in 1 .. m |-> b[0 + i - 1]]) = m
          /\ \A i \in 1 .. m : [j \in 1 .. m |-> b[0 + j - 1]][i] = b[i - 1]
      BY <3>1, <3>2 DEF m
    <3> QED BY <3>3 DEF m
  <2> HIDE DEF k, p1, p2
  <2>5. /\ z \in Seq(Slots) /\ Len(z) = k + (len - k)
        /\ \A i \in 1 .. k + (len - k) :
             z[i] = IF i <= k THEN p1[i] ELSE p2[i - k]
    BY <2>1, <2>3, <2>4, ConcatProperties
  <2>6. k + (len - k) = len
    BY <1>2, <2>2
  <2>7. ASSUME NEW i \in 1 .. len
        PROVE  z[i] = w[i]
    <3>1. CASE i <= k
      <4>1. z[i] = b[h + i - 1]
        BY <2>2, <2>3, <2>5, <2>6, <3>1
      <4>2. (h + i - 1) % c = h + i - 1
        BY <1>2, <1>6, <2>2, <3>1
      <4> QED BY <1>4, <4>1, <4>2
    <3>2. CASE ~ (i <= k)
      <4>1. i - k \in 1 .. len - k
        BY <1>2, <2>2, <3>2
      <4>2. z[i] = b[i - k - 1]
        BY <2>4, <2>5, <2>6, <3>2, <4>1
      <4>3. (h + i - 1) % c = i - k - 1
        BY <1>2, <1>6, <2>2, <3>2
      <4> QED BY <1>4, <4>2, <4>3
    <3> QED BY <3>1, <3>2
  <2> QED BY <1>4, <2>5, <2>6, <2>7, SeqEqual DEF z, w, h
<1> QED BY <1>7, <1>8

LEMMA SoundReads ==
  ASSUME NEW s, Sound(s)
  PROVE  /\ \A len \in 1 .. s.size :
              ReadRangeOf(s, s.head, len) = SubSeq(Items(s), 1, len)
         /\ \A i \in 0 .. s.size - 1 : ReadOf(s, i) = Items(s)[i + 1]
         /\ ~ Empty(s) => FrontOf(s) = Items(s)[1]
<1>1. CASE IsNull(s)
  BY <1>1, SoundFields DEF Empty
<1>2. CASE ~ IsNull(s)
  <2> DEFINE c == s.capacity
  <2>1. c \in Capacities /\ s \in Objects(c) /\ TailFollows(s)
    BY <1>2, SoundFields
  <2>2. /\ c \in Nat /\ c > 0 /\ s.head \in 0 .. c - 1 /\ s.size \in 0 .. c
    BY <2>1, ObjectFields DEF TailFollows
  <2>3. \A i \in 1 .. s.size : Items(s)[i] = s.buff[(s.head + i - 1) % c]
    BY <2>1, ItemsType
  <2>4. ASSUME NEW i \in 0 .. s.size - 1
        PROVE  ReadOf(s, i) = Items(s)[i + 1]
    <3>1. i + 1 \in 1 .. s.size /\ s.head + (i + 1) - 1 = i + s.head
      BY <2>2
    <3>2. Items(s)[i + 1] = s.buff[(i + s.head) % c]
      BY <2>3, <3>1
    <3> QED BY <3>2 DEF ReadOf
  <2>5. ASSUME ~ Empty(s)
        PROVE  FrontOf(s) = Items(s)[1]
    <3>1. 1 \in 1 .. s.size /\ (s.head + 1 - 1) % c = s.head
      BY <2>2, <2>5 DEF Empty
    <3> QED BY <2>3, <3>1 DEF FrontOf
  <2> QED BY <1>2, <2>4, <2>5, RangeIsPrefix
<1> QED BY <1>1, <1>2

\* Under the FIFO discipline _tail is an index of the buffer whenever an item
\* is held; push_front and pop_back break this, and back() with it.
StoredTail == \A x \in Queues : ~ Empty(q[x]) => q[x].tail < q[x].capacity

LEMMA StoredTailStep ==
  ASSUME Inv, StoredTail, [FifoNext]_vars
  PROVE  StoredTail'
<1> DEFINE Stored(s) == ~ Empty(s) => s.tail < s.capacity
<1>1. ASSUME NEW x \in Queues, NEW s, Set(x, s), Stored(s)
      PROVE  StoredTail'
  BY <1>1 DEF Set, StoredTail, Inv, TypeOK, Empty
<1>2. CASE UNCHANGED q
  BY <1>2 DEF StoredTail, Empty
<1>3. ASSUME NEW x \in Queues, NEW el \in Elements, PushBack(x, el), ~ UNCHANGED q
      PROVE  StoredTail'
  <2> DEFINE s == q[x]
             d == IF Full(s) THEN DropOldest(s) ELSE s
  <2>1. ~ IsNull(s) /\ Set(x, Store(d, el)) /\ Sound(s)
    BY <1>3, InvSound DEF PushBack, PushBackOf
  <2>2. /\ s.capacity \in Capacities /\ s \in Objects(s.capacity)
        /\ TailFollows(s)
        /\ s.size \in Nat /\ s.capacity \in Nat /\ s.size <= s.capacity
        /\ s.capacity > 0
    BY <2>1, SoundFields, CapacityFacts
  <2>3. d \in Objects(s.capacity) /\ TailFollows(d) /\ d.size < s.capacity
    BY <2>2, DropTail DEF Full
  <2>4. Store(d, el).tail < s.capacity /\ Store(d, el).capacity = s.capacity
    BY <2>2, <2>3, StoreAppends DEF Objects
  <2> QED BY <1>1, <2>1, <2>4
<1>4. ASSUME NEW x \in Queues, PopFront(x)
      PROVE  StoredTail'
  <2> DEFINE s == q[x]
  <2>1. ~ Empty(s) /\ Set(x, DropOldest(s)) /\ Sound(s) /\ Stored(s)
    BY <1>4, InvSound DEF PopFront, StoredTail
  <2>2. /\ s.capacity \in Capacities /\ s \in Objects(s.capacity)
        /\ TailFollows(s) /\ s.size > 0
    BY <2>1, SoundFields DEF Empty
  <2>3. DropOldest(s).tail = s.tail /\ DropOldest(s).capacity = s.capacity
    BY <2>2, DropTail DEF Objects
  <2> QED BY <1>1, <2>1, <2>3
<1>5. ASSUME NEW x \in Queues, Clear(x)
      PROVE  StoredTail'
  <2>1. Empty(ClearOf(q[x]))
    BY InvSound, ClearEmpties DEF Sound
  <2> QED BY <1>1, <1>5, <2>1 DEF Clear
<1>6. ASSUME NEW x \in Queues, NEW c \in Capacities, Resize(x, c)
      PROVE  StoredTail'
  BY <1>1, <1>6, FreshIsEmpty DEF Resize
<1>7. ASSUME NEW x \in Queues, NEW y \in Queues, Assign(x, y)
      PROVE  StoredTail'
  BY <1>1, <1>7 DEF Assign, StoredTail
<1> QED BY <1>2, <1>3, <1>4, <1>5, <1>6, <1>7
         DEF FifoNext, ResizeToZero, vars

-----------------------------------------------------------------------------
\* Under the class comment's discipline (push_back, pop_front, clear, resize,
\* assignment) the fields stay in range and the indices linked.
THEOREM FifoTypeCorrect == FifoSpec => [](TypeOK /\ Linked)
<1>1. Init => Inv
  BY InitInv
<1>2. Inv /\ [FifoNext]_vars => Inv'
  BY FifoStep
<1> QED BY <1>1, <1>2, PTL DEF FifoSpec, Inv

\* Under that discipline back() returns the newest item, as its comment says.
THEOREM FifoBackIsNewest == FifoSpec => []BackIsNewest
<1>1. Init => Inv /\ StoredTail
  <2>1. ASSUME Init PROVE StoredTail
    BY <2>1, FreshIsEmpty DEF Init, StoredTail
  <2> QED BY <2>1, InitInv
<1>2. Inv /\ StoredTail /\ [FifoNext]_vars => Inv' /\ StoredTail'
  BY FifoStep, StoredTailStep
<1>3. Inv /\ StoredTail => BackIsNewest
  BY InvSound, StoredBack DEF BackIsNewest, StoredTail
<1> QED BY <1>1, <1>2, <1>3, PTL DEF FifoSpec

\* Under that discipline the observers return the items, in order.
THEOREM FifoReadsAreItems == FifoSpec => []ReadsAreItems
<1>1. Inv => ReadsAreItems
  BY InvSound, SoundReads DEF ReadsAreItems
<1>2. Init => Inv
  BY InitInv
<1>3. Inv /\ [FifoNext]_vars => Inv'
  BY FifoStep
<1> QED BY <1>1, <1>2, <1>3, PTL DEF FifoSpec

\* Under that discipline the ring is the bounded deque the comments promise.
THEOREM FifoImplementsDeque == FifoSpec => ImplementsDeque
<1>1. Init => Inv /\ Deque!Init
  BY InitInv
<1>2. Inv /\ [FifoNext]_vars => Inv' /\ [Deque!Next]_(Deque!vars)
  BY FifoStep
<1> QED BY <1>1, <1>2, PTL DEF FifoSpec, ImplementsDeque, Deque!Spec

\* With push_front and pop_back too, when every capacity divides 2^w.
THEOREM DequeWhenCapacitiesDivide ==
  ASSUME Divides
  PROVE  Spec => ImplementsDeque
<1>1. Init => Inv /\ Deque!Init
  BY InitInv
<1>2. Inv /\ [DequeNext]_vars => Inv' /\ [Deque!Next]_(Deque!vars)
  BY DequeStep
<1> QED BY <1>1, <1>2, PTL DEF Spec, ImplementsDeque, Deque!Spec

\* Then back() errs only by reading past the buffer.
THEOREM BackWhenCapacitiesDivide ==
  ASSUME Divides
  PROVE  Spec => [](BackWhenStored /\ Linked)
<1>1. Init => Inv
  BY InitInv
<1>2. Inv /\ [DequeNext]_vars => Inv'
  BY DequeStep
<1>3. Inv => BackWhenStored /\ Linked
  BY InvSound, StoredBack DEF BackWhenStored, Inv
<1> QED BY <1>1, <1>2, <1>3, PTL DEF Spec

-----------------------------------------------------------------------------
Content(o) == IF disk[o] = Absent THEN 0 ELSE Len(disk[o])

\* t appends to o, or has decided to.
Appends(t, o) == op[t] = o /\ lpc[t] \in {"measured", "opened", "printed"} /\ own[t] = AtEnd

\* The cells that will be appended to o.
Coming(o) == {p \in Threads \X (1 .. MaxRecord) : Appends(p[1], o) /\ p[2] <= Len(rest[p[1]])}

LogTypes ==
  /\ disk \in [Ops -> Seq(Cells) \cup {Absent}]
  /\ lpc \in [Threads -> {"idle", "called", "measured", "opened", "printed", "dead"}]
  /\ call \in [Threads -> Nat] /\ op \in [Threads -> Ops]
  /\ rest \in [Threads -> Seq(Cells)] /\ own \in [Threads -> Nat \cup {AtEnd}]
  /\ \A t \in Threads : Len(rest[t]) <= MaxRecord

\* An open file is there, and a thread that emptied it writes at its own offset
\* one record.
OpenFiles ==
  \A t \in Threads :
    /\ lpc[t] \in {"opened", "printed"} => disk[op[t]] # Absent
    /\ lpc[t] \in {"measured", "opened", "printed"} /\ own[t] # AtEnd
         => own[t] + Len(rest[t]) <= MaxRecord

MaxContent == Kilobyte * LOG_FILE_MAX_SIZE + Cardinality(Threads) * MaxRecord

\* What is in a file and what is still to be appended to it.
RoomLeft == \A o \in Ops : Content(o) + Cardinality(Coming(o)) < MaxContent

LogInv == LogTypes /\ OpenFiles /\ RoomLeft

-----------------------------------------------------------------------------
LEMMA SizesAreNat ==
    /\ Cardinality(Threads) \in Nat /\ MaxRecord \in Nat \ {0}
    /\ Kilobyte * LOG_FILE_MAX_SIZE \in Nat \ {0}
    /\ Cardinality(Threads) * MaxRecord \in Nat /\ MaxContent \in Nat
<1>1. /\ Cardinality(Threads) \in Nat /\ MaxRecord \in Nat \ {0}
      /\ Kilobyte \in Nat \ {0} /\ LOG_FILE_MAX_SIZE \in Nat \ {0}
  BY LogAssumption, FS_CardinalityType
<1>2. \A m, n \in Nat : m * n \in Nat
  OBVIOUS
<1>3. \A m, n \in Nat \ {0} : m * n \in Nat \ {0}
  OBVIOUS
<1> QED BY <1>1, <1>2, <1>3 DEF MaxContent

\* A set of places of U threads has at most as many members as they have cells.
LEMMA PlacesAreBounded ==
    ASSUME NEW U, IsFiniteSet(U), NEW C, C \subseteq U \X (1 .. MaxRecord)
    PROVE  /\ IsFiniteSet(C) /\ Cardinality(C) \in Nat
           /\ Cardinality(C) <= Cardinality(U) * MaxRecord
<1> DEFINE Places == U \X (1 .. MaxRecord)
<1>1. IsFiniteSet(1 .. MaxRecord) /\ Cardinality(1 .. MaxRecord) = MaxRecord
  BY SizesAreNat, FS_Interval
<1>2. IsFiniteSet(Places) /\ Cardinality(Places) = Cardinality(U) * MaxRecord
  BY <1>1, FS_Product
<1>3. C \in SUBSET Places
  OBVIOUS
<1> HIDE DEF Places
<1>4. IsFiniteSet(C) /\ Cardinality(C) <= Cardinality(Places)
  BY <1>2, <1>3, FS_Subset
<1> QED BY <1>2, <1>4, FS_CardinalityType

\* An empty file is a file.
LEMMA EmptyIsThere == <<>> \in Seq(Cells) /\ <<>> # Absent
<1>1. <<>> \in Seq(Cells)
  OBVIOUS
<1>2. Absent \notin Seq(Cells)
  BY LogAssumption
<1> QED BY <1>1, <1>2

\* No more is to come than a record of each thread.
LEMMA ComingIsBounded ==
    ASSUME NEW o \in Ops
    PROVE  /\ IsFiniteSet(Coming(o)) /\ Cardinality(Coming(o)) \in Nat
           /\ Cardinality(Coming(o)) <= Cardinality(Threads) * MaxRecord
<1>1. Coming(o) \subseteq Threads \X (1 .. MaxRecord)
  BY DEF Coming
<1> QED BY <1>1, PlacesAreBounded, LogAssumption

LEMMA ComingIsBoundedNext ==
    ASSUME NEW o \in Ops
    PROVE  /\ Cardinality(Coming(o)') \in Nat
           /\ Cardinality(Coming(o)') <= Cardinality(Threads) * MaxRecord
<1> PICK C : C = Coming(o)'
  OBVIOUS
<1>1. C \subseteq Threads \X (1 .. MaxRecord)
  BY DEF Coming
<1>2. Cardinality(C) \in Nat /\ Cardinality(C) <= Cardinality(Threads) * MaxRecord
  BY <1>1, PlacesAreBounded, LogAssumption
<1> QED BY <1>2

\* And a record less when a thread does not append.
LEMMA ComingWithout ==
    ASSUME NEW o \in Ops, NEW t \in Threads, ~Appends(t, o)
    PROVE  Cardinality(Coming(o)) + MaxRecord <= Cardinality(Threads) * MaxRecord
<1> DEFINE Others == Threads \ {t}
<1>1. IsFiniteSet(Threads) /\ MaxRecord \in Nat /\ Cardinality(Threads) \in Nat
  BY LogAssumption, SizesAreNat
<1>2. IsFiniteSet(Others) /\ Cardinality(Others) = Cardinality(Threads) - 1
  BY <1>1, FS_RemoveElement
<1>3. Coming(o) \subseteq Others \X (1 .. MaxRecord)
  BY DEF Coming
<1> HIDE DEF Others
<1>4. Cardinality(Coming(o)) <= (Cardinality(Threads) - 1) * MaxRecord
  BY <1>2, <1>3, PlacesAreBounded
<1>5. \A n, m \in Nat : (n - 1) * m = n * m - m
  OBVIOUS
<1> QED BY <1>1, <1>4, <1>5, SizesAreNat, ComingIsBounded

\* The size of a file that is measured small.
LEMMA SmallIsBelow ==
    ASSUME NEW s \in Nat, Small(s)
    PROVE  s < Kilobyte * LOG_FILE_MAX_SIZE
<1>1. Kilobyte \in Nat \ {0} /\ LOG_FILE_MAX_SIZE \in Nat \ {0}
  BY LogAssumption
<1> PICK z \in Nat : z = s \div Kilobyte /\ s < Kilobyte * (z + 1)
  BY <1>1
<1>2. z + 1 <= LOG_FILE_MAX_SIZE
  BY <1>1 DEF Small
<1>3. \A k, m, n \in Nat : m <= n => k * m <= k * n
  OBVIOUS
<1>4. Kilobyte * (z + 1) <= Kilobyte * LOG_FILE_MAX_SIZE
  BY <1>1, <1>2, <1>3
<1> QED BY <1>1, <1>4

LEMMA ContentIsNat ==
    ASSUME LogTypes, NEW o \in Ops
    PROVE  Content(o) \in Nat /\ Cardinality(Coming(o)) \in Nat
BY ComingIsBounded DEF LogTypes, Content

\* A file that does not grow, with nothing new to come, keeps its room.
LEMMA NothingNew ==
    ASSUME RoomLeft, LogTypes, LogTypes', NEW o \in Ops,
           Content(o)' <= Content(o), Coming(o)' \subseteq Coming(o)
    PROVE  Content(o)' + Cardinality(Coming(o)') < MaxContent
<1>1. IsFiniteSet(Coming(o)) /\ Cardinality(Coming(o)) \in Nat
  BY ComingIsBounded
<1>2. Cardinality(Coming(o)') <= Cardinality(Coming(o)) /\ Cardinality(Coming(o)') \in Nat
  <2> PICK S : S = Coming(o)'
    OBVIOUS
  <2>1. IsFiniteSet(S) /\ Cardinality(S) <= Cardinality(Coming(o))
    BY <1>1, FS_Subset
  <2> QED BY <2>1, FS_CardinalityType
<1> PICK c \in Nat, d \in Nat, m \in Nat, n \in Nat :
       /\ c = Content(o) /\ d = Content(o)'
       /\ m = Cardinality(Coming(o)) /\ n = Cardinality(Coming(o)')
  <2>1. Content(o)' \in Nat
    BY DEF LogTypes, Content
  <2> QED BY <1>1, <1>2, <2>1, ContentIsNat
<1>3. d <= c /\ n <= m /\ c + m < MaxContent
  BY <1>2 DEF RoomLeft
<1>4. d + n < MaxContent
  BY <1>3, SizesAreNat
<1> QED BY <1>4

\* Every step but a measurement and a write takes room from no file.
LEMMA OtherStepsKeepRoom ==
    ASSUME LogInv, LogTypes',
           \/ \E t \in Threads : \/ \E o \in Ops, n \in 1 .. MaxRecord : Call(t, o, n)
                                 \/ Lock(t) \/ OpenAppend(t) \/ OpenEmptied(t)
                                 \/ PutsLog(t) \/ Close(t) \/ OpenFails(t)
           \/ \E p \in Processes : Kill(p)
           \/ UNCHANGED debugVars
    PROVE  OpenFiles' /\ RoomLeft'
<1>1. /\ disk \in [Ops -> Seq(Cells) \cup {Absent}] /\ op \in [Threads -> Ops]
      /\ lpc \in [Threads -> {"idle", "called", "measured", "opened", "printed", "dead"}]
      /\ rest \in [Threads -> Seq(Cells)] /\ own \in [Threads -> Nat \cup {AtEnd}]
  BY DEF LogInv, LogTypes
<1>2. SUFFICES OpenFiles' /\ \A o \in Ops : Content(o)' <= Content(o) /\ Coming(o)' \subseteq Coming(o)
  BY NothingNew DEF LogInv, RoomLeft
<1>3. ASSUME NEW t \in Threads, disk' = disk,
             \A u \in Threads : u # t => /\ lpc'[u] = lpc[u] /\ op'[u] = op[u]
                                        /\ rest'[u] = rest[u] /\ own'[u] = own[u],
             \/ lpc'[t] \in {"idle", "called"}
             \/ /\ lpc[t] \in {"opened", "printed"} /\ op'[t] = op[t]
                /\ rest'[t] = rest[t] /\ own'[t] = own[t]
             \/ lpc'[t] = lpc[t] /\ op'[t] = op[t] /\ rest'[t] = rest[t] /\ own'[t] = own[t]
      PROVE  OpenFiles' /\ \A o \in Ops : Content(o)' <= Content(o) /\ Coming(o)' \subseteq Coming(o)
  <2>1. OpenFiles'
    BY <1>3 DEF LogInv, OpenFiles
  <2>2. \A o \in Ops : Content(o)' = Content(o) /\ Content(o) \in Nat
    BY <1>3, ContentIsNat DEF LogInv, Content
  <2>3. \A o \in Ops, u \in Threads : Appends(u, o)' => Appends(u, o) /\ rest'[u] = rest[u]
    BY <1>3 DEF Appends
  <2>4. \A o \in Ops : Coming(o)' \subseteq Coming(o)
    BY <2>3 DEF Coming
  <2> QED BY <2>1, <2>2, <2>4
<1>4. ASSUME disk' = disk, op' = op, rest' = rest, own' = own,
             \A u \in Threads : lpc'[u] \in {lpc[u], "dead"}
      PROVE  OpenFiles' /\ \A o \in Ops : Content(o)' <= Content(o) /\ Coming(o)' \subseteq Coming(o)
  <2>1. OpenFiles'
    BY <1>4 DEF LogInv, OpenFiles
  <2>2. \A o \in Ops : Content(o)' = Content(o) /\ Content(o) \in Nat
    BY <1>4, ContentIsNat DEF LogInv, Content
  <2>3. \A o \in Ops, u \in Threads : Appends(u, o)' => Appends(u, o)
    BY <1>4 DEF Appends
  <2>4. \A o \in Ops : Coming(o)' \subseteq Coming(o)
    BY <1>4, <2>3 DEF Coming
  <2> QED BY <2>1, <2>2, <2>4
<1>5. ASSUME NEW t \in Threads, NEW o \in Ops, NEW n \in 1 .. MaxRecord, Call(t, o, n)
      PROVE  OpenFiles' /\ \A z \in Ops : Content(z)' <= Content(z) /\ Coming(z)' \subseteq Coming(z)
  <2>1. /\ disk' = disk /\ lpc'[t] = "called"
        /\ \A u \in Threads : u # t => /\ lpc'[u] = lpc[u] /\ op'[u] = op[u]
                                      /\ rest'[u] = rest[u] /\ own'[u] = own[u]
    BY <1>1, <1>5 DEF Call, Go, diskVars
  <2> QED BY <1>3, <2>1
<1>6. ASSUME NEW t \in Threads, Lock(t) \/ UNCHANGED debugVars
      PROVE  OpenFiles' /\ \A z \in Ops : Content(z)' <= Content(z) /\ Coming(z)' \subseteq Coming(z)
  <2>1. disk' = disk /\ lpc' = lpc /\ op' = op /\ rest' = rest /\ own' = own
    BY <1>6 DEF Lock, debugVars, diskVars, bufVars
  <2> QED BY <1>4, <2>1
<1>7. ASSUME NEW t \in Threads, OpenAppend(t) \/ OpenEmptied(t)
      PROVE  OpenFiles' /\ \A z \in Ops : Content(z)' <= Content(z) /\ Coming(z)' \subseteq Coming(z)
  <2>1. /\ lpc[t] = "measured" /\ lpc' = [lpc EXCEPT ![t] = "opened"] /\ op' = op /\ rest' = rest
        /\ own' = own
    BY <1>1, <1>7 DEF OpenAppend, OpenEmptied, At, Go, bufVars, Offset
  <2>2. (disk' = disk /\ disk[op[t]] # Absent) \/ disk' = [disk EXCEPT ![op[t]] = <<>>]
    BY <1>7 DEF OpenAppend, OpenEmptied
  <2>3. \A z \in Ops : disk'[z] = disk[z] \/ (disk'[z] = <<>> /\ disk'[z] # Absent)
    <3> QED BY <1>1, <2>2, EmptyIsThere
  <2>4. disk'[op[t]] # Absent
    <3>1. op[t] \in Ops
      BY <1>1
    <3> QED BY <1>1, <2>2, <3>1, EmptyIsThere
  <2>5. OpenFiles'
    BY <1>1, <2>1, <2>3, <2>4 DEF LogInv, OpenFiles
  <2>6. \A z \in Ops : Content(z)' <= Content(z)
    <3> SUFFICES ASSUME NEW z \in Ops PROVE Content(z)' <= Content(z)
      OBVIOUS
    <3>1. Content(z) \in Nat
      BY ContentIsNat DEF LogInv
    <3>2. Content(z)' = Content(z) \/ Content(z)' = 0
      BY <2>3 DEF Content
    <3> QED BY <3>1, <3>2
  <2>7. \A z \in Ops, u \in Threads : Appends(u, z)' => Appends(u, z)
    BY <1>1, <2>1 DEF Appends
  <2>8. \A z \in Ops : Coming(z)' \subseteq Coming(z)
    BY <2>1, <2>7 DEF Coming
  <2> QED BY <2>5, <2>6, <2>8
<1>8. ASSUME NEW t \in Threads, PutsLog(t)
      PROVE  OpenFiles' /\ \A z \in Ops : Content(z)' <= Content(z) /\ Coming(z)' \subseteq Coming(z)
  <2>1. /\ disk' = disk /\ op' = op /\ rest' = rest /\ own' = own
        /\ lpc[t] = "opened" /\ lpc' = [lpc EXCEPT ![t] = "printed"]
    BY <1>8 DEF PutsLog, At, Go, diskVars, bufVars
  <2> QED BY <1>1, <1>3, <2>1
<1>9. ASSUME NEW t \in Threads, Close(t)
      PROVE  OpenFiles' /\ \A z \in Ops : Content(z)' <= Content(z) /\ Coming(z)' \subseteq Coming(z)
  <2>1. /\ disk' = disk /\ rest' = rest /\ op' = [op EXCEPT ![t] = "log_dbg_info"]
        /\ own' = [own EXCEPT ![t] = AtEnd] /\ lpc' = [lpc EXCEPT ![t] = "idle"]
    BY <1>9 DEF Close, Go
  <2> QED BY <1>1, <1>3, <2>1
<1>10. ASSUME NEW p, Dies(p), UNCHANGED <<diskVars, call, bufVars>>
       PROVE  OpenFiles' /\ \A z \in Ops : Content(z)' <= Content(z) /\ Coming(z)' \subseteq Coming(z)
  <2>1. /\ disk' = disk /\ op' = op /\ rest' = rest /\ own' = own
        /\ \A u \in Threads : lpc'[u] \in {lpc[u], "dead"}
    BY <1>10 DEF Dies, diskVars, bufVars
  <2> QED BY <1>4, <2>1
<1> QED BY <1>4, <1>5, <1>6, <1>7, <1>8, <1>9, <1>10 DEF OpenFails, Kill, debugVars, diskVars, bufVars

\* A file that is measured small leaves room for a record of every thread.
LEMMA MeasureKeepsRoom ==
    ASSUME LogInv, LogTypes', NEW t \in Threads, Measure(t)
    PROVE  OpenFiles' /\ RoomLeft'
<1>1. /\ op \in [Threads -> Ops] /\ own \in [Threads -> Nat \cup {AtEnd}]
      /\ lpc \in [Threads -> {"idle", "called", "measured", "opened", "printed", "dead"}]
      /\ rest \in [Threads -> Seq(Cells)] /\ Len(rest[t]) \in Nat /\ Len(rest[t]) <= MaxRecord
  BY DEF LogInv, LogTypes
<1>2. /\ lpc[t] = "called" /\ lpc' = [lpc EXCEPT ![t] = "measured"]
      /\ own' = [own EXCEPT ![t] = IF Small(file_size(op[t])) THEN AtEnd ELSE 0]
      /\ disk' = disk /\ op' = op /\ rest' = rest
  BY DEF Measure, At, Go, diskVars
<1>3. OpenFiles'
  <2>1. own'[t] # AtEnd => own'[t] + Len(rest[t]) <= MaxRecord
    BY <1>1, <1>2
  <2> QED BY <1>1, <1>2, <2>1 DEF LogInv, OpenFiles
<1>4. ASSUME NEW o \in Ops PROVE Content(o)' + Cardinality(Coming(o)') < MaxContent
  <2>1. Content(o)' = Content(o) /\ Content(o) \in Nat
    BY <1>2, ContentIsNat DEF LogInv, Content
  <2>2. CASE o # op[t] \/ ~Small(file_size(o))
    <3>1. \A u \in Threads : Appends(u, o)' => Appends(u, o)
      BY <1>1, <1>2, <2>2 DEF Appends, AtEnd
    <3>2. Coming(o)' \subseteq Coming(o)
      BY <1>2, <3>1 DEF Coming
    <3> QED BY <2>1, <3>2, NothingNew DEF LogInv
  <2>3. CASE Small(file_size(o))
    <3>1. Content(o) < Kilobyte * LOG_FILE_MAX_SIZE
      <4>1. CASE disk[o] = Absent
        BY <4>1, SizesAreNat DEF Content
      <4>2. CASE disk[o] # Absent
        BY <2>1, <2>3, <4>2, SmallIsBelow DEF Content, file_size
      <4> QED BY <4>1, <4>2
    <3>2. Cardinality(Coming(o)') \in Nat /\ Cardinality(Coming(o)') <= Cardinality(Threads) * MaxRecord
      BY ComingIsBoundedNext
    <3> PICK c \in Nat, n \in Nat : c = Content(o) /\ n = Cardinality(Coming(o)')
      BY <2>1, <3>2
    <3> QED BY <2>1, <3>1, <3>2, SizesAreNat DEF MaxContent
  <2> QED BY <2>2, <2>3
<1> QED BY <1>3, <1>4 DEF RoomLeft

\* A write puts a cell: f is one longer, or as long as it was.
LEMMA PutIsACell ==
    ASSUME NEW f \in Seq(Cells), NEW at \in Nat, NEW c \in Cells
    PROVE  /\ Put(f, at, c) \in Seq(Cells) /\ Put(f, at, c) # Absent
           /\ Len(Put(f, at, c)) = IF at < Len(f) THEN Len(f) ELSE at + 1
<1> PICK n \in Nat : n = IF at < Len(f) THEN Len(f) ELSE at + 1
  OBVIOUS
<1>1. Put(f, at, c) = [i \in 1 .. n |-> IF i = at + 1 THEN c ELSE IF i <= Len(f) THEN f[i] ELSE Hole]
  BY DEF Put
<1>2. \A i \in 1 .. n : (IF i = at + 1 THEN c ELSE IF i <= Len(f) THEN f[i] ELSE Hole) \in Cells
  BY DEF Cells
<1>3. Put(f, at, c) \in [1 .. n -> Cells]
  BY <1>1, <1>2
<1>4. Put(f, at, c) \in Seq(Cells) /\ Len(Put(f, at, c)) = n
  BY <1>3
<1> QED BY <1>4, LogAssumption

\* A thread that appends lengthens the file by what it has no longer to append;
\* one that emptied it writes within the first record of it.
LEMMA WriteKeepsRoom ==
    ASSUME LogInv, LogTypes', NEW t \in Threads, Write(t)
    PROVE  OpenFiles' /\ RoomLeft'
<1>1. /\ disk \in [Ops -> Seq(Cells) \cup {Absent}] /\ op \in [Threads -> Ops]
      /\ own \in [Threads -> Nat \cup {AtEnd}] /\ rest \in [Threads -> Seq(Cells)]
      /\ Len(rest[t]) \in Nat
  BY DEF LogInv, LogTypes
<1> PICK f \in Seq(Cells), k \in Nat, c \in Cells, at \in Nat :
       /\ f = disk[op[t]] /\ k = Len(rest[t]) /\ k # 0 /\ c = Head(rest[t])
       /\ at = IF own[t] = AtEnd THEN Len(f) ELSE own[t]
  <2>1. disk[op[t]] \in Seq(Cells)
    BY <1>1 DEF Write, At, LogInv, OpenFiles
  <2>2. Len(rest[t]) # 0 /\ Head(rest[t]) \in Cells
    BY <1>1 DEF Write
  <2>3. (IF own[t] = AtEnd THEN Len(disk[op[t]]) ELSE own[t]) \in Nat
    BY <1>1, <2>1
  <2> QED BY <1>1, <2>1, <2>2, <2>3
<1>2. /\ lpc[t] = "printed" /\ lpc' = lpc /\ op' = op
      /\ disk' = [disk EXCEPT ![op[t]] = Put(f, at, c)]
      /\ own' = IF own[t] = AtEnd THEN own ELSE [own EXCEPT ![t] = @ + 1]
      /\ rest' = [rest EXCEPT ![t] = Tail(@)]
  BY DEF Write, At
<1>3. rest'[t] = Tail(rest[t]) /\ Len(rest'[t]) = k - 1
  BY <1>1, <1>2
<1> PICK m \in Nat : m = k - 1 /\ m <= k /\ ~(k <= m)
  <2>1. \A i \in Nat : i # 0 => i - 1 \in Nat /\ i - 1 <= i /\ ~(i <= i - 1)
    OBVIOUS
  <2> QED BY <2>1
<1> PICK g \in Seq(Cells) : g = Put(f, at, c) /\ g # Absent
                            /\ Len(g) = IF at < Len(f) THEN Len(f) ELSE at + 1
  BY PutIsACell
<1>4. disk' = [disk EXCEPT ![op[t]] = g]
  BY <1>2
<1>5. OpenFiles'
  <2>1. \A u \in Threads : disk[op[u]] # Absent => disk'[op[u]] # Absent
    BY <1>1, <1>4
  <2>2. own[t] # AtEnd => own[t] \in Nat /\ own[t] + k <= MaxRecord /\ own'[t] = own[t] + 1
    BY <1>1, <1>2 DEF LogInv, OpenFiles
  <2>3. own'[t] # AtEnd => own'[t] + Len(rest'[t]) <= MaxRecord
    <3>1. CASE own[t] = AtEnd
      BY <1>2, <3>1
    <3>2. CASE own[t] # AtEnd
      <4> PICK b \in Nat : b = own[t] /\ b + k <= MaxRecord /\ own'[t] = b + 1
        BY <2>2, <3>2
      <4>1. (b + 1) + (k - 1) = b + k
        BY ONLY b \in Nat, k \in Nat
      <4>2. own'[t] + Len(rest'[t]) = b + k
        BY <1>3, <4>1
      <4> QED BY <4>2
    <3> QED BY <3>1, <3>2
  <2>4. \A u \in Threads : u # t => rest'[u] = rest[u] /\ own'[u] = own[u]
    BY <1>1, <1>2
  <2> QED BY <1>2, <2>1, <2>3, <2>4 DEF LogInv, OpenFiles
<1>6. \A u \in Threads, o \in Ops : Appends(u, o)' => Appends(u, o)
  BY <1>1, <1>2 DEF Appends, AtEnd
<1>7. \A u \in Threads : Len(rest'[u]) \in Nat /\ Len(rest[u]) \in Nat /\ Len(rest'[u]) <= Len(rest[u])
  <2> SUFFICES ASSUME NEW u \in Threads
               PROVE  Len(rest'[u]) \in Nat /\ Len(rest[u]) \in Nat /\ Len(rest'[u]) <= Len(rest[u])
    OBVIOUS
  <2>1. CASE u = t
    <3>1. Len(rest'[u]) = m /\ Len(rest[u]) = k
      BY <1>3, <2>1
    <3> QED BY <3>1
  <2>2. CASE u # t
    BY <1>1, <1>2, <2>2
  <2> QED BY <2>1, <2>2
<1>8. \A o \in Ops : Coming(o)' \subseteq Coming(o)
  BY <1>6, <1>7, SizesAreNat, SMTT(30) DEF Coming
<1>9. ASSUME NEW o \in Ops PROVE Content(o)' + Cardinality(Coming(o)') < MaxContent
  <2>1. CASE o # op[t]
    <3>1. Content(o)' = Content(o)
      BY <1>1, <1>4, <2>1 DEF Content
    <3> QED BY <1>8, <3>1, NothingNew, ContentIsNat DEF LogInv
  <2>2. CASE o = op[t] /\ own[t] # AtEnd
    <3>1. ~Appends(t, o) /\ Content(o) = Len(f) /\ Content(o)' = Len(g) /\ at + 1 <= MaxRecord
      <4>1. ~Appends(t, o)
        BY <2>2 DEF Appends
      <4>2. disk[o] = f /\ disk'[o] = g /\ f # Absent
        BY <1>1, <1>4, <2>2, LogAssumption
      <4>3. at + k <= MaxRecord
        BY <1>2, <2>2 DEF LogInv, OpenFiles
      <4>4. at + 1 <= MaxRecord
        <5>1. \A a, c1, d \in Nat : c1 # 0 /\ a + c1 <= d => a + 1 <= d
          OBVIOUS
        <5>2. MaxRecord \in Nat
          BY SizesAreNat
        <5> QED BY <4>3, <5>1, <5>2
      <4>5. Content(o) = Len(f)
        BY <4>2 DEF Content
      <4>6. Content(o)' = Len(g)
        BY <4>2 DEF Content
      <4> QED BY <4>1, <4>4, <4>5, <4>6
    <3>2. CASE Len(g) <= Len(f)
      BY <1>8, <3>1, <3>2, NothingNew DEF LogInv
    <3>3. CASE Len(g) <= MaxRecord
      <4> PICK i \in Nat, n \in Nat : i = Cardinality(Coming(o)) /\ n = Cardinality(Coming(o)')
        BY ComingIsBounded, ComingIsBoundedNext
      <4>1. n <= i
        BY <1>8, ComingIsBounded, FS_Subset
      <4>2. i + MaxRecord <= Cardinality(Threads) * MaxRecord
        BY <3>1, ComingWithout
      <4> PICK all \in Nat, lim \in Nat \ {0} :
             all = Cardinality(Threads) * MaxRecord /\ lim = Kilobyte * LOG_FILE_MAX_SIZE
        BY SizesAreNat
      <4>3. n + MaxRecord <= all
        BY <4>1, <4>2, SizesAreNat
      <4>4. Len(g) + n < lim + all
        <5>1. \A a, b, c1, d, e \in Nat :
                 a <= b /\ c1 + b <= d /\ e # 0 => a + c1 < e + d
          OBVIOUS
        <5>2. MaxRecord \in Nat /\ Len(g) \in Nat /\ lim # 0
          BY SizesAreNat
        <5> QED BY <3>3, <4>3, <5>1, <5>2
      <4>5. Len(g) + n < MaxContent
        BY <4>4 DEF MaxContent
      <4> QED BY <3>1, <4>5
    <3> QED BY <3>1, <3>2, <3>3
  <2>3. CASE o = op[t] /\ own[t] = AtEnd
    <3>1. Content(o) = Len(f) /\ Content(o)' = Len(f) + 1
      <4>1. disk[o] = f /\ disk'[o] = g /\ f # Absent /\ Len(g) = Len(f) + 1
        BY <1>1, <1>4, <2>3, LogAssumption
      <4>2. Content(o) = Len(f)
        BY <4>1 DEF Content
      <4>3. Content(o)' = Len(g)
        BY <4>1 DEF Content
      <4> QED BY <4>1, <4>2, <4>3
    <3>2. <<t, k>> \in Coming(o)
      <4>1. Appends(t, o)
        BY <1>2, <2>3 DEF Appends
      <4>2. k \in 1 .. MaxRecord
        BY SizesAreNat DEF LogInv, LogTypes
      <4> QED BY <4>1, <4>2 DEF Coming
    <3>3. <<t, k>> \notin Coming(o)'
      <4>1. ~(k <= Len(rest'[t]))
        BY <1>3
      <4> QED BY <4>1 DEF Coming
    <3> PICK S, C : S = Coming(o) /\ C = Coming(o)'
      OBVIOUS
    <3>4. /\ IsFiniteSet(S) /\ Cardinality(S) \in Nat /\ Cardinality(S \ {<<t, k>>}) = Cardinality(S) - 1
          /\ IsFiniteSet(S \ {<<t, k>>})
      BY <3>2, ComingIsBounded, FS_RemoveElement
    <3>5. C \subseteq S \ {<<t, k>>}
      BY <1>8, <3>3
    <3>6. Cardinality(C) \in Nat /\ Cardinality(C) <= Cardinality(S) - 1
      <4>1. IsFiniteSet(C) /\ Cardinality(C) <= Cardinality(S \ {<<t, k>>})
        BY <3>4, <3>5, FS_Subset
      <4> QED BY <3>4, <4>1, FS_CardinalityType
    <3>7. Len(f) + Cardinality(S) < MaxContent
      BY <3>1 DEF LogInv, RoomLeft
    <3>8. Len(f) + 1 + Cardinality(C) < MaxContent
      BY <3>4, <3>6, <3>7, SizesAreNat, SMTT(30)
    <3> QED BY <3>1, <3>8
  <2> QED BY <2>1, <2>2, <2>3
<1> QED BY <1>5, <1>9 DEF RoomLeft

-----------------------------------------------------------------------------
\* A call's record is cells.
LEMMA RecordIsCells ==
    ASSUME LogTypes, NEW t \in Threads, NEW n \in 1 .. MaxRecord
    PROVE  /\ [i \in 1 .. n |-> <<t, call[t] + 1, i, n>>] \in Seq(Cells)
           /\ Len([i \in 1 .. n |-> <<t, call[t] + 1, i, n>>]) = n
<1>1. call[t] + 1 \in Nat /\ n \in Nat
  BY DEF LogTypes
<1>2. \A i \in 1 .. n : <<t, call[t] + 1, i, n>> \in Cells
  BY <1>1 DEF Cells
<1>3. [i \in 1 .. n |-> <<t, call[t] + 1, i, n>>] \in [1 .. n -> Cells]
  BY <1>2
<1> QED BY <1>1, <1>3

LEMMA StepKeepsTypes ==
    ASSUME LogInv, [DebugNext]_debugVars
    PROVE  LogTypes'
<1>1. LogTypes /\ <<>> \in Seq(Cells) /\ <<>> # Absent
  BY EmptyIsThere DEF LogInv
<1>2. ASSUME NEW t \in Threads, NEW o \in Ops, NEW n \in 1 .. MaxRecord, Call(t, o, n)
      PROVE  LogTypes'
  <2> PICK r \in Seq(Cells) : r = [i \in 1 .. n |-> <<t, call[t] + 1, i, n>>] /\ Len(r) = n
    BY <1>1, RecordIsCells
  <2>1. /\ op' = [op EXCEPT ![t] = o] /\ call' = [call EXCEPT ![t] = @ + 1]
        /\ rest' = [rest EXCEPT ![t] = r] /\ lpc' = [lpc EXCEPT ![t] = "called"]
        /\ own' = own /\ disk' = disk
    BY <1>2 DEF Call, Go, diskVars
  <2>2. Len(r) <= MaxRecord
    BY SizesAreNat
  <2>3. \A u \in Threads : rest'[u] = IF u = t THEN r ELSE rest[u]
    BY <1>1, <2>1 DEF LogTypes
  <2>4. \A u \in Threads : Len(rest'[u]) <= MaxRecord
    BY <1>1, <2>2, <2>3 DEF LogTypes
  <2>5. call' \in [Threads -> Nat] /\ rest' \in [Threads -> Seq(Cells)]
    BY <1>1, <2>1 DEF LogTypes
  <2> QED BY <1>1, <2>1, <2>4, <2>5 DEF LogTypes
<1>3. ASSUME NEW t \in Threads, Lock(t) \/ Measure(t) \/ PutsLog(t) \/ Close(t) PROVE LogTypes'
  <2>1. disk' = disk /\ rest' = rest /\ call' = call
    BY <1>3 DEF Lock, Measure, PutsLog, Close, diskVars, bufVars
  <2>2. op' = op \/ op' = [op EXCEPT ![t] = "log_dbg_info"]
    BY <1>3 DEF Lock, Measure, PutsLog, Close, bufVars
  <2>3. own' = own \/ own' = [own EXCEPT ![t] = AtEnd] \/ own' = [own EXCEPT ![t] = 0]
    BY <1>3 DEF Lock, Measure, PutsLog, Close, bufVars
  <2>4. lpc' = lpc \/ \E l \in {"measured", "printed", "idle"} : lpc' = [lpc EXCEPT ![t] = l]
    BY <1>3 DEF Lock, Measure, PutsLog, Close, Go
  <2>5. op' \in [Threads -> Ops]
    BY <1>1, <2>2 DEF LogTypes, Ops
  <2>6. own' \in [Threads -> Nat \cup {AtEnd}]
    BY <1>1, <2>3 DEF LogTypes
  <2>7. lpc' \in [Threads -> {"idle", "called", "measured", "opened", "printed", "dead"}]
    BY <1>1, <2>4 DEF LogTypes
  <2> QED BY <1>1, <2>1, <2>5, <2>6, <2>7 DEF LogTypes
<1>4. ASSUME NEW t \in Threads, OpenAppend(t) \/ OpenEmptied(t) PROVE LogTypes'
  <2>1. /\ lpc' = [lpc EXCEPT ![t] = "opened"] /\ op' = op /\ rest' = rest /\ call' = call
        /\ (own' = own \/ own' = [own EXCEPT ![t] = AtEnd])
        /\ (disk' = disk \/ disk' = [disk EXCEPT ![op[t]] = <<>>])
    BY <1>4 DEF OpenAppend, OpenEmptied, Go, Offset, bufVars
  <2>2. disk' \in [Ops -> Seq(Cells) \cup {Absent}]
    BY <1>1, <2>1 DEF LogTypes
  <2>3. own' \in [Threads -> Nat \cup {AtEnd}]
    BY <1>1, <2>1 DEF LogTypes
  <2>4. lpc' \in [Threads -> {"idle", "called", "measured", "opened", "printed", "dead"}]
    BY <1>1, <2>1 DEF LogTypes
  <2> QED BY <1>1, <2>1, <2>2, <2>3, <2>4 DEF LogTypes
<1>5. ASSUME NEW t \in Threads, Write(t) PROVE LogTypes'
  <2>1. /\ disk \in [Ops -> Seq(Cells) \cup {Absent}] /\ op \in [Threads -> Ops]
        /\ own \in [Threads -> Nat \cup {AtEnd}] /\ rest \in [Threads -> Seq(Cells)]
    BY <1>1 DEF LogTypes
  <2> PICK f \in Seq(Cells), c \in Cells, at \in Nat :
         /\ f = disk[op[t]] /\ c = Head(rest[t]) /\ rest[t] # <<>>
         /\ at = IF own[t] = AtEnd THEN Len(f) ELSE own[t]
    <3>1. disk[op[t]] \in Seq(Cells)
      BY <1>5, <2>1 DEF Write, At, LogInv, OpenFiles
    <3>2. Head(rest[t]) \in Cells /\ rest[t] # <<>>
      BY <1>5, <2>1 DEF Write
    <3>3. (IF own[t] = AtEnd THEN Len(disk[op[t]]) ELSE own[t]) \in Nat
      BY <2>1, <3>1
    <3> QED BY <3>1, <3>2, <3>3
  <2> PICK g \in Seq(Cells) : g = Put(f, at, c)
    BY PutIsACell
  <2>2. disk' = [disk EXCEPT ![op[t]] = g] /\ rest' = [rest EXCEPT ![t] = Tail(@)]
    BY <1>5 DEF Write
  <2>3. disk' \in [Ops -> Seq(Cells) \cup {Absent}]
    BY <2>1, <2>2
  <2>4. /\ Tail(rest[t]) \in Seq(Cells) /\ Len(rest[t]) \in Nat /\ Len(rest[t]) <= MaxRecord
        /\ Len(Tail(rest[t])) = Len(rest[t]) - 1
    BY <1>1, <2>1 DEF LogTypes
  <2>5. rest' \in [Threads -> Seq(Cells)]
    BY <2>1, <2>2, <2>4
  <2>6. \A u \in Threads : Len(rest'[u]) <= MaxRecord
    <3>1. Len(Tail(rest[t])) <= MaxRecord
      BY <2>4, SizesAreNat
    <3>2. \A u \in Threads : rest'[u] = IF u = t THEN Tail(rest[t]) ELSE rest[u]
      BY <2>1, <2>2
    <3> QED BY <1>1, <3>1, <3>2 DEF LogTypes
  <2>7. own' \in [Threads -> Nat \cup {AtEnd}]
    <3>1. own' = own \/ (own[t] # AtEnd /\ own' = [own EXCEPT ![t] = @ + 1])
      BY <1>5 DEF Write
    <3>2. own[t] # AtEnd => own[t] + 1 \in Nat
      BY <2>1
    <3> QED BY <2>1, <3>1, <3>2
  <2>8. lpc' = lpc /\ op' = op /\ call' = call
    BY <1>5 DEF Write
  <2> QED BY <1>1, <2>3, <2>5, <2>6, <2>7, <2>8 DEF LogTypes
<1>6. ASSUME NEW p, Dies(p), UNCHANGED <<diskVars, call, bufVars>> PROVE LogTypes'
  <2>1. /\ disk' = disk /\ rest' = rest /\ call' = call /\ op' = op /\ own' = own
        /\ lpc' = [t \in Threads |-> IF ProcessOf[t] = p THEN "dead" ELSE lpc[t]]
    BY <1>6 DEF Dies, diskVars, bufVars
  <2> QED BY <1>1, <2>1 DEF LogTypes
<1>7. ASSUME UNCHANGED debugVars PROVE LogTypes'
  BY <1>1, <1>7 DEF LogTypes, debugVars, diskVars, bufVars
<1> QED BY <1>2, <1>3, <1>4, <1>5, <1>6, <1>7 DEF DebugNext, OpenFails, Kill

LEMMA LogStartsInInv ==
    ASSUME DebugInit
    PROVE  LogInv
<1>1. LogTypes
  BY SizesAreNat DEF DebugInit, LogTypes, Ops
<1>2. OpenFiles
  BY DEF DebugInit, OpenFiles
<1>3. RoomLeft
  <2> SUFFICES ASSUME NEW o \in Ops PROVE Content(o) + Cardinality(Coming(o)) < MaxContent
    BY DEF RoomLeft
  <2>1. Content(o) = 0
    BY DEF DebugInit, Content
  <2>2. Coming(o) = {}
    BY DEF DebugInit, Coming, Appends
  <2> QED BY <2>1, <2>2, FS_EmptySet, SizesAreNat DEF MaxContent
<1> QED BY <1>1, <1>2, <1>3 DEF LogInv

LEMMA LogInvHolds == DebugSpec => []LogInv
<1>1. ASSUME LogInv, [DebugNext]_debugVars PROVE LogInv'
  <2>1. LogTypes'
    BY <1>1, StepKeepsTypes
  <2>2. OpenFiles' /\ RoomLeft'
    BY <1>1, <2>1, OtherStepsKeepRoom, MeasureKeepsRoom, WriteKeepsRoom DEF DebugNext
  <2> QED BY <2>1, <2>2 DEF LogInv
<1> QED BY <1>1, LogStartsInInv, PTL DEF DebugSpec

\* However many threads of however many processes log at once, and whichever
\* are killed, a log file passes the limit that log_dbg_info and stack_trace
\* look at before they open it by at most a record of each thread.
THEOREM LogsAreBounded == DebugSpec => []LogIsBounded
<1>1. ASSUME LogInv PROVE LogIsBounded
  <2> SUFFICES ASSUME NEW o \in Ops PROVE file_size(o) < MaxContent
    BY DEF LogIsBounded, MaxContent
  <2>1. Content(o) + Cardinality(Coming(o)) < MaxContent
    BY <1>1 DEF LogInv, RoomLeft
  <2>2. Content(o) \in Nat /\ Cardinality(Coming(o)) \in Nat
    BY <1>1, ContentIsNat DEF LogInv
  <2>3. Content(o) < MaxContent
    BY <2>1, <2>2, SizesAreNat
  <2>4. CASE disk[o] = Absent
    BY <2>4, SizesAreNat, <2>3 DEF file_size, Content
  <2>5. CASE disk[o] # Absent
    BY <2>3, <2>5 DEF file_size, Content
  <2> QED BY <2>4, <2>5
<1> QED BY <1>1, LogInvHolds, PTL

-----------------------------------------------------------------------------
\* t has its file open.
Writes(t) == lpc[t] \in {"opened", "printed"}

\* The call t is in.
Record(t) == <<t, call[t]>>

\* t has written d cells of its record, which has n; if nobody disturbed it they
\* are in the file, at its beginning if t emptied it.
Progress(t, d, n) ==
  /\ d + Len(rest[t]) = n
  /\ \A i \in 1 .. Len(rest[t]) : rest[t][i] = <<t, call[t], d + i, n>>
  /\ lpc[t] # "printed" => d = 0
  /\ Writes(t) /\ ~disturbed[t] =>
        /\ Holds(disk[op[t]], Record(t), d, n)
        /\ own[t] # AtEnd =>
              /\ own[t] = d /\ d <= Len(disk[op[t]])
              /\ \A i \in 1 .. d : disk[op[t]][i] = <<t, call[t], i, n>>

RecordsAreUnderWay ==
  \A t \in Threads : lpc[t] \notin {"idle", "dead"} =>
     \E n \in 1 .. MaxRecord, d \in 0 .. MaxRecord : Progress(t, d, n)

\* No cell is of a call that was not made, or has not begun to write.
NothingTooEarly ==
  \A o \in Ops, t \in Threads, c \in Nat :
     disk[o] # Absent /\ CellsOf(disk[o], <<t, c>>) # {} =>
        /\ c <= call[t]
        /\ c = call[t] => lpc[t] \notin {"called", "measured", "opened"}

\* A thread that has emptied a file is alone with it, or the others know.
EmptiersAreAlone ==
  \A t \in Threads :
     /\ lpc[t] = "measured" => own[t] \in {AtEnd, 0}
     /\ Writes(t) /\ own[t] # AtEnd => kept[op[t]] = {} /\ \A u \in Open(t) : disturbed[u]

KeptAreOver ==
  \A o \in Ops : \A r \in kept[o] :
     /\ disk[o] # Absent
     /\ \E t \in Threads, c \in Nat :
           /\ r = <<t, c>> /\ c <= call[t]
           /\ c = call[t] => lpc[t] \in {"idle", "dead"}

KeptTypes == disturbed \in [Threads -> BOOLEAN] /\ kept \in [Ops -> SUBSET (Threads \X Nat)]

KeptInv == /\ KeptTypes /\ RecordsAreUnderWay /\ NothingTooEarly /\ EmptiersAreAlone
           /\ KeptAreOver /\ KeptAreComplete

-----------------------------------------------------------------------------
\* The cells of one record are not touched where a file keeps its places and
\* what is new is of other records.
LEMMA OthersKeepTheirCells ==
    ASSUME NEW f \in Seq(Cells), NEW g \in Seq(Cells), NEW r, NEW d, NEW n, Holds(f, r, d, n),
           \A j \in DOMAIN f : j \in DOMAIN g /\ g[j] = f[j],
           \A j \in DOMAIN g \ DOMAIN f : j \notin CellsOf(g, r)
    PROVE  Holds(g, r, d, n) /\ CellsOf(g, r) = CellsOf(f, r)
<1>1. CellsOf(g, r) = CellsOf(f, r) /\ \A j \in CellsOf(f, r) : g[j] = f[j]
  BY DEF CellsOf
<1>2. { g[j] : j \in CellsOf(f, r) } = { f[j] : j \in CellsOf(f, r) }
  BY <1>1
<1> QED BY <1>1, <1>2 DEF Holds

\* The next cell of a record comes behind those that are there.
LEMMA NextCell ==
    ASSUME NEW f \in Seq(Cells), NEW g \in Seq(Cells), NEW t, NEW c, NEW d \in Nat, NEW n,
           Holds(f, <<t, c>>, d, n), NEW k \in Nat, CellsOf(g, <<t, c>>) = CellsOf(f, <<t, c>>) \cup {k},
           \A j \in CellsOf(f, <<t, c>>) : j < k /\ g[j] = f[j], g[k] = <<t, c, d + 1, n>>
    PROVE  Holds(g, <<t, c>>, d + 1, n)
<1> PICK r : r = <<t, c>> /\ r[1] = t /\ r[2] = c
  OBVIOUS
<1> PICK S, T : S = CellsOf(f, r) /\ T = CellsOf(g, r)
  OBVIOUS
<1>1. S \subseteq Nat /\ T = S \cup {k} /\ \A j \in S : j < k /\ ~(k < j) /\ g[j] = f[j]
  BY DEF CellsOf
<1>2. \A j \in S : \E i \in 1 .. d : f[j] = <<t, c, i, n>>
  BY DEF Holds
<1>3. \A i \in 1 .. d : \E j \in S : f[j] = <<t, c, i, n>>
  BY DEF Holds
<1>4. \A i : i \in 1 .. d + 1 <=> i \in 1 .. d \/ i = d + 1
  OBVIOUS
<1>5. \A j \in T : \E i \in 1 .. d + 1 : g[j] = <<t, c, i, n>>
  BY <1>1, <1>2, <1>4
<1>6. \A i \in 1 .. d + 1 : \E j \in T : g[j] = <<t, c, i, n>>
  BY <1>1, <1>3, <1>4
<1>7. { g[j] : j \in T } = { <<r[1], r[2], i, n>> : i \in 1 .. d + 1 }
  <2> PICK I : I = 1 .. d + 1
    OBVIOUS
  <2>1. \A j \in T : \E i \in I : g[j] = <<t, c, i, n>>
    BY <1>5
  <2>2. \A i \in I : \E j \in T : g[j] = <<t, c, i, n>>
    BY <1>6
  <2>3. { g[j] : j \in T } = { <<t, c, i, n>> : i \in I }
    <3>1. ASSUME NEW x \in { g[j] : j \in T } PROVE x \in { <<t, c, i, n>> : i \in I }
      <4> PICK j \in T : x = g[j]
        OBVIOUS
      <4> PICK i \in I : g[j] = <<t, c, i, n>>
        BY <2>1
      <4> QED OBVIOUS
    <3>2. ASSUME NEW x \in { <<t, c, i, n>> : i \in I } PROVE x \in { g[j] : j \in T }
      <4> PICK i \in I : x = <<t, c, i, n>>
        OBVIOUS
      <4> PICK j \in T : g[j] = <<t, c, i, n>>
        BY <2>2
      <4> QED OBVIOUS
    <3> QED BY <3>1, <3>2
  <2> QED BY <2>3
<1>8. \A j, m \in T : j < m => g[j][3] < g[m][3]
  <2> SUFFICES ASSUME NEW j \in T, NEW m \in T, j < m PROVE g[j][3] < g[m][3]
    OBVIOUS
  <2>1. j \in S
    <3>1. ~(k < k)
      OBVIOUS
    <3> QED BY <1>1, <3>1
  <2>2. CASE m \in S
    BY <1>1, <2>1, <2>2 DEF Holds
  <2>3. CASE m = k
    <3> PICK i \in 1 .. d : g[j] = <<t, c, i, n>>
      BY <1>1, <1>2, <2>1
    <3>1. g[j][3] = i /\ g[m][3] = d + 1
      BY <2>3
    <3> QED BY <3>1
  <2> QED BY <1>1, <2>2, <2>3
<1> QED BY <1>7, <1>8 DEF Holds

\* Where a record begins a file, its cells are the first.
LEMMA FirstPlaces ==
    ASSUME NEW f \in Seq(Cells), NEW t, NEW c, NEW d \in Nat, NEW n, Hole \notin {<<t, c, i, n>> : i \in 1 .. d},
           Holds(f, <<t, c>>, d, n), d <= Len(f), \A i \in 1 .. d : f[i] = <<t, c, i, n>>
    PROVE  CellsOf(f, <<t, c>>) = 1 .. d
<1> PICK r, S : r = <<t, c>> /\ r[1] = t /\ r[2] = c /\ S = CellsOf(f, r)
  OBVIOUS
<1>1. S \subseteq DOMAIN f /\ DOMAIN f = 1 .. Len(f) /\ Len(f) \in Nat
  BY DEF CellsOf
<1>2. ASSUME NEW i \in 1 .. d PROVE i \in S
  <2>1. f[i] = <<t, c, i, n>> /\ f[i] # Hole /\ i \in DOMAIN f
    <3>1. <<t, c, i, n>> # Hole
      OBVIOUS
    <3>2. i \in DOMAIN f
      <4>1. \A a \in 1 .. d : a \in 1 .. Len(f)
        BY <1>1
      <4> QED BY <1>1, <4>1
    <3> QED BY <3>1, <3>2
  <2>2. f[i][1] = t /\ f[i][2] = c
    BY <2>1
  <2> QED BY <2>1, <2>2 DEF CellsOf
<1>3. ASSUME NEW j \in S PROVE j \in 1 .. d
  <2>3. f[j] \in { <<r[1], r[2], i, n>> : i \in 1 .. d }
    <3>1. f[j] \in { f[k] : k \in CellsOf(f, r) }
      OBVIOUS
    <3>2. { f[k] : k \in CellsOf(f, r) } = { <<r[1], r[2], i, n>> : i \in 1 .. d }
      BY DEF Holds
    <3> QED BY ONLY <3>1, <3>2
  <2> PICK i \in 1 .. d : f[j] = <<t, c, i, n>>
    BY ONLY <2>3, r[1] = t, r[2] = c
  <2>1. i \in S /\ f[i][3] = i /\ f[j][3] = i
    BY <1>2
  <2>2. \A a, b \in Nat : ~(a < a) /\ (a < b \/ b < a \/ a = b)
    OBVIOUS
  <2>4. i \in Nat /\ j \in Nat
    BY <1>1
  <2>5. ~(i < j) /\ ~(j < i)
    BY <2>1, <2>2, <2>4 DEF Holds
  <2> QED BY <2>2, <2>4, <2>5
<1> QED BY <1>2, <1>3

\* An empty file holds nothing of a record.
LEMMA NothingHeld == ASSUME NEW r, NEW n PROVE Holds(<<>>, r, 0, n) /\ CellsOf(<<>>, r) = {}
<1>1. CellsOf(<<>>, r) = {} /\ 1 .. 0 = {}
  BY DEF CellsOf
<1> QED BY <1>1 DEF Holds

\* What a write puts where.
LEMMA PutPlaces ==
    ASSUME NEW f \in Seq(Cells), NEW at \in Nat, NEW c \in Cells
    PROVE  /\ DOMAIN Put(f, at, c) = 1 .. (IF at < Len(f) THEN Len(f) ELSE at + 1)
           /\ DOMAIN f = 1 .. Len(f) /\ Len(f) \in Nat
           /\ Put(f, at, c)[at + 1] = c /\ at + 1 \in DOMAIN Put(f, at, c)
           /\ \A i \in DOMAIN f : i \in DOMAIN Put(f, at, c) /\ (i # at + 1 => Put(f, at, c)[i] = f[i])
           /\ \A i \in DOMAIN Put(f, at, c) : i \in DOMAIN f \/ i = at + 1 \/ Put(f, at, c)[i] = Hole
BY DEF Put

\* Steps after which every thread is where it was, dead, or one place further
\* without having touched a file.
LEMMA QuietStepsKeep ==
    ASSUME LogTypes, KeptInv, UNCHANGED <<disk, kept, disturbed, call, op, rest>>,
           \A u \in Threads :
              \/ lpc'[u] = lpc[u] /\ own'[u] = own[u]
              \/ lpc'[u] = "dead"
              \/ lpc[u] = "opened" /\ lpc'[u] = "printed" /\ own'[u] = own[u]
              \/ lpc[u] = "called" /\ lpc'[u] = "measured" /\ own'[u] \in {AtEnd, 0}
    PROVE  KeptInv'
<1>1. KeptTypes' /\ KeptAreComplete'
  BY DEF KeptInv, KeptTypes, KeptAreComplete
<1>2. RecordsAreUnderWay'
  <2> SUFFICES ASSUME NEW u \in Threads, lpc'[u] \notin {"idle", "dead"}
               PROVE  \E n \in 1 .. MaxRecord, d \in 0 .. MaxRecord : Progress(u, d, n)'
    BY DEF RecordsAreUnderWay
  <2>1. lpc[u] \notin {"idle", "dead"}
    OBVIOUS
  <2> PICK n \in 1 .. MaxRecord, d \in 0 .. MaxRecord : Progress(u, d, n)
    BY <2>1 DEF KeptInv, RecordsAreUnderWay
  <2>2. Progress(u, d, n)'
    BY DEF Progress, Writes, Record
  <2> QED BY <2>2
<1>3. NothingTooEarly'
  BY DEF KeptInv, NothingTooEarly
<1>4. EmptiersAreAlone'
  BY DEF KeptInv, EmptiersAreAlone, Writes, Open
<1>5. KeptAreOver'
  BY DEF KeptInv, KeptAreOver
<1> QED BY <1>1, <1>2, <1>3, <1>4, <1>5 DEF KeptInv

LEMMA CallKeeps ==
    ASSUME LogTypes, KeptInv, NEW t \in Threads, NEW o \in Ops, NEW n \in 1 .. MaxRecord, Call(t, o, n)
    PROVE  KeptInv'
<1>1. /\ lpc[t] = "idle" /\ lpc' = [lpc EXCEPT ![t] = "called"] /\ op' = [op EXCEPT ![t] = o]
      /\ call' = [call EXCEPT ![t] = @ + 1]
      /\ rest' = [rest EXCEPT ![t] = [i \in 1 .. n |-> <<t, call[t] + 1, i, n>>]]
      /\ disk' = disk /\ kept' = kept /\ disturbed' = disturbed /\ own' = own
  BY DEF Call, At, Go, diskVars
<1>2. /\ op \in [Threads -> Ops] /\ call \in [Threads -> Nat] /\ rest \in [Threads -> Seq(Cells)]
      /\ lpc \in [Threads -> {"idle", "called", "measured", "opened", "printed", "dead"}]
  BY DEF LogTypes
<1>3. /\ lpc'[t] = "called" /\ call'[t] = call[t] + 1 /\ call[t] \in Nat
      /\ \A u \in Threads : u # t => /\ lpc'[u] = lpc[u] /\ op'[u] = op[u]
                                    /\ rest'[u] = rest[u] /\ call'[u] = call[u]
  BY <1>1, <1>2
<1>4. KeptTypes' /\ KeptAreComplete'
  BY <1>1 DEF KeptInv, KeptTypes, KeptAreComplete
<1>5. RecordsAreUnderWay'
  <2> SUFFICES ASSUME NEW u \in Threads, lpc'[u] \notin {"idle", "dead"}
               PROVE  \E m \in 1 .. MaxRecord, d \in 0 .. MaxRecord : Progress(u, d, m)'
    BY DEF RecordsAreUnderWay
  <2>1. CASE u # t
    <3> PICK m \in 1 .. MaxRecord, d \in 0 .. MaxRecord : Progress(u, d, m)
      BY <1>3, <2>1 DEF KeptInv, RecordsAreUnderWay
    <3>1. Progress(u, d, m)'
      BY <1>1, <1>3, <2>1 DEF Progress, Writes, Record
    <3> QED BY <3>1
  <2>2. CASE u = t
    <3> PICK r \in Seq(Cells) : r = [i \in 1 .. n |-> <<t, call[t] + 1, i, n>>] /\ Len(r) = n
      BY RecordIsCells
    <3>1. rest'[t] = r /\ n \in Nat
      BY <1>1, <1>2
    <3>2. \A i \in 1 .. Len(rest'[t]) : rest'[t][i] = <<t, call'[t], 0 + i, n>>
      BY <1>3, <3>1
    <3>3. 0 + Len(rest'[t]) = n /\ 0 \in 0 .. MaxRecord
      BY <3>1, SizesAreNat
    <3>4. Progress(t, 0, n)'
      BY <1>3, <3>2, <3>3 DEF Progress, Writes
    <3> QED BY <2>2, <3>3, <3>4
  <2> QED BY <2>1, <2>2
<1>6. NothingTooEarly'
  <2> SUFFICES ASSUME NEW z \in Ops, NEW u \in Threads, NEW c \in Nat,
                      disk[z] # Absent, CellsOf(disk[z], <<u, c>>) # {}
               PROVE  c <= call'[u] /\ (c = call'[u] => lpc'[u] \notin {"called", "measured", "opened"})
    BY <1>1 DEF NothingTooEarly
  <2>1. c <= call[u] /\ (c = call[u] => lpc[u] \notin {"called", "measured", "opened"})
    BY DEF KeptInv, NothingTooEarly
  <2>2. CASE u = t
    <3>1. c <= call[t] + 1 /\ c # call[t] + 1
      BY <1>3, <2>1, <2>2
    <3> QED BY <1>3, <2>2, <3>1
  <2>3. CASE u # t
    BY <1>3, <2>1, <2>3
  <2> QED BY <2>2, <2>3
<1>7. EmptiersAreAlone'
  BY <1>1, <1>3 DEF KeptInv, EmptiersAreAlone, Writes, Open
<1>8. KeptAreOver'
  <2> SUFFICES ASSUME NEW z \in Ops, NEW r \in kept[z]
               PROVE  /\ disk[z] # Absent
                      /\ \E u \in Threads, c \in Nat :
                            /\ r = <<u, c>> /\ c <= call'[u]
                            /\ c = call'[u] => lpc'[u] \in {"idle", "dead"}
    BY <1>1 DEF KeptAreOver
  <2> PICK u \in Threads, c \in Nat : /\ disk[z] # Absent /\ r = <<u, c>> /\ c <= call[u]
                                      /\ c = call[u] => lpc[u] \in {"idle", "dead"}
    BY DEF KeptInv, KeptAreOver
  <2>1. CASE u = t
    <3>1. c <= call[t] + 1 /\ c # call[t] + 1
      BY <1>3, <2>1
    <3> QED BY <1>3, <2>1, <3>1
  <2>2. CASE u # t
    BY <1>3, <2>2
  <2> QED BY <2>1, <2>2
<1> QED BY <1>4, <1>5, <1>6, <1>7, <1>8 DEF KeptInv

LEMMA CloseKeeps ==
    ASSUME LogTypes, OpenFiles, KeptInv, NEW t \in Threads, Close(t)
    PROVE  KeptInv'
<1>1. /\ lpc[t] = "printed" /\ rest[t] = <<>> /\ lpc' = [lpc EXCEPT ![t] = "idle"]
      /\ op' = [op EXCEPT ![t] = "log_dbg_info"] /\ own' = [own EXCEPT ![t] = AtEnd]
      /\ disturbed' = [disturbed EXCEPT ![t] = FALSE]
      /\ kept' = IF disturbed[t] THEN kept ELSE [kept EXCEPT ![op[t]] = @ \cup {<<t, call[t]>>}]
      /\ disk' = disk /\ call' = call /\ rest' = rest
  BY DEF Close, At, Go
<1>2. /\ op \in [Threads -> Ops] /\ call \in [Threads -> Nat] /\ own \in [Threads -> Nat \cup {AtEnd}]
      /\ lpc \in [Threads -> {"idle", "called", "measured", "opened", "printed", "dead"}]
      /\ disturbed \in [Threads -> BOOLEAN] /\ kept \in [Ops -> SUBSET (Threads \X Nat)]
  BY DEF LogTypes, KeptInv, KeptTypes
<1>3. /\ lpc'[t] = "idle"
      /\ \A u \in Threads : u # t => /\ lpc'[u] = lpc[u] /\ op'[u] = op[u] /\ own'[u] = own[u]
                                    /\ disturbed'[u] = disturbed[u]
  BY <1>1, <1>2
<1>4. /\ op[t] \in Ops /\ call[t] \in Nat /\ disk[op[t]] # Absent
      /\ \A z \in Ops : kept'[z] = kept[z] \/ (z = op[t] /\ ~disturbed[t] /\ kept'[z] = kept[z] \cup {<<t, call[t]>>})
  BY <1>1, <1>2 DEF OpenFiles
<1>5. KeptTypes'
  <2>1. kept' \in [Ops -> SUBSET (Threads \X Nat)]
    <3>1. \A z \in Ops : kept'[z] \in SUBSET (Threads \X Nat)
      BY <1>2, <1>4
    <3>2. kept' = [z \in Ops |-> kept'[z]]
      BY <1>1, <1>2
    <3> QED BY <3>1, <3>2
  <2> QED BY <1>1, <1>2, <2>1 DEF KeptTypes
<1>6. RecordsAreUnderWay'
  <2> SUFFICES ASSUME NEW u \in Threads, lpc'[u] \notin {"idle", "dead"}
               PROVE  \E n \in 1 .. MaxRecord, d \in 0 .. MaxRecord : Progress(u, d, n)'
    BY DEF RecordsAreUnderWay
  <2>1. u # t
    BY <1>3
  <2> PICK n \in 1 .. MaxRecord, d \in 0 .. MaxRecord : Progress(u, d, n)
    BY <1>3, <2>1 DEF KeptInv, RecordsAreUnderWay
  <2>2. Progress(u, d, n)'
    BY <1>1, <1>3, <2>1 DEF Progress, Writes, Record
  <2> QED BY <2>2
<1>7. NothingTooEarly'
  BY <1>1, <1>3 DEF KeptInv, NothingTooEarly
<1>8. EmptiersAreAlone'
  <2> SUFFICES ASSUME NEW u \in Threads
               PROVE  /\ lpc'[u] = "measured" => own'[u] \in {AtEnd, 0}
                      /\ Writes(u)' /\ own'[u] # AtEnd =>
                            kept'[op'[u]] = {} /\ \A v \in Open(u)' : disturbed'[v]
    BY DEF EmptiersAreAlone
  <2>1. CASE u = t
    BY <1>3, <2>1 DEF Writes
  <2>2. CASE u # t
    <3>1. lpc'[u] = "measured" => own'[u] \in {AtEnd, 0}
      BY <1>3, <2>2 DEF KeptInv, EmptiersAreAlone
    <3>2. ASSUME Writes(u)', own'[u] # AtEnd
          PROVE  kept'[op'[u]] = {} /\ \A v \in Open(u)' : disturbed'[v]
      <4>1. kept[op[u]] = {} /\ \A v \in Open(u) : disturbed[v]
        BY <1>3, <2>2, <3>2 DEF KeptInv, EmptiersAreAlone, Writes
      <4>2. op'[u] = op[u] /\ op[u] \in Ops
        BY <1>2, <1>3, <2>2
      <4>3. op[u] = op[t] => disturbed[t]
        BY <1>1, <2>2, <4>1 DEF Open
      <4>4. kept'[op[u]] = {}
        BY <1>4, <4>1, <4>2, <4>3
      <4>5. \A v \in Open(u)' : v # t /\ v \in Open(u)
        BY <1>3, <4>2 DEF Open
      <4>6. \A v \in Open(u)' : disturbed'[v]
        BY <1>3, <4>1, <4>5 DEF Open
      <4> QED BY <4>2, <4>4, <4>6
    <3> QED BY <3>1, <3>2
  <2> QED BY <2>1, <2>2
<1>9. KeptAreOver'
  <2> SUFFICES ASSUME NEW z \in Ops, NEW r \in kept'[z]
               PROVE  /\ disk[z] # Absent
                      /\ \E u \in Threads, c \in Nat :
                            /\ r = <<u, c>> /\ c <= call[u]
                            /\ c = call[u] => lpc'[u] \in {"idle", "dead"}
    BY <1>1 DEF KeptAreOver
  <2>1. CASE r \in kept[z]
    BY <1>3, <2>1 DEF KeptInv, KeptAreOver
  <2>2. CASE r = <<t, call[t]>> /\ z = op[t]
    BY <1>3, <1>4, <2>2
  <2> QED BY <1>4, <2>1, <2>2
<1>10. KeptAreComplete'
  <2> SUFFICES ASSUME NEW z \in Ops, NEW r \in kept'[z]
               PROVE  \E n \in 1 .. MaxRecord : Holds(disk[z], r, n, n)
    BY <1>1 DEF KeptAreComplete
  <2>1. CASE r \in kept[z]
    BY <2>1 DEF KeptInv, KeptAreComplete
  <2>2. CASE r = <<t, call[t]>> /\ z = op[t] /\ ~disturbed[t]
    <3> PICK n \in 1 .. MaxRecord, d \in 0 .. MaxRecord : Progress(t, d, n)
      BY <1>1 DEF KeptInv, RecordsAreUnderWay
    <3>1. n \in Nat /\ d \in Nat /\ d + Len(rest[t]) = n /\ Len(rest[t]) = 0
      BY <1>1 DEF Progress
    <3>2. n = d
      BY <3>1
    <3>3. Holds(disk[op[t]], <<t, call[t]>>, d, n)
      BY <1>1, <2>2 DEF Progress, Writes, Record
    <3> QED BY <2>2, <3>2, <3>3
  <2> QED BY <1>4, <2>1, <2>2
<1> QED BY <1>5, <1>6, <1>7, <1>8, <1>9, <1>10 DEF KeptInv

\* A file that is opened to append to is created, or left as it is.
LEMMA OpenAppendKeeps ==
    ASSUME LogTypes, OpenFiles, KeptInv, NEW t \in Threads, OpenAppend(t)
    PROVE  KeptInv'
<1>1. /\ lpc[t] = "measured" /\ own[t] = AtEnd /\ lpc' = [lpc EXCEPT ![t] = "opened"]
      /\ disk' = IF disk[op[t]] = Absent THEN [disk EXCEPT ![op[t]] = <<>>] ELSE disk
      /\ disturbed' = [disturbed EXCEPT ![t] = Shared(t)]
      /\ kept' = kept /\ call' = call /\ op' = op /\ rest' = rest
  BY DEF OpenAppend, At, Go
<1>2. /\ op \in [Threads -> Ops] /\ call \in [Threads -> Nat] /\ own \in [Threads -> Nat \cup {AtEnd}]
      /\ lpc \in [Threads -> {"idle", "called", "measured", "opened", "printed", "dead"}]
      /\ disk \in [Ops -> Seq(Cells) \cup {Absent}]
      /\ disturbed \in [Threads -> BOOLEAN] /\ kept \in [Ops -> SUBSET (Threads \X Nat)]
  BY DEF LogTypes, KeptInv, KeptTypes
<1>3. own' = own
  BY <1>1, <1>2 DEF OpenAppend, Offset
<1>4. /\ lpc'[t] = "opened" /\ disturbed'[t] = Shared(t)
      /\ \A u \in Threads : u # t => lpc'[u] = lpc[u] /\ disturbed'[u] = disturbed[u]
  BY <1>1, <1>2
<1>5. \A z \in Ops : disk'[z] = disk[z] \/ (disk[z] = Absent /\ disk'[z] = <<>>)
  BY <1>1, <1>2
<1>6. \A z \in Ops : disk[z] # Absent => disk'[z] = disk[z]
  BY <1>5
<1>7. KeptTypes'
  <2>1. Shared(t) \in BOOLEAN
    BY DEF Shared
  <2> QED BY <1>1, <1>2, <2>1 DEF KeptTypes
<1>8. NothingTooEarly'
  <2> SUFFICES ASSUME NEW z \in Ops, NEW u \in Threads, NEW c \in Nat,
                      disk'[z] # Absent, CellsOf(disk'[z], <<u, c>>) # {}
               PROVE  c <= call[u] /\ (c = call[u] => lpc'[u] \notin {"called", "measured", "opened"})
    BY <1>1 DEF NothingTooEarly
  <2>1. disk'[z] = disk[z]
    BY <1>5, NothingHeld
  <2>2. c <= call[u] /\ (c = call[u] => lpc[u] \notin {"called", "measured", "opened"})
    BY <2>1 DEF KeptInv, NothingTooEarly
  <2> QED BY <1>1, <1>4, <2>2
<1>9. RecordsAreUnderWay'
  <2> SUFFICES ASSUME NEW u \in Threads, lpc'[u] \notin {"idle", "dead"}
               PROVE  \E n \in 1 .. MaxRecord, d \in 0 .. MaxRecord : Progress(u, d, n)'
    BY DEF RecordsAreUnderWay
  <2> PICK n \in 1 .. MaxRecord, d \in 0 .. MaxRecord : Progress(u, d, n)
    BY <1>1, <1>4 DEF KeptInv, RecordsAreUnderWay
  <2>1. CASE u # t
    <3>1. Writes(u)' /\ ~disturbed'[u] => Writes(u) /\ ~disturbed[u]
      BY <1>4, <2>1 DEF Writes
    <3>2. Writes(u) /\ ~disturbed[u] => disk'[op[u]] = disk[op[u]]
      <4> SUFFICES ASSUME Writes(u), ~disturbed[u], op[u] = op[t], disk[op[t]] = Absent PROVE FALSE
        BY <1>1, <1>2
      <4> QED BY DEF OpenFiles, Writes
    <3> QED BY <1>1, <1>3, <1>4, <2>1, <3>1, <3>2, SMTT(30) DEF Progress, Writes, Record
  <2>2. CASE u = t
    <3>1. d = 0
      BY <1>1, <2>2 DEF Progress
    <3>2. Holds(disk'[op[t]], <<t, call[t]>>, 0, n)
      <4>1. CASE disk'[op[t]] = <<>>
        BY <4>1, NothingHeld
      <4>2. CASE disk[op[t]] # Absent
        <5>1. CellsOf(disk[op[t]], <<t, call[t]>>) = {}
          BY <1>1, <1>2, <4>2 DEF KeptInv, NothingTooEarly
        <5>2. disk'[op[t]] = disk[op[t]]
          BY <1>1, <4>2
        <5> QED BY <5>1, <5>2 DEF Holds
      <4> QED BY <1>1, <1>2, <4>1, <4>2
    <3>3. Progress(t, 0, n)'
      BY <1>1, <1>3, <2>2, <3>1, <3>2 DEF Progress, Writes, Record
    <3> QED BY <2>2, <3>1, <3>3
  <2> QED BY <2>1, <2>2
<1>10. EmptiersAreAlone'
  <2> SUFFICES ASSUME NEW u \in Threads
               PROVE  /\ lpc'[u] = "measured" => own'[u] \in {AtEnd, 0}
                      /\ Writes(u)' /\ own'[u] # AtEnd =>
                            kept'[op'[u]] = {} /\ \A v \in Open(u)' : disturbed'[v]
    BY DEF EmptiersAreAlone
  <2>1. CASE u = t
    BY <1>1, <1>3, <1>4, <2>1
  <2>2. CASE u # t
    <3>1. lpc'[u] = "measured" => own'[u] \in {AtEnd, 0}
      BY <1>3, <1>4, <2>2 DEF KeptInv, EmptiersAreAlone
    <3>2. ASSUME Writes(u)', own'[u] # AtEnd
          PROVE  kept'[op'[u]] = {} /\ \A v \in Open(u)' : disturbed'[v]
      <4>1. kept[op[u]] = {} /\ \A v \in Open(u) : disturbed[v]
        BY <1>3, <1>4, <2>2, <3>2 DEF KeptInv, EmptiersAreAlone, Writes
      <4>2. \A v \in Open(u)' : v = t \/ v \in Open(u)
        BY <1>1, <1>4 DEF Open
      <4>3. t \in Open(u)' => Shared(t)
        BY <1>1, <1>3, <1>4, <2>2, <3>2 DEF Open, Shared, Writes
      <4>4. \A v \in Open(u) : v \in Threads /\ v # t
        BY <1>1 DEF Open
      <4> QED BY <1>1, <1>4, <4>1, <4>2, <4>3, <4>4
    <3> QED BY <3>1, <3>2
  <2> QED BY <2>1, <2>2
<1>11. KeptAreOver'
  <2> SUFFICES ASSUME NEW z \in Ops, NEW r \in kept[z]
               PROVE  /\ disk'[z] # Absent
                      /\ \E u \in Threads, c \in Nat :
                            /\ r = <<u, c>> /\ c <= call[u]
                            /\ c = call[u] => lpc'[u] \in {"idle", "dead"}
    BY <1>1 DEF KeptAreOver
  <2> PICK u \in Threads, c \in Nat : /\ disk[z] # Absent /\ r = <<u, c>> /\ c <= call[u]
                                      /\ c = call[u] => lpc[u] \in {"idle", "dead"}
    BY DEF KeptInv, KeptAreOver
  <2> QED BY <1>1, <1>4, <1>6
<1>12. KeptAreComplete'
  <2>1. \A z \in Ops : \A r \in kept[z] : disk'[z] = disk[z]
    BY <1>6 DEF KeptInv, KeptAreOver
  <2> QED BY <1>1, <2>1 DEF KeptInv, KeptAreComplete
<1> QED BY <1>7, <1>8, <1>9, <1>10, <1>11, <1>12 DEF KeptInv

\* A file that is emptied holds nothing, and everybody who has it open knows.
LEMMA OpenEmptiedKeeps ==
    ASSUME LogTypes, KeptInv, NEW t \in Threads, OpenEmptied(t)
    PROVE  KeptInv'
<1>1. /\ lpc[t] = "measured" /\ own[t] # AtEnd /\ lpc' = [lpc EXCEPT ![t] = "opened"]
      /\ disk' = [disk EXCEPT ![op[t]] = <<>>] /\ kept' = [kept EXCEPT ![op[t]] = {}]
      /\ disturbed' = [u \in Threads |-> IF u = t THEN Shared(t) ELSE disturbed[u] \/ u \in Open(t)]
      /\ call' = call /\ op' = op /\ rest' = rest /\ own' = own
  BY DEF OpenEmptied, At, Go, bufVars
<1>2. /\ op \in [Threads -> Ops] /\ call \in [Threads -> Nat] /\ own \in [Threads -> Nat \cup {AtEnd}]
      /\ lpc \in [Threads -> {"idle", "called", "measured", "opened", "printed", "dead"}]
      /\ disk \in [Ops -> Seq(Cells) \cup {Absent}]
      /\ disturbed \in [Threads -> BOOLEAN] /\ kept \in [Ops -> SUBSET (Threads \X Nat)]
  BY DEF LogTypes, KeptInv, KeptTypes
<1>3. /\ lpc'[t] = "opened" /\ disturbed'[t] = Shared(t)
      /\ \A u \in Threads : u # t => /\ lpc'[u] = lpc[u]
                                    /\ disturbed'[u] = (disturbed[u] \/ u \in Open(t))
  BY <1>1, <1>2
<1>4. /\ disk'[op[t]] = <<>> /\ kept'[op[t]] = {} /\ op[t] \in Ops
      /\ \A z \in Ops : z # op[t] => disk'[z] = disk[z] /\ kept'[z] = kept[z]
  BY <1>1, <1>2
<1>5. KeptTypes'
  <2>1. Shared(t) \in BOOLEAN /\ \A u \in Threads : (disturbed[u] \/ u \in Open(t)) \in BOOLEAN
    BY DEF Shared
  <2>2. \A z \in Ops : kept'[z] \in SUBSET (Threads \X Nat)
    BY <1>2, <1>4
  <2>3. kept' \in [Ops -> SUBSET (Threads \X Nat)]
    BY <1>1, <1>2
  <2>4. disturbed' \in [Threads -> BOOLEAN]
    BY <1>1, <2>1
  <2> QED BY <2>3, <2>4 DEF KeptTypes
<1>6. NothingTooEarly'
  <2> SUFFICES ASSUME NEW z \in Ops, NEW u \in Threads, NEW c \in Nat,
                      disk'[z] # Absent, CellsOf(disk'[z], <<u, c>>) # {}
               PROVE  c <= call[u] /\ (c = call[u] => lpc'[u] \notin {"called", "measured", "opened"})
    BY <1>1 DEF NothingTooEarly
  <2>1. disk'[z] = disk[z]
    BY <1>4, NothingHeld
  <2>2. c <= call[u] /\ (c = call[u] => lpc[u] \notin {"called", "measured", "opened"})
    BY <2>1 DEF KeptInv, NothingTooEarly
  <2> QED BY <1>1, <1>3, <2>2
<1>7. RecordsAreUnderWay'
  <2> SUFFICES ASSUME NEW u \in Threads, lpc'[u] \notin {"idle", "dead"}
               PROVE  \E n \in 1 .. MaxRecord, d \in 0 .. MaxRecord : Progress(u, d, n)'
    BY DEF RecordsAreUnderWay
  <2> PICK n \in 1 .. MaxRecord, d \in 0 .. MaxRecord : Progress(u, d, n)
    BY <1>1, <1>3 DEF KeptInv, RecordsAreUnderWay
  <2>1. CASE u # t
    <3>1. Writes(u)' /\ ~disturbed'[u] => Writes(u) /\ ~disturbed[u] /\ op[u] # op[t]
      BY <1>1, <1>2, <1>3, <2>1 DEF Writes, Open
    <3>2. Writes(u)' /\ ~disturbed'[u] => disk'[op[u]] = disk[op[u]]
      BY <1>2, <1>4, <3>1
    <3> QED BY <1>1, <1>3, <2>1, <3>1, <3>2 DEF Progress, Writes, Record
  <2>2. CASE u = t
    <3>1. d = 0 /\ own[t] = 0
      BY <1>1, <2>2 DEF Progress, KeptInv, EmptiersAreAlone
    <3>2. Holds(disk'[op[t]], <<t, call[t]>>, 0, n) /\ Len(disk'[op[t]]) = 0
      BY <1>4, NothingHeld
    <3>3. \A i \in 1 .. 0 : disk'[op[t]][i] = <<t, call[t], i, n>>
      OBVIOUS
    <3>4. Progress(t, 0, n)'
      BY <1>1, <2>2, <3>1, <3>2, <3>3 DEF Progress, Writes, Record
    <3> QED BY <2>2, <3>1, <3>4
  <2> QED BY <2>1, <2>2
<1>8. EmptiersAreAlone'
  <2> SUFFICES ASSUME NEW u \in Threads
               PROVE  /\ lpc'[u] = "measured" => own'[u] \in {AtEnd, 0}
                      /\ Writes(u)' /\ own'[u] # AtEnd =>
                            kept'[op'[u]] = {} /\ \A v \in Open(u)' : disturbed'[v]
    BY DEF EmptiersAreAlone
  <2>1. CASE u = t
    <3>1. \A v \in Open(t)' : v \in Threads /\ v # t /\ v \in Open(t)
      BY <1>1, <1>3 DEF Open
    <3> QED BY <1>1, <1>3, <1>4, <2>1, <3>1
  <2>2. CASE u # t
    <3>1. lpc'[u] = "measured" => own'[u] \in {AtEnd, 0}
      BY <1>1, <1>3, <2>2 DEF KeptInv, EmptiersAreAlone
    <3>2. ASSUME Writes(u)', own'[u] # AtEnd
          PROVE  kept'[op'[u]] = {} /\ \A v \in Open(u)' : disturbed'[v]
      <4>1. kept[op[u]] = {} /\ \A v \in Open(u) : disturbed[v]
        BY <1>1, <1>3, <2>2, <3>2 DEF KeptInv, EmptiersAreAlone, Writes
      <4>2. \A v \in Open(u)' : v = t \/ v \in Open(u)
        BY <1>1, <1>3 DEF Open
      <4>3. t \in Open(u)' => Shared(t)
        BY <1>1, <1>3, <2>2, <3>2 DEF Open, Shared, Writes
      <4>4. \A v \in Open(u) : v \in Threads /\ v # t
        BY <1>1 DEF Open
      <4>5. kept'[op[u]] = {}
        BY <1>2, <1>4, <4>1
      <4> QED BY <1>1, <1>3, <4>1, <4>2, <4>3, <4>4, <4>5
    <3> QED BY <3>1, <3>2
  <2> QED BY <2>1, <2>2
<1>9. KeptAreOver'
  <2> SUFFICES ASSUME NEW z \in Ops, NEW r \in kept'[z]
               PROVE  /\ disk'[z] # Absent
                      /\ \E u \in Threads, c \in Nat :
                            /\ r = <<u, c>> /\ c <= call[u]
                            /\ c = call[u] => lpc'[u] \in {"idle", "dead"}
    BY <1>1 DEF KeptAreOver
  <2>1. z # op[t] /\ r \in kept[z] /\ disk'[z] = disk[z]
    BY <1>4
  <2> PICK u \in Threads, c \in Nat : /\ disk[z] # Absent /\ r = <<u, c>> /\ c <= call[u]
                                      /\ c = call[u] => lpc[u] \in {"idle", "dead"}
    BY <2>1 DEF KeptInv, KeptAreOver
  <2> QED BY <1>1, <1>3, <2>1
<1>10. KeptAreComplete'
  <2>1. \A z \in Ops : \A r \in kept'[z] : r \in kept[z] /\ disk'[z] = disk[z]
    BY <1>4
  <2> QED BY <2>1 DEF KeptInv, KeptAreComplete
<1> QED BY <1>5, <1>6, <1>7, <1>8, <1>9, <1>10 DEF KeptInv

LEMMA PairParts == ASSUME NEW a, NEW b PROVE \E r : r = <<a, b>> /\ r[1] = a /\ r[2] = b
<1>1. <<a, b>>[1] = a /\ <<a, b>>[2] = b
  OBVIOUS
<1> QED BY <1>1

\* A write puts the next cell of its record: at the end of the file, or behind
\* what its thread has written at the beginning of a file it emptied.
LEMMA WriteKeeps ==
    ASSUME LogTypes, OpenFiles, KeptInv, NEW t \in Threads, Write(t)
    PROVE  KeptInv'
<1>1. /\ disk \in [Ops -> Seq(Cells) \cup {Absent}] /\ op \in [Threads -> Ops]
      /\ call \in [Threads -> Nat] /\ own \in [Threads -> Nat \cup {AtEnd}]
      /\ rest \in [Threads -> Seq(Cells)]
      /\ disturbed \in [Threads -> BOOLEAN] /\ kept \in [Ops -> SUBSET (Threads \X Nat)]
  BY DEF LogTypes, KeptInv, KeptTypes
<1>2. lpc[t] = "printed" /\ rest[t] # <<>>
  BY DEF Write, At
<1> PICK n \in 1 .. MaxRecord, d \in 0 .. MaxRecord : Progress(t, d, n)
  BY <1>2 DEF KeptInv, RecordsAreUnderWay
<1> PICK o \in Ops, me \in Nat : o = op[t] /\ me = call[t]
  BY <1>1
<1> PICK f \in Seq(Cells), left \in Nat, c \in Cells, at \in Nat :
       /\ f = disk[o] /\ f # Absent /\ left = Len(rest[t]) /\ left # 0 /\ c = Head(rest[t])
       /\ at = IF own[t] = AtEnd THEN Len(f) ELSE own[t]
  <2>1. disk[op[t]] \in Seq(Cells) /\ disk[op[t]] # Absent
    BY <1>1, <1>2 DEF OpenFiles
  <2>2. Len(rest[t]) # 0 /\ Head(rest[t]) \in Cells /\ Len(rest[t]) \in Nat
    BY <1>1, <1>2
  <2>3. (IF own[t] = AtEnd THEN Len(disk[op[t]]) ELSE own[t]) \in Nat
    BY <1>1, <2>1
  <2> QED BY <2>1, <2>2, <2>3
<1>3. lpc' = lpc /\ op' = op /\ call' = call /\ disturbed' = disturbed /\ kept' = kept
  BY DEF Write
<1>22. /\ disk' = [disk EXCEPT ![o] = Put(f, at, c)]
       /\ own' = IF own[t] = AtEnd THEN own ELSE [own EXCEPT ![t] = @ + 1]
       /\ rest' = [rest EXCEPT ![t] = Tail(@)]
  BY DEF Write
<1>4. /\ d \in Nat /\ n \in Nat /\ d + 1 \in Nat /\ d + left = n /\ d + 1 <= n /\ d + 1 \in 0 .. MaxRecord
      /\ (d + 1) + (left - 1) = n /\ d < d + 1
  <2>1. d + left = n
    BY DEF Progress
  <2>2. d \in Nat /\ n \in Nat /\ n <= MaxRecord /\ MaxRecord \in Nat
    BY SizesAreNat
  <2>3. \A a, b, e, x \in Nat : b # 0 /\ a + b = e /\ e <= x =>
           a + 1 \in Nat /\ a + 1 <= e /\ a + 1 \in 0 .. x /\ (a + 1) + (b - 1) = e /\ a < a + 1
    OBVIOUS
  <2> QED BY ONLY <2>1, <2>2, <2>3, left \in Nat, left # 0
<1>5. c = <<t, me, d + 1, n>>
  <2>1. c = rest[t][1] /\ 1 \in 1 .. Len(rest[t])
    BY <1>1
  <2> QED BY <2>1 DEF Progress
<1>6. /\ c[1] = t /\ c[2] = me /\ c # Hole
      /\ \A i \in Nat : Hole # <<t, me, i, n>>
  <2>1. \A i \in Nat : <<t, me, i, n>> \in Threads \X Nat \X Nat \X Nat
    BY <1>4
  <2>2. \A i \in Nat : Hole # <<t, me, i, n>>
    BY <2>1, LogAssumption
  <2> QED BY <1>4, <1>5, <2>2
<1> PICK g \in Seq(Cells) : g = Put(f, at, c) /\ g # Absent
  BY PutIsACell
<1>7. /\ disk'[o] = g /\ \A z \in Ops : z # o => disk'[z] = disk[z]
      /\ \A u \in Threads : u # t => rest'[u] = rest[u] /\ own'[u] = own[u]
  <2>1. disk' = [disk EXCEPT ![o] = g]
    BY <1>22
  <2>2. disk'[o] = g /\ \A z \in Ops : z # o => disk'[z] = disk[z]
    BY ONLY <1>1, <2>1, o \in Ops
  <2>3. \A u \in Threads : u # t => rest'[u] = rest[u] /\ own'[u] = own[u]
    BY ONLY <1>1, <1>22, t \in Threads
  <2> QED BY <2>2, <2>3
<1>8. /\ rest'[t] = Tail(rest[t]) /\ Len(rest'[t]) = left - 1
      /\ own'[t] = IF own[t] = AtEnd THEN AtEnd ELSE own[t] + 1
  <2>1. rest'[t] = Tail(rest[t]) /\ own'[t] = (IF own[t] = AtEnd THEN own[t] ELSE own[t] + 1)
    BY ONLY <1>1, <1>22, t \in Threads
  <2>2. rest[t] \in Seq(Cells) /\ rest[t] # <<>>
    BY <1>1, <1>2
  <2>3. Len(Tail(rest[t])) = Len(rest[t]) - 1
    BY ONLY <2>2
  <2> QED BY <2>1, <2>3
<1>9. /\ DOMAIN f = 1 .. Len(f) /\ Len(f) \in Nat
      /\ g[at + 1] = c /\ at + 1 \in DOMAIN g
      /\ \A i \in DOMAIN f : i \in DOMAIN g /\ (i # at + 1 => g[i] = f[i])
      /\ \A i \in DOMAIN g : i \in DOMAIN f \/ i = at + 1 \/ g[i] = Hole
  <2>1. f \in Seq(Cells) /\ at \in Nat /\ c \in Cells /\ g = Put(f, at, c)
    OBVIOUS
  <2>2. /\ DOMAIN Put(f, at, c) = 1 .. (IF at < Len(f) THEN Len(f) ELSE at + 1)
        /\ DOMAIN f = 1 .. Len(f) /\ Len(f) \in Nat
        /\ Put(f, at, c)[at + 1] = c /\ at + 1 \in DOMAIN Put(f, at, c)
        /\ \A i \in DOMAIN f : i \in DOMAIN Put(f, at, c) /\ (i # at + 1 => Put(f, at, c)[i] = f[i])
        /\ \A i \in DOMAIN Put(f, at, c) : i \in DOMAIN f \/ i = at + 1 \/ Put(f, at, c)[i] = Hole
    BY ONLY PutPlaces, <2>1
  <2> QED BY ONLY <2>1, <2>2
<1>10. DOMAIN g = 1 .. Len(g) /\ Len(g) \in Nat /\ at + 1 <= Len(g) /\ at + 1 \in Nat
  BY <1>9
\* No record but that of t gets a cell.
<1>11. ASSUME NEW r, ~(r[1] = t /\ r[2] = me) PROVE CellsOf(g, r) \subseteq CellsOf(f, r)
  <2> SUFFICES ASSUME NEW j \in CellsOf(g, r) PROVE j \in CellsOf(f, r)
    OBVIOUS
  <2>1. j \in DOMAIN g /\ g[j] # Hole /\ g[j][1] = r[1] /\ g[j][2] = r[2]
    BY DEF CellsOf
  <2>2. j # at + 1
    <3>1. g[at + 1][1] = t /\ g[at + 1][2] = me
      BY <1>6, <1>9
    <3> QED BY <1>11, <2>1, <3>1
  <2> QED BY <1>9, <2>1, <2>2, ZenonT(40) DEF CellsOf
\* And where t appends, none loses one.
<1>12. ASSUME own[t] = AtEnd, NEW r, NEW m, NEW k, ~(r[1] = t /\ r[2] = me), Holds(f, r, m, k)
       PROVE  Holds(g, r, m, k)
  <2>1. \A j \in DOMAIN f : j # at + 1
    BY <1>9, <1>12
  <2>2. \A j \in DOMAIN f : j \in DOMAIN g /\ g[j] = f[j]
    BY <1>9, <2>1
  <2>3. \A j \in DOMAIN g \ DOMAIN f : j \notin CellsOf(g, r)
    <3>1. CellsOf(g, r) \subseteq CellsOf(f, r) /\ CellsOf(f, r) \subseteq DOMAIN f
      BY <1>11, <1>12 DEF CellsOf
    <3> QED BY <3>1
  <2> QED BY <1>12, <2>2, <2>3, OthersKeepTheirCells
\* A thread that meets t at the same file and was not disturbed appends.
<1>13. own[t] # AtEnd => kept[o] = {} /\ \A u \in Threads : u # t /\ op[u] = o /\ Writes(u) => disturbed[u]
  BY <1>2 DEF KeptInv, EmptiersAreAlone, Writes, Open
<1>14. ASSUME ~disturbed[t]
       PROVE  /\ Holds(g, <<t, me>>, d + 1, n)
              /\ own[t] # AtEnd =>
                    /\ own'[t] = d + 1 /\ d + 1 <= Len(g)
                    /\ \A i \in 1 .. d + 1 : g[i] = <<t, me, i, n>>
  <2>1. Holds(f, <<t, me>>, d, n)
    BY <1>2, <1>14 DEF Progress, Writes, Record
  <2>2. own[t] # AtEnd => at = d /\ d <= Len(f) /\ \A i \in 1 .. d : f[i] = <<t, me, i, n>>
    BY <1>2, <1>14 DEF Progress, Writes
  <2>3. \A j \in CellsOf(f, <<t, me>>) : j < at + 1 /\ j # at + 1 /\ j \in DOMAIN f
    <3>1. CASE own[t] = AtEnd
      BY <1>9, <3>1, SMTT(30) DEF CellsOf
    <3>2. CASE own[t] # AtEnd
      <4>1. Hole \notin {<<t, me, i, n>> : i \in 1 .. d}
        BY <1>4, <1>6
      <4>2. CellsOf(f, <<t, me>>) = 1 .. d
        <5>1. d \in Nat /\ d <= Len(f) /\ \A i \in 1 .. d : f[i] = <<t, me, i, n>>
          BY <1>4, <2>2, <3>2
        <5>2. f \in Seq(Cells) /\ Holds(f, <<t, me>>, d, n) /\ Hole \notin {<<t, me, i, n>> : i \in 1 .. d}
          BY <2>1, <4>1
        <5> QED BY ONLY <5>1, <5>2, FirstPlaces
      <4>3. \A j \in 1 .. d : j < d + 1 /\ j # d + 1 /\ j \in 1 .. Len(f)
        <5>1. \A a, b \in Nat : a <= b => \A j \in 1 .. a : j < a + 1 /\ j # a + 1 /\ j \in 1 .. b
          OBVIOUS
        <5>2. d \in Nat /\ Len(f) \in Nat /\ d <= Len(f)
          BY <1>4, <1>9, <2>2, <3>2
        <5> QED BY ONLY <5>1, <5>2
      <4> QED BY <1>9, <2>2, <3>2, <4>2, <4>3
    <3> QED BY <3>1, <3>2
  <2>4. \A j \in CellsOf(f, <<t, me>>) : j < at + 1 /\ g[j] = f[j]
    BY <1>9, <2>3
  <2>5. CellsOf(g, <<t, me>>) = CellsOf(f, <<t, me>>) \cup {at + 1}
    <3> PICK r : r = <<t, me>> /\ r[1] = t /\ r[2] = me
      BY ONLY PairParts, ZenonT(40)
    <3>1. ASSUME NEW j \in CellsOf(g, r) PROVE j \in CellsOf(f, r) \/ j = at + 1
      BY <1>9 DEF CellsOf
    <3>2. ASSUME NEW j \in CellsOf(f, r) PROVE j \in CellsOf(g, r)
      BY <1>9, <2>3, <2>4 DEF CellsOf
    <3>3. at + 1 \in CellsOf(g, r)
      BY <1>6, <1>9 DEF CellsOf
    <3> QED BY <3>1, <3>2, <3>3, ZenonT(40)
  <2>6. Holds(g, <<t, me>>, d + 1, n)
    <3>1. d \in Nat /\ at + 1 \in Nat /\ g[at + 1] = <<t, me, d + 1, n>>
      BY <1>4, <1>5, <1>9, <1>10
    <3> QED BY ONLY f \in Seq(Cells), g \in Seq(Cells), <2>1, <2>4, <2>5, <3>1, NextCell
  <2>7. ASSUME own[t] # AtEnd
        PROVE  own'[t] = d + 1 /\ d + 1 <= Len(g) /\ \A i \in 1 .. d + 1 : g[i] = <<t, me, i, n>>
    <3>1. \A i \in 1 .. d + 1 : i = d + 1 \/ i \in 1 .. d
      BY <1>4
    <3>2. \A i \in 1 .. d : i \in DOMAIN f /\ i # d + 1
      <4>1. \A i \in 1 .. d : i \in 1 .. Len(f) /\ i # d + 1
        BY <1>4, <1>9, <2>2, <2>7
      <4> QED BY <1>9, <4>1
    <3>3. own'[t] = d + 1 /\ d + 1 <= Len(g)
      BY <1>8, <1>10, <2>2, <2>7
    <3> QED BY <1>5, <1>9, <2>2, <2>7, <3>1, <3>2, <3>3, ZenonT(40)
  <2> QED BY <2>6, <2>7
<1>15. KeptTypes'
  BY <1>3 DEF KeptInv, KeptTypes
<1>16. RecordsAreUnderWay'
  <2> SUFFICES ASSUME NEW u \in Threads, lpc[u] \notin {"idle", "dead"}
               PROVE  \E m \in 1 .. MaxRecord, k \in 0 .. MaxRecord : Progress(u, k, m)'
    BY <1>3 DEF RecordsAreUnderWay
  <2>1. CASE u = t
    <3>1. \A i \in 1 .. Len(rest'[t]) : rest'[t][i] = <<t, me, d + 1 + i, n>>
      <4> SUFFICES ASSUME NEW i \in 1 .. Len(rest'[t]) PROVE rest'[t][i] = <<t, me, d + 1 + i, n>>
        OBVIOUS
      <4>1. rest'[t][i] = rest[t][i + 1] /\ i + 1 \in 1 .. Len(rest[t]) /\ i \in Nat
        BY <1>1, <1>8
      <4>2. rest[t][i + 1] = <<t, me, d + (i + 1), n>>
        BY <4>1 DEF Progress
      <4>3. d + (i + 1) = d + 1 + i
        BY <1>4, <4>1
      <4> QED BY <4>1, <4>2, <4>3
    <3>2. d + 1 + Len(rest'[t]) = n
      BY <1>4, <1>8
    <3>3. /\ lpc'[t] = "printed" /\ call'[t] = me /\ disk'[op'[t]] = g
          /\ disturbed'[t] = disturbed[t] /\ (own'[t] # AtEnd => own[t] # AtEnd)
      BY <1>2, <1>3, <1>7, <1>8
    <3>4. Progress(t, d + 1, n)'
      BY <1>14, <3>1, <3>2, <3>3 DEF Progress, Writes, Record
    <3> QED BY <1>4, <2>1, <3>4
  <2>2. CASE u # t
    <3> PICK m \in 1 .. MaxRecord, k \in 0 .. MaxRecord : Progress(u, k, m)
      BY DEF KeptInv, RecordsAreUnderWay
    <3>1. /\ rest'[u] = rest[u] /\ own'[u] = own[u] /\ lpc'[u] = lpc[u] /\ call'[u] = call[u]
          /\ op'[u] = op[u] /\ disturbed'[u] = disturbed[u]
      BY <1>3, <1>7, <2>2
    <3>2. CASE op[u] # o \/ ~Writes(u) \/ disturbed[u]
      <4>1. op[u] # o => disk'[op[u]] = disk[op[u]]
        BY <1>1, <1>7
      <4>2. Writes(u)' /\ ~disturbed'[u] => Writes(u) /\ ~disturbed[u] /\ disk'[op'[u]] = disk[op[u]]
        BY <3>1, <3>2, <4>1 DEF Writes
      <4>3. Progress(u, k, m)'
        BY <3>1, <4>2 DEF Progress, Record
      <4> QED BY <4>3
    <3>3. CASE op[u] = o /\ Writes(u) /\ ~disturbed[u]
      <4>1. own[t] = AtEnd
        BY <1>13, <2>2, <3>3
      <4>2. own[u] = AtEnd \/ disturbed[t]
        <5>1. t \in Open(u)
          BY <1>2, <2>2, <3>3 DEF Open
        <5> QED BY <3>3, <5>1 DEF KeptInv, EmptiersAreAlone
      <4>3. Holds(f, <<u, call[u]>>, k, m)
        BY <3>3 DEF Progress, Record
      <4>4. Holds(g, <<u, call[u]>>, k, m)
        <5> PICK r : r = <<u, call[u]>> /\ r[1] = u
          BY ONLY PairParts
        <5> QED BY <1>12, <2>2, <4>1, <4>3
      <4>5. \A i \in DOMAIN f : i \in DOMAIN g /\ g[i] = f[i]
        <5>1. \A i \in DOMAIN f : i # at + 1
          BY <1>9, <4>1
        <5> QED BY <1>9, <5>1
      <4>6. own[u] # AtEnd =>
               own[u] = k /\ k <= Len(g) /\ \A i \in 1 .. k : g[i] = <<u, call[u], i, m>>
        <5> SUFFICES ASSUME own[u] # AtEnd
                     PROVE  own[u] = k /\ k <= Len(g) /\ \A i \in 1 .. k : g[i] = <<u, call[u], i, m>>
          OBVIOUS
        <5>1. own[u] = k /\ k <= Len(f) /\ \A i \in 1 .. k : f[i] = <<u, call[u], i, m>>
          BY <3>3 DEF Progress
        <5>2. k \in Nat /\ \A i \in 1 .. k : i \in DOMAIN f
          BY <1>9, <5>1
        <5>3. at = Len(f) /\ k <= Len(g)
          BY <1>9, <1>10, <4>1, <5>1, <5>2
        <5> QED BY <4>5, <5>1, <5>2, <5>3
      <4>7. disk'[op'[u]] = g
        BY <1>7, <3>1, <3>3
      <4>8. Progress(u, k, m)'
        BY <3>1, <3>3, <4>4, <4>6, <4>7 DEF Progress, Writes, Record
      <4> QED BY <4>8
    <3> QED BY <3>2, <3>3
  <2> QED BY <2>1, <2>2
<1>17. NothingTooEarly'
  <2> SUFFICES ASSUME NEW z \in Ops, NEW u \in Threads, NEW m \in Nat,
                      disk'[z] # Absent, CellsOf(disk'[z], <<u, m>>) # {}
               PROVE  m <= call[u] /\ (m = call[u] => lpc[u] \notin {"called", "measured", "opened"})
    BY <1>3 DEF NothingTooEarly
  <2> PICK r : r = <<u, m>> /\ r[1] = u /\ r[2] = m
    BY ONLY PairParts, ZenonT(40)
  <2>1. CASE u = t /\ m = me
    <3>1. me <= me
      OBVIOUS
    <3> QED BY <1>2, <2>1, <3>1
  <2>2. CASE ~(u = t /\ m = me)
    <3>1. disk[z] # Absent /\ CellsOf(disk[z], r) # {}
      BY <1>7, <1>11, <2>2
    <3> QED BY <3>1 DEF KeptInv, NothingTooEarly
  <2> QED BY <2>1, <2>2
<1>18. EmptiersAreAlone'
  <2>1. \A u \in Threads : lpc[u] = "measured" => u # t
    BY <1>2
  <2>2. \A u \in Threads : own'[u] # AtEnd => own[u] # AtEnd
    BY <1>7, <1>8
  <2>3. \A u \in Threads : Open(u)' = Open(u) /\ Writes(u)' = Writes(u)
    BY <1>3 DEF Open, Writes
  <2>4. \A u \in Threads : lpc[u] = "measured" => own'[u] \in {AtEnd, 0}
    BY <1>7, <2>1 DEF KeptInv, EmptiersAreAlone
  <2>5. \A u \in Threads : Writes(u) /\ own'[u] # AtEnd =>
                            kept[op[u]] = {} /\ \A v \in Open(u) : disturbed[v]
    BY <2>2 DEF KeptInv, EmptiersAreAlone
  <2> QED BY <1>3, <2>3, <2>4, <2>5 DEF EmptiersAreAlone
<1>19. \A z \in Ops : disk[z] # Absent => disk'[z] # Absent
  BY <1>7
<1>20. KeptAreOver'
  BY <1>3, <1>19 DEF KeptInv, KeptAreOver
<1>21. KeptAreComplete'
  <2> SUFFICES ASSUME NEW z \in Ops, NEW r \in kept[z]
               PROVE  \E m \in 1 .. MaxRecord : Holds(disk'[z], r, m, m)
    BY <1>3 DEF KeptAreComplete
  <2> PICK m \in 1 .. MaxRecord : Holds(disk[z], r, m, m)
    BY DEF KeptInv, KeptAreComplete
  <2>1. CASE z # o
    BY <1>7, <2>1
  <2>2. CASE z = o
    <3>1. own[t] = AtEnd
      BY <1>13, <2>2
    <3> PICK u \in Threads, b \in Nat : r = <<u, b>> /\ (b = call[u] => lpc[u] \in {"idle", "dead"})
      BY DEF KeptInv, KeptAreOver
    <3>2. ~(r[1] = t /\ r[2] = me)
      BY <1>2
    <3>3. Holds(g, r, m, m)
      BY <1>12, <2>2, <3>1, <3>2
    <3> QED BY <1>7, <2>2, <3>3
  <2> QED BY <2>1, <2>2
<1> QED BY <1>15, <1>16, <1>17, <1>18, <1>20, <1>21 DEF KeptInv

LEMMA KeptInvStep == LogInv /\ KeptInv /\ [DebugNext]_debugVars => KeptInv'
<1> SUFFICES ASSUME LogInv, KeptInv, [DebugNext]_debugVars PROVE KeptInv'
  OBVIOUS
<1>1. LogTypes /\ OpenFiles
  BY DEF LogInv
<1>2. /\ lpc \in [Threads -> {"idle", "called", "measured", "opened", "printed", "dead"}]
      /\ own \in [Threads -> Nat \cup {AtEnd}]
  BY <1>1 DEF LogTypes
<1>3. ASSUME NEW t \in Threads, Measure(t) PROVE KeptInv'
  <2>1. /\ lpc[t] = "called" /\ lpc' = [lpc EXCEPT ![t] = "measured"]
        /\ own' = [own EXCEPT ![t] = IF Small(file_size(op[t])) THEN AtEnd ELSE 0]
        /\ UNCHANGED <<disk, kept, disturbed, call, op, rest>>
    BY <1>3 DEF Measure, At, Go, diskVars
  <2>2. /\ lpc'[t] = "measured" /\ own'[t] \in {AtEnd, 0}
        /\ \A u \in Threads : u # t => lpc'[u] = lpc[u] /\ own'[u] = own[u]
    BY <1>2, <2>1
  <2> QED BY <1>1, <2>1, <2>2, QuietStepsKeep
<1>4. ASSUME NEW t \in Threads, PutsLog(t) PROVE KeptInv'
  <2>1. /\ lpc[t] = "opened" /\ lpc' = [lpc EXCEPT ![t] = "printed"] /\ own' = own
        /\ UNCHANGED <<disk, kept, disturbed, call, op, rest>>
    BY <1>4 DEF PutsLog, At, Go, diskVars, bufVars
  <2>2. lpc'[t] = "printed" /\ \A u \in Threads : u # t => lpc'[u] = lpc[u]
    BY <1>2, <2>1
  <2> QED BY <1>1, <2>1, <2>2, QuietStepsKeep
<1>5. ASSUME NEW t \in Threads, Lock(t) PROVE KeptInv'
  <2>1. lpc' = lpc /\ own' = own /\ UNCHANGED <<disk, kept, disturbed, call, op, rest>>
    BY <1>5 DEF Lock, bufVars
  <2> QED BY <1>1, <2>1, QuietStepsKeep
<1>6. ASSUME NEW p, Dies(p), UNCHANGED <<diskVars, call, bufVars>> PROVE KeptInv'
  <2>1. own' = own /\ UNCHANGED <<disk, kept, disturbed, call, op, rest>>
    BY <1>6 DEF diskVars, bufVars
  <2>2. \A u \in Threads : lpc'[u] \in {lpc[u], "dead"}
    BY <1>6 DEF Dies
  <2> QED BY <1>1, <2>1, <2>2, QuietStepsKeep
<1>7. ASSUME NEW t \in Threads, NEW o \in Ops, NEW n \in 1 .. MaxRecord, Call(t, o, n) PROVE KeptInv'
  BY <1>1, <1>7, CallKeeps
<1>8. ASSUME NEW t \in Threads, OpenAppend(t) \/ OpenEmptied(t) \/ Write(t) \/ Close(t) PROVE KeptInv'
  BY <1>1, <1>8, OpenAppendKeeps, OpenEmptiedKeeps, WriteKeeps, CloseKeeps
<1>9. ASSUME NEW t \in Threads, OpenFails(t) PROVE KeptInv'
  BY <1>6, <1>9 DEF OpenFails
<1>10. ASSUME NEW p \in Processes, Kill(p) PROVE KeptInv'
  BY <1>6, <1>10 DEF Kill
<1>11. CASE UNCHANGED debugVars
  <2>1. lpc' = lpc /\ own' = own /\ UNCHANGED <<disk, kept, disturbed, call, op, rest>>
    BY <1>11 DEF debugVars, diskVars, bufVars
  <2> QED BY <1>1, <2>1, QuietStepsKeep
<1> QED BY <1>3, <1>4, <1>5, <1>7, <1>8, <1>9, <1>10, <1>11 DEF DebugNext

LEMMA KeptStarts == DebugInit => KeptInv
<1> SUFFICES ASSUME DebugInit PROVE KeptInv
  OBVIOUS
<1>1. /\ \A o \in Ops : disk[o] = Absent /\ kept[o] = {}
      /\ \A t \in Threads : lpc[t] = "idle" /\ own[t] = AtEnd
      /\ disturbed \in [Threads -> BOOLEAN] /\ kept \in [Ops -> SUBSET (Threads \X Nat)]
  BY DEF DebugInit
<1> QED BY <1>1 DEF KeptInv, KeptTypes, RecordsAreUnderWay, NothingTooEarly, EmptiersAreAlone,
                    KeptAreOver, KeptAreComplete, Writes

\* A record that its file is said to keep is in it: all its cells, each once and
\* in order, under every interleaving of every number of threads and processes,
\* and whoever is killed.
THEOREM KeptRecordsAreWhole == DebugSpec => []KeptAreComplete
<1>1. DebugInit => KeptInv
  BY KeptStarts
<1>2. LogInv /\ KeptInv /\ [DebugNext]_debugVars => KeptInv'
  BY KeptInvStep
<1>3. KeptInv => KeptAreComplete
  BY DEF KeptInv
<1>4. DebugSpec => []KeptInv
  BY <1>1, <1>2, LogInvHolds, PTL DEF DebugSpec
<1> QED BY <1>3, <1>4, PTL

-----------------------------------------------------------------------------
Stages == {"idle", "dead", "called", "read", "rtc_set"}

\* The types of the numbers; those of the flags are not needed.
ClockTypeOK ==
  /\ kernel \in Int /\ rtc \in Int /\ lag \in Int /\ ticks \in Int /\ updates \in Int
  /\ upc \in [Callers -> Stages]
  /\ diff_time \in [Callers -> Int] /\ time_new \in [Callers -> Int]
  /\ since \in [Callers -> Nat]

\* A call that met no other is the only one under way.
AloneIsAlone == \A c, d \in Callers : InCall(c) /\ InCall(d) /\ c # d => met[c]

\* Between its settings such a call knows the machine's clock.
RtcIsKnown == \A c \in Callers :
                upc[c] = "rtc_set" /\ ~met[c] => rtc = time_new[c] + since[c]

ClockInv == ClockTypeOK /\ AloneIsAlone /\ RtcIsKnown /\ ClocksAgree

\* The differences are integers.
LEMMA DiffsAreInt == StartTime \in Int /\ \A d \in Diffs : d \in Int
  BY TimesAssumption DEF TimesAssumption

\* Every step keeps the invariant.
LEMMA ClockStep == ClockInv /\ [ClockNext]_timeVars => ClockInv'
<1> SUFFICES ASSUME ClockInv, [ClockNext]_timeVars PROVE ClockInv'
  OBVIOUS
<1> USE DEF ClockInv, ClockTypeOK, Stages
<1>1. ASSUME NEW c \in Callers, NEW d \in Diffs, update_hardwave_kernel_time(c, d)
      PROVE  ClockInv'
  <2>1. ClockTypeOK'
    <3>1. d \in Int
      BY DiffsAreInt
    <3> QED BY <1>1, <3>1 DEF update_hardwave_kernel_time
  <2>2. AloneIsAlone'
    BY <1>1 DEF update_hardwave_kernel_time, AloneIsAlone, InCall
  <2>3. RtcIsKnown'
    BY <1>1 DEF update_hardwave_kernel_time, RtcIsKnown, InCall
  <2>4. ClocksAgree'
    BY <1>1 DEF update_hardwave_kernel_time, ClocksAgree, Unknown
  <2> QED BY <2>1, <2>2, <2>3, <2>4
<1>2. ASSUME NEW c \in Callers, NoDevice(c) \/ RtcRefuses(c) \/ KillCaller(c)
      PROVE  ClockInv'
  <2> USE DEF NoDevice, RtcRefuses, KillCaller, Returns
  <2>1. ClockTypeOK'
    BY <1>2
  <2>2. AloneIsAlone'
    BY <1>2 DEF AloneIsAlone, InCall
  <2>3. RtcIsKnown'
    BY <1>2 DEF RtcIsKnown
  <2>4. ClocksAgree'
    BY <1>2 DEF ClocksAgree, Unknown
  <2> QED BY <2>1, <2>2, <2>3, <2>4
<1>3. ASSUME NEW c \in Callers, ReadKernel(c) PROVE ClockInv'
  <2>1. ClockTypeOK'
    <3>1. kernel + diff_time[c] \in Int
      OBVIOUS
    <3> QED BY <1>3, <3>1 DEF ReadKernel
  <2>2. AloneIsAlone'
    BY <1>3 DEF ReadKernel, AloneIsAlone, InCall
  <2>3. RtcIsKnown'
    BY <1>3 DEF ReadKernel, RtcIsKnown
  <2>4. ClocksAgree'
    BY <1>3 DEF ReadKernel, ClocksAgree, Unknown
  <2> QED BY <2>1, <2>2, <2>3, <2>4
<1>4. ASSUME NEW c \in Callers, SetRtc(c) PROVE ClockInv'
  <2>1. ClockTypeOK'
    <3>1. time_new[c] \in Int /\ -1 \in Int /\ 0 \in Nat
      OBVIOUS
    <3> QED BY <1>4, <3>1 DEF SetRtc, Unknown
  <2>2. AloneIsAlone'
    BY <1>4 DEF SetRtc, AloneIsAlone, InCall
  \* Another call between its settings has met this one.
  <2>3. RtcIsKnown'
    BY <1>4 DEF SetRtc, RtcIsKnown, AloneIsAlone, InCall
  <2>4. ClocksAgree'
    BY <1>4 DEF SetRtc, ClocksAgree, Unknown
  <2> QED BY <2>1, <2>2, <2>3, <2>4
<1>5. ASSUME NEW c \in Callers, SetKernel(c) PROVE ClockInv'
  <2> USE DEF SetKernel, Returns
  <2>1. ClockTypeOK'
    <3>1. time_new[c] \in Int /\ since[c] \in Int /\ -1 \in Int
      OBVIOUS
    <3> QED BY <1>5, <3>1 DEF Unknown
  <2>2. AloneIsAlone'
    BY <1>5 DEF AloneIsAlone, InCall
  <2>3. RtcIsKnown'
    BY <1>5 DEF RtcIsKnown
  <2>4. ClocksAgree'
    BY <1>5 DEF ClocksAgree, Unknown, RtcIsKnown
  <2> QED BY <2>1, <2>2, <2>3, <2>4
<1>6. ASSUME Second PROVE ClockInv'
  <2>1. ClockTypeOK'
    <3>1. kernel' \in Int /\ rtc' \in Int /\ ticks' \in Int
      BY <1>6 DEF Second
    <3>2. since' \in [Callers -> Nat]
      BY <1>6 DEF Second
    <3> QED BY <1>6, <3>1, <3>2 DEF Second
  <2>2. AloneIsAlone'
    BY <1>6 DEF Second, AloneIsAlone, InCall
  <2>3. RtcIsKnown'
    BY <1>6 DEF Second, RtcIsKnown
  <2>4. ClocksAgree'
    BY <1>6 DEF Second, ClocksAgree, Unknown
  <2> QED BY <2>1, <2>2, <2>3, <2>4
<1>7. CASE UNCHANGED timeVars
  BY <1>7 DEF timeVars, AloneIsAlone, InCall, RtcIsKnown, ClocksAgree
<1> QED BY <1>1, <1>2, <1>3, <1>4, <1>5, <1>6, <1>7 DEF ClockNext

\* After an update that met no other and in which stime worked, the clocks are
\* apart by the seconds between the two settings, whatever came before.
THEOREM UpdatesKeepClocksTogether == ClockSpec => []ClocksAgree
<1>1. ClockInit => ClockInv
  BY DiffsAreInt DEF ClockInit, ClockInv, ClockTypeOK, Stages, AloneIsAlone,
     InCall, RtcIsKnown, ClocksAgree, Unknown
<1> QED BY <1>1, ClockStep, PTL DEF ClockSpec, ClockInv
=============================================================================
