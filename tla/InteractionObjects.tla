-------------------------- MODULE InteractionObjects --------------------------
(***************************************************************************)
(* Objects of class LT::interaction (LT.Interaction.pb.h, .pb.cc).  An     *)
(* object is a word of has-bits beside the fields themselves, and an inner *)
(* message is another object on the heap, held by a pointer.  Clearing an  *)
(* object keeps its inner objects to use them again, and a getter returns  *)
(* the inner object whether its has-bit is set or not; so what is absent   *)
(* must have been put back to its default, or old data would come back.    *)
(*                                                                         *)
(* The numbers of the has-bits are given by the accessors of the header;   *)
(* the methods of the .cc file go through the same bits in masks of their  *)
(* own (InteractionCodec!...Merged, in the order of the bits).             *)
(*                                                                         *)
(* ptr is the pointer the program got from the last mutable_ or release_,  *)
(* and ptr.own says that the program must delete it or give it away.  The  *)
(* program keeps the rules of the library: it writes through a pointer     *)
(* only while the field is set, and loses no pointer it owns.              *)
(***************************************************************************)
EXTENDS InteractionCodec

CONSTANTS Objects,      \* the objects of class interaction
          Handles,      \* the addresses of inner objects
          Freed,        \* what is at an address without an object
          NoInfo,       \* the program owns no inner message
          Scalars, Subs, Lists, InfoFields,   \* the fields the program uses
          MaxList       \* the length of the longest list

ASSUME HandlesAssumption == Handles \subseteq Nat \ {0} /\ IsFiniteSet(Handles)

ASSUME FieldsAssumption ==
    Scalars \subseteq {1, 4, 7, 9} /\ Subs \subseteq {2, 3, 5, 6} /\ Lists \subseteq {10, 11}

VARIABLES obj, heap, ptr

vars == <<obj, heap, ptr>>

NULL == 0

NoPtr == [h |-> NULL, n |-> NULL, own |-> FALSE]

-----------------------------------------------------------------------------
(* The has-bit of each field, as set_has_ and clear_has_ number it.        *)

TerminalInfoBit == [k \in 1..9 |-> CASE k <= 7 -> k - 1 [] k = 8 -> 8 [] k = 9 -> 7]

BaseStationInfoBit ==
    [k \in 1..9 |-> CASE k = 1 -> 0 [] k \in {4, 5, 6} -> k - 3 [] k = 9 -> 4
                      [] k \in {2, 3} -> k + 3 [] k \in {7, 8} -> k]

BaseCommandInfoBit == [k \in 1..4 |-> IF k = 1 THEN 3 ELSE k - 2]

TermCommandInfoBit == [k \in 1..4 |-> IF k = 1 THEN 3 ELSE k - 2]

InteractionBit ==
    [n \in InteractionRequired \cup {2, 3, 4, 5, 6, 7, 9} |->
        CASE n = 1 -> 5 [] n \in {2, 3} -> n - 1 [] n = 4 -> 6
          [] n \in {5, 6} -> n - 2 [] n = 7 -> 7 [] n = 9 -> 0]

InfoBit(n) == CASE n \in {2, 10} -> TerminalInfoBit
                [] n \in {5, 11} -> BaseStationInfoBit
                [] n = 6 -> BaseCommandInfoBit
                [] n = 3 -> TermCommandInfoBit

InfoMerged(n) == CASE n \in {2, 10} -> TerminalInfoMerged
                   [] n \in {5, 11} -> BaseStationInfoMerged
                   [] n = 6 -> BaseCommandInfoMerged
                   [] n = 3 -> TermCommandInfoMerged

InfoRead(n) == interaction.class[n].read

Default(kind) == IF kind = "string" THEN <<>> ELSE 0

Samples(kind) == IF kind = "string" THEN {<<>>, <<1>>} ELSE {0, 1}

-----------------------------------------------------------------------------
(* Objects of the inner classes. *)

(* SharedCtor *)
NewInfo(n) ==
    [has |-> {}, raw |-> [k \in DOMAIN InfoRead(n) |-> Default(InfoRead(n)[k])]]

(* The objects of the class of field n. *)
Infos(n) ==
    [has : SUBSET (0..8), raw : [DOMAIN InfoRead(n) -> Nat \cup Seq(Nat)]]

(* What an inner object may stand for. *)
InfoViews ==
    [f : UNION {[D -> Nat \cup Seq(Nat)] : D \in SUBSET (1..9)}, unknown : {<<>>}]

ASSUME InfosAssumption ==
    /\ \A n \in {2, 3, 5, 6} : Freed \notin Infos(n)
    /\ NoInfo \notin [n : Subs, info : InfoViews]
    /\ \A n \in Subs \cup Lists : InfoFields \subseteq DOMAIN InfoRead(n)

InfoView(n, x) ==
    [f |-> [k \in {j \in DOMAIN x.raw : InfoBit(n)[j] \in x.has} |-> x.raw[k]],
     unknown |-> <<>>]

SetRaw(x, bit, k, v) == [x EXCEPT !.has = @ \cup {bit}, !.raw[k] = v]

Reset(x, n, K) ==
    [has |-> {}, raw |-> [k \in DOMAIN x.raw |->
                             IF k \in K THEN Default(InfoRead(n)[k]) ELSE x.raw[k]]]

(* The fields the bits of x in 0..last stand for. *)
Flagged(x, order, last) == { order[b + 1] : b \in x.has \cap 0..last }

(* Clear of the four classes: strings one by one where their bit is set;   *)
(* the numbers before the last of BaseStationInfo together when one of     *)
(* their bits is set; the last number always.                              *)
TerminalInfoClear(x) == Reset(x, 2, Flagged(x, TerminalInfoMerged, 7) \cup {8})

BaseStationInfoClear(x) ==
    Reset(x, 5, Flagged(x, BaseStationInfoMerged, 4) \cup {8}
                \cup (IF x.has \cap {5, 6, 7} # {} THEN {2, 3, 7} ELSE {}))

BaseCommandInfoClear(x) == Reset(x, 6, Flagged(x, BaseCommandInfoMerged, 2) \cup {1})

TermCommandInfoClear(x) == Reset(x, 3, Flagged(x, TermCommandInfoMerged, 2) \cup {1})

InfoClear(n, x) == CASE n = 2 -> TerminalInfoClear(x)
                     [] n = 5 -> BaseStationInfoClear(x)
                     [] n = 6 -> BaseCommandInfoClear(x)
                     [] n = 3 -> TermCommandInfoClear(x)

(* A mutated form: what y has not is lost. *)
InfoMergeReplaces(n, x, y) == y

InfoMergeFrom(n, x, y) ==
    LET taken == Flagged(y, InfoMerged(n), 8)
    IN  [has |-> x.has \cup y.has,
         raw |-> [k \in DOMAIN x.raw |-> IF k \in taken THEN y.raw[k] ELSE x.raw[k]]]

(* The copy constructor copies numbers whether they are set or not.        *)
InfoCopy(n, y) ==
    LET kept == Flagged(y, InfoMerged(n), 8)
                \cup {k \in DOMAIN y.raw : InfoRead(n)[k] # "string"}
    IN  [has |-> y.has,
         raw |-> [k \in DOMAIN y.raw |-> IF k \in kept THEN y.raw[k] ELSE <<>>]]

-----------------------------------------------------------------------------
(* Objects of class interaction. *)

(* SharedCtor *)
NewObject ==
    [has |-> {}, raw |-> [k \in {1, 4, 7, 9} |-> Default(InteractionRead[k])],
     sub |-> [k \in {2, 3, 5, 6} |-> NULL], list |-> [k \in {10, 11} |-> <<>>]]

Init == /\ obj = [o \in Objects |-> NewObject]
        /\ heap = [h \in Handles |-> Freed]
        /\ ptr = NoPtr

HasField(o, n) == InteractionBit[n] \in obj[o].has

(* The ways to give each of the fields S an address of its own, none of    *)
(* them in use in hp.  Memory does not run out: what needs a new address   *)
(* is done while there is one.                                             *)
Placings(hp, S) ==
    {a \in [S -> {h \in Handles : hp[h] = Freed}] : \A m, n \in S : m # n => a[m] # a[n]}

NewHandles(hp, S) == CHOOSE a \in Placings(hp, S) : TRUE

(* The pointer mutable_ returns is kept unless the program owns another.   *)
Keep(h, n) == ptr' = IF ptr.own THEN ptr ELSE [h |-> h, n |-> n, own |-> FALSE]

(* set_ of a number, a bool or a string *)
SetScalar(o, n) ==
    /\ \E v \in Samples(InteractionRead[n]) :
          obj' = [obj EXCEPT ![o] = SetRaw(@, InteractionBit[n], n, v)]
    /\ UNCHANGED <<heap, ptr>>

(* clear_ of a number, a bool or a string *)
ClearScalar(o, n) ==
    /\ obj' = [obj EXCEPT ![o].has = @ \ {InteractionBit[n]},
                          ![o].raw[n] = Default(InteractionRead[n])]
    /\ UNCHANGED <<heap, ptr>>

(* mutable_terminal_info and the like *)
Mutable(o, n) ==
    LET isNew == obj[o].sub[n] = NULL
        h == IF isNew THEN NewHandles(heap, {n})[n] ELSE obj[o].sub[n]
    IN  /\ isNew => Placings(heap, {n}) # {}
        /\ obj' = [obj EXCEPT ![o].has = @ \cup {InteractionBit[n]}, ![o].sub[n] = h]
        /\ heap' = IF isNew THEN [heap EXCEPT ![h] = NewInfo(n)] ELSE heap
        /\ Keep(h, n)

(* set_hostname and the like, on the inner object ptr points to *)
SetThrough ==
    /\ ptr.h # NULL
    /\ ptr.own \/ \E o \in Objects : obj[o].sub[ptr.n] = ptr.h /\ HasField(o, ptr.n)
    /\ \E k \in InfoFields : \E v \in Samples(InfoRead(ptr.n)[k]) :
          heap' = [heap EXCEPT ![ptr.h] = SetRaw(@, InfoBit(ptr.n)[k], k, v)]
    /\ UNCHANGED <<obj, ptr>>

(* A mutated form: the inner object is kept as it is. *)
ClearSubKeeps(o, n) ==
    /\ obj' = [obj EXCEPT ![o].has = @ \ {InteractionBit[n]}]
    /\ UNCHANGED <<heap, ptr>>

(* clear_terminal_info and the like *)
ClearSub(o, n) ==
    LET h == obj[o].sub[n]
    IN  /\ obj' = [obj EXCEPT ![o].has = @ \ {InteractionBit[n]}]
        /\ heap' = IF h # NULL THEN [heap EXCEPT ![h] = InfoClear(n, @)] ELSE heap
        /\ UNCHANGED ptr

(* release_terminal_info: the program gets the pointer, which it owns. *)
Release(o, n) ==
    LET h == obj[o].sub[n]
    IN  /\ ~ptr.own
        /\ obj' = [obj EXCEPT ![o].has = @ \ {InteractionBit[n]}, ![o].sub[n] = NULL]
        /\ ptr' = IF h = NULL THEN NoPtr ELSE [h |-> h, n |-> n, own |-> TRUE]
        /\ UNCHANGED heap

(* set_allocated_terminal_info, with what the program owns or with NULL    *)
SetAllocated(o, n) ==
    LET old == obj[o].sub[n]
        new == IF ptr.own THEN ptr.h ELSE NULL
    IN  /\ ptr.own => ptr.n = n
        /\ heap' = IF old # NULL THEN [heap EXCEPT ![old] = Freed] ELSE heap
        /\ obj' = [obj EXCEPT ![o].sub[n] = new,
                              ![o].has = IF new # NULL
                                         THEN @ \cup {InteractionBit[n]}
                                         ELSE @ \ {InteractionBit[n]}]
        /\ ptr' = IF ptr.own THEN [ptr EXCEPT !.own = FALSE] ELSE NoPtr

(* add_terminal_info_list, and a set_ on the new element as in Writer.cpp  *)
AddToList(o, n) ==
    /\ Len(obj[o].list[n]) < MaxList
    /\ \E k \in InfoFields : \E v \in Samples(InfoRead(n)[k]) :
          obj' = [obj EXCEPT ![o].list[n] = Append(@, SetField(Empty, k, v))]
    /\ UNCHANGED <<heap, ptr>>

ClearList(o, n) ==
    /\ obj' = [obj EXCEPT ![o].list[n] = <<>>]
    /\ UNCHANGED <<heap, ptr>>

-----------------------------------------------------------------------------
(* What Clear does to one object: the numbers together when one of their   *)
(* bits is set, the inner objects where their bit is set.                  *)
ClearedObject(x) ==
    LET numbers == IF x.has \cap {5, 6, 7} # {} THEN {1, 4, 7} ELSE {}
        strings == IF 0 \in x.has THEN {9} ELSE {}
    IN  [x EXCEPT !.has = {},
                  !.raw = [k \in {1, 4, 7, 9} |->
                              IF k \in numbers \cup strings
                              THEN Default(InteractionRead[k]) ELSE x.raw[k]],
                  !.list = [k \in {10, 11} |-> <<>>]]

ClearedHeap(hp, x) ==
    [h \in Handles |->
        IF \E n \in {2, 3, 5, 6} : x.sub[n] = h /\ InteractionBit[n] \in x.has
        THEN LET n == CHOOSE n \in {2, 3, 5, 6} : x.sub[n] = h
             IN  InfoClear(n, hp[h])
        ELSE hp[h]]

Clear(o) ==
    /\ obj' = [obj EXCEPT ![o] = ClearedObject(@)]
    /\ heap' = ClearedHeap(heap, obj[o])
    /\ UNCHANGED ptr

(* The inner messages of y, and those of them which x must make to merge y. *)
Taken(y) == Flagged(y, InteractionMerged, 7) \cap {2, 3, 5, 6}

Fresh(x, y) == {n \in Taken(y) : x.sub[n] = NULL}

(* MergeFrom: x and its heap after y has been merged into it. *)
Merged(x, hp, y) ==
    LET taken == Flagged(y, InteractionMerged, 7)
        inner == Taken(y)
        fresh == Fresh(x, y)
        new == NewHandles(hp, fresh)
        sub == [n \in {2, 3, 5, 6} |-> IF n \in fresh THEN new[n] ELSE x.sub[n]]
        base(n) == IF n \in fresh THEN NewInfo(n) ELSE hp[x.sub[n]]
    IN  [x |-> [has |-> x.has \cup y.has,
                raw |-> [k \in {1, 4, 7, 9} |->
                            IF k \in taken THEN y.raw[k] ELSE x.raw[k]],
                sub |-> sub,
                list |-> [k \in {10, 11} |-> x.list[k] \o y.list[k]]],
         hp |-> [h \in Handles |->
                    IF \E n \in inner : sub[n] = h
                    THEN LET n == CHOOSE n \in inner : sub[n] = h
                         IN  InfoMergeFrom(n, base(n), hp[y.sub[n]])
                    ELSE hp[h]]]

MergeFrom(o, q) ==
    LET r == Merged(obj[o], heap, obj[q])
    IN  /\ o # q /\ Placings(heap, Fresh(obj[o], obj[q])) # {}
        /\ \A n \in Lists : Len(obj[o].list[n]) + Len(obj[q].list[n]) <= MaxList
        /\ obj' = [obj EXCEPT ![o] = r.x]
        /\ heap' = r.hp
        /\ UNCHANGED ptr

CopyFrom(o, q) ==
    LET x == ClearedObject(obj[o])
        hp == ClearedHeap(heap, obj[o])
        r == Merged(x, hp, obj[q])
    IN  IF o = q
        THEN UNCHANGED vars
        ELSE /\ Placings(hp, Fresh(x, obj[q])) # {}
             /\ obj' = [obj EXCEPT ![o] = r.x]
             /\ heap' = r.hp
             /\ UNCHANGED ptr

Swap(o, q) ==
    /\ obj' = [obj EXCEPT ![o] = obj[q], ![q] = obj[o]]
    /\ UNCHANGED <<heap, ptr>>

(* A mutated form: the copy shares the inner objects. *)
CopyConstructShares(o, q) ==
    /\ o # q
    /\ obj' = [obj EXCEPT ![o] = obj[q]]
    /\ UNCHANGED <<heap, ptr>>

(* The destructor of o and a new object in its place, made by the copy     *)
(* constructor from q.                                                     *)
CopyConstruct(o, q) ==
    LET dead == {obj[o].sub[n] : n \in {2, 3, 5, 6}}
        hp == [h \in Handles |-> IF h \in dead THEN Freed ELSE heap[h]]
        from == obj[q]
        inner == {n \in {2, 3, 5, 6} : HasField(q, n)}
        new == NewHandles(hp, inner)
    IN  /\ o # q /\ Placings(hp, inner) # {}
        /\ obj' = [obj EXCEPT ![o] =
                      [has |-> from.has,
                       raw |-> [k \in {1, 4, 7, 9} |->
                                   IF k = 9 /\ ~HasField(q, 9) THEN <<>> ELSE from.raw[k]],
                       sub |-> [n \in {2, 3, 5, 6} |->
                                   IF n \in inner THEN new[n] ELSE NULL],
                       list |-> from.list]]
        /\ heap' = [h \in Handles |->
                       IF \E n \in inner : new[n] = h
                       THEN LET n == CHOOSE n \in inner : new[n] = h
                            IN  InfoCopy(n, heap[from.sub[n]])
                       ELSE hp[h]]
        /\ ptr' = IF ptr.h \in dead THEN NoPtr ELSE ptr

-----------------------------------------------------------------------------
Next ==
    \/ \E o \in Objects, n \in Scalars : SetScalar(o, n) \/ ClearScalar(o, n)
    \/ \E o \in Objects, n \in Subs : Mutable(o, n) \/ ClearSub(o, n)
    \/ SetThrough
    \/ \E o \in Objects, n \in Subs : Release(o, n) \/ SetAllocated(o, n)
    \/ \E o \in Objects, n \in Lists : AddToList(o, n) \/ ClearList(o, n)
    \/ \E o \in Objects : Clear(o)
    \/ \E o, q \in Objects :
          MergeFrom(o, q) \/ CopyFrom(o, q) \/ Swap(o, q) \/ CopyConstruct(o, q)

Spec == Init /\ [][Next]_vars

-----------------------------------------------------------------------------
(* What is absent reads as its default: a getter does not look at the      *)
(* has-bit, so an inner object that is kept must be as good as new, and a  *)
(* number or string without its bit must be 0 or empty, in every object    *)
(* and in every inner object, whatever was set, cleared, merged, swapped   *)
(* and released before.                                                    *)
AbsentReadsDefault ==
    /\ \A o \in Objects :
          /\ \A k \in {1, 4, 7, 9} :
                ~HasField(o, k) => obj[o].raw[k] = Default(InteractionRead[k])
          /\ \A n \in {2, 3, 5, 6} :
                ~HasField(o, n) /\ obj[o].sub[n] # NULL
                    => heap[obj[o].sub[n]] = NewInfo(n)
    /\ \A o \in Objects, n \in {2, 3, 5, 6} :
          obj[o].sub[n] # NULL =>
             \A k \in DOMAIN InfoRead(n) :
                InfoBit(n)[k] \notin heap[obj[o].sub[n]].has
                    => heap[obj[o].sub[n]].raw[k] = Default(InfoRead(n)[k])

(* The fields of objects that hold address h, with the program's pointer   *)
(* as one more when it owns h.                                             *)
Owners(h) ==
    {s \in Objects \X {2, 3, 5, 6} : obj[s[1]].sub[s[2]] = h}
    \cup (IF ptr.own /\ ptr.h = h THEN {<<ptr.h, 0>>} ELSE {})

(* Every inner object has exactly one owner, which deletes it, and no      *)
(* field points to an object that was deleted; a has-bit of an inner       *)
(* message is set only over an object.                                     *)
OneOwner ==
    /\ \A h \in Handles : Cardinality(Owners(h)) = IF heap[h] = Freed THEN 0 ELSE 1
    /\ \A o \in Objects, n \in {2, 3, 5, 6} : HasField(o, n) => obj[o].sub[n] # NULL

(* The message an object stands for. *)
View(x) ==
    LET scalars == {k \in {1, 4, 7, 9} : InteractionBit[k] \in x.has}
        inner == {n \in {2, 3, 5, 6} : InteractionBit[n] \in x.has}
        lists == {n \in {10, 11} : x.list[n] # <<>>}
    IN  [f |-> [n \in scalars \cup inner \cup lists |->
                   CASE n \in scalars -> x.raw[n]
                     [] n \in inner -> InfoView(n, heap[x.sub[n]])
                     [] n \in lists -> x.list[n]],
         unknown |-> <<>>]

(* The messages of the objects, each with the bytes it is written as.      *)
Written == { [m |-> m, s |-> Serialize(interaction, m)] : m \in {View(obj[o]) : o \in Objects} }

(* Writing a message and reading it back gives the same message, in as     *)
(* many bytes as ByteSizeLong has promised; and a program that was built   *)
(* from the .proto file, which does not know term_config, passes it on     *)
(* when it reads such a message and writes it again.                       *)
RoundTrips ==
    LET ofProto == Interaction(TerminalInfoOfProto)
        again(s) == Serialize(ofProto, Read(ofProto, Empty, s).m)
    IN  \A x \in Written :
           /\ Len(x.s) = ByteSize(interaction, x.m)
           /\ Read(interaction, Empty, x.s) = [ok |-> TRUE, m |-> x.m]
           /\ Read(ofProto, Empty, x.s).ok
           /\ \A s \in {again(x.s)} :
                 Read(interaction, Empty, s) = [ok |-> TRUE, m |-> x.m]

(* The bytes of two messages one after the other read as the two messages  *)
(* merged: fields of the second win, inner messages are merged, lists are  *)
(* joined.                                                                 *)
ConcatenationMerges ==
    \A x, y \in Written :
       Read(interaction, Empty, x.s \o y.s)
          = [ok |-> TRUE, m |-> Merge(interaction, x.m, y.m)]

(* The objects behave like values of their own: no operation on one, and   *)
(* no write through a pointer, changes another, and nothing that was       *)
(* cleared comes back.                                                     *)
Values == INSTANCE InteractionValues
    WITH val <- [o \in Objects |-> View(obj[o])],
         loose <- IF ptr.own THEN [n |-> ptr.n, info |-> InfoView(ptr.n, heap[ptr.h])]
                             ELSE NoInfo

ImplementsValues == Values!Spec
=============================================================================
