--------------------------- MODULE InteractionValues ---------------------------
(***************************************************************************)
(* What a program may expect of objects of class LT::interaction: each is  *)
(* a value of its own.  val maps the objects to messages, and loose is an  *)
(* inner message the program has taken out of one and owns itself.         *)
(***************************************************************************)
EXTENDS InteractionCodec

CONSTANTS Objects, Scalars, Subs, Lists, InfoFields, NoInfo, MaxList

VARIABLES val, loose

Samples(kind) == IF kind = "string" THEN {<<>>, <<1>>} ELSE {0, 1}

Absent(m, n) == [m EXCEPT !.f = [k \in DOMAIN m.f \ {n} |-> m.f[k]]]

InfoClass(n) == interaction.class[n]

Init == /\ val = [o \in Objects |-> Empty]
        /\ loose = NoInfo

Become(o, m) == val' = [val EXCEPT ![o] = m]

Set(o, n) ==
    /\ \E v \in Samples(interaction.read[n]) : Become(o, SetField(val[o], n, v))
    /\ UNCHANGED loose

Unset(o, n) == Become(o, Absent(val[o], n)) /\ UNCHANGED loose

(* An inner message asked for and not there is there from now on, empty.   *)
Mutable(o, n) ==
    Become(o, SetField(val[o], n, SubOf(val[o], n))) /\ UNCHANGED loose

SetInner(o, n) ==
    /\ Present(val[o], n)
    /\ \E k \in InfoFields : \E v \in Samples(InfoClass(n).read[k]) :
          Become(o, SetField(val[o], n, SetField(val[o].f[n], k, v)))
    /\ UNCHANGED loose

SetLoose ==
    /\ loose # NoInfo
    /\ \E k \in InfoFields : \E v \in Samples(InfoClass(loose.n).read[k]) :
          loose' = [loose EXCEPT !.info = SetField(@, k, v)]
    /\ UNCHANGED val

(* Releasing what is not there gives nothing or an empty message.          *)
Release(o, n) ==
    /\ loose = NoInfo
    /\ loose' \in { [n |-> n, info |-> SubOf(val[o], n)] }
                     \cup (IF Present(val[o], n) THEN {} ELSE {NoInfo})
    /\ Become(o, Absent(val[o], n))

Install(o, n) ==
    /\ loose # NoInfo => loose.n = n
    /\ Become(o, IF loose = NoInfo THEN Absent(val[o], n)
                                   ELSE SetField(val[o], n, loose.info))
    /\ loose' = NoInfo

Add(o, n) ==
    /\ Len(ListOf(val[o], n)) < MaxList
    /\ \E k \in InfoFields : \E v \in Samples(InfoClass(n).read[k]) :
          Become(o, SetField(val[o], n,
                             Append(ListOf(val[o], n), SetField(Empty, k, v))))
    /\ UNCHANGED loose

Clear(o) == Become(o, Empty) /\ UNCHANGED loose

MergeFrom(o, q) == Become(o, Merge(interaction, val[o], val[q])) /\ UNCHANGED loose

CopyFrom(o, q) == Become(o, val[q]) /\ UNCHANGED loose

Swap(o, q) ==
    /\ val' = [val EXCEPT ![o] = val[q], ![q] = val[o]]
    /\ UNCHANGED loose

Next ==
    \/ \E o \in Objects, n \in Scalars : Set(o, n)
    \/ \E o \in Objects, n \in Scalars \cup Subs \cup Lists : Unset(o, n)
    \/ \E o \in Objects, n \in Subs : Mutable(o, n) \/ SetInner(o, n)
    \/ SetLoose
    \/ \E o \in Objects, n \in Subs : Release(o, n) \/ Install(o, n)
    \/ \E o \in Objects, n \in Lists : Add(o, n)
    \/ \E o \in Objects : Clear(o)
    \/ \E o, q \in Objects : MergeFrom(o, q) \/ CopyFrom(o, q) \/ Swap(o, q)

Spec == Init /\ [][Next]_<<val, loose>>
=============================================================================
