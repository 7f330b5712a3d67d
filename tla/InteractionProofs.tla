-------------------------- MODULE InteractionProofs --------------------------
(***************************************************************************)
(* What holds of objects of class interaction for all objects, addresses,  *)
(* fields and operations: each inner object has one owner, what is absent  *)
(* reads as its default, and the objects implement the values of           *)
(* InteractionValues.  The invariant behind the three says what a sound    *)
(* object holds on the heap, that no two objects hold the same inner       *)
(* object, that what the program owns is held by none, and that the rest   *)
(* of the heap is free.  The lemma of an operation says that it keeps the  *)
(* invariant and that it is the step of the values it is meant to be.      *)
(*                                                                         *)
(* From the steps of the values it follows that all an object stands for   *)
(* is of known fields (ValuesKnown), which is what the lemmas of           *)
(* InteractionCodecProofs are about: every message the program can build   *)
(* is written and read back as it was.                                     *)
(*                                                                         *)
(* And what holds of the programs that write and read ./log, for all       *)
(* writers, messages and sizes of the buffers: the reader lists what was   *)
(* written.                                                                *)
(***************************************************************************)
EXTENDS InteractionObjects, MessageLog, InteractionCodecProofs, FiniteSetTheorems, TLAPS

Inner == {2, 3, 5, 6}
Plain == {1, 4, 7, 9}

\* An inner object of the class of field n in which what is absent is as new.
Good(n) == {x \in Infos(n) :
               /\ x.has \subseteq {InfoBit(n)[k] : k \in DOMAIN InfoRead(n)}
               /\ \A k \in DOMAIN InfoRead(n) :
                     InfoBit(n)[k] \notin x.has => x.raw[k] = Default(InfoRead(n)[k])}

\* The inner objects x holds.
Slots(x) == {x.sub[n] : n \in Inner} \ {NULL}

Contents == Nat \cup Seq(Nat)

\* The messages the program puts into lists.
Elements == {SetField(Empty, k, v) : k \in InfoFields, v \in Contents}

\* An object in which an absent number or string is as new.
WellFormed(x) ==
  /\ x = [has |-> x.has, raw |-> x.raw, sub |-> x.sub, list |-> x.list]
  /\ x.has \subseteq 0 .. 7
  /\ x.raw = [k \in Plain |-> x.raw[k]]
  /\ \A k \in Plain : InteractionBit[k] \notin x.has => x.raw[k] = Default(InteractionRead[k])
  /\ x.list \in [{10, 11} -> Seq(Elements)]

\* An object and the inner objects it holds on heap hp.
Sound(x, hp) ==
  /\ WellFormed(x)
  /\ x.sub \in [Inner -> Handles \cup {NULL}]
  /\ \A n \in Inner : x.sub[n] # NULL => hp[x.sub[n]] \in Good(n)
  /\ \A n \in Inner : InteractionBit[n] \in x.has => x.sub[n] # NULL
  /\ \A n \in Inner : x.sub[n] # NULL /\ InteractionBit[n] \notin x.has => hp[x.sub[n]] = NewInfo(n)
  /\ \A m, n \in Inner : x.sub[m] = x.sub[n] /\ x.sub[m] # NULL => m = n

HeapShape(hp) == hp = [h \in Handles |-> hp[h]]

\* No two objects hold one inner object.
Apart == \A o, q \in Objects : o # q => Slots(obj[o]) \cap Slots(obj[q]) = {}

\* What the program owns is an inner object that no field points to.
LooseIsSound ==
  /\ ptr \in [h : Handles \cup {NULL}, n : Subs \cup {NULL}, own : BOOLEAN]
  /\ ptr.h # NULL => ptr.n \in Subs
  /\ ptr.own => /\ ptr.h # NULL /\ heap[ptr.h] \in Good(ptr.n)
                /\ \A o \in Objects : ptr.h \notin Slots(obj[o])

NoLeak == \A h \in Handles : heap[h] # Freed =>
             (ptr.own /\ ptr.h = h) \/ \E o \in Objects : h \in Slots(obj[o])

ObjectsInv == /\ obj = [o \in Objects |-> obj[o]] /\ HeapShape(heap)
              /\ \A o \in Objects : Sound(obj[o], heap)
              /\ Apart /\ LooseIsSound /\ NoLeak

-----------------------------------------------------------------------------
\* The message that object x stands for on heap hp, field by field.
Has(x) == {k \in Plain \cup Inner : InteractionBit[k] \in x.has} \cup {n \in {10, 11} : x.list[n] # <<>>}

FieldOf(x, hp, n) ==
  IF n \in Plain THEN x.raw[n] ELSE IF n \in Inner THEN InfoView(n, hp[x.sub[n]]) ELSE x.list[n]

MessageOf(x, hp) == [f |-> [n \in Has(x) |-> FieldOf(x, hp, n)], unknown |-> <<>>]

\* View, with the heap as an argument.
ViewOn(x, hp) ==
  LET scalars == {k \in {1, 4, 7, 9} : InteractionBit[k] \in x.has}
      inner == {n \in {2, 3, 5, 6} : InteractionBit[n] \in x.has}
      lists == {n \in {10, 11} : x.list[n] # <<>>}
  IN  [f |-> [n \in scalars \cup inner \cup lists |->
                 CASE n \in scalars -> x.raw[n]
                   [] n \in inner -> InfoView(n, hp[x.sub[n]])
                   [] n \in lists -> x.list[n]],
       unknown |-> <<>>]

\* What the getters read of an object is its message.
LEMMA ViewIsMessage ==
    ASSUME NEW x, NEW hp
    PROVE  ViewOn(x, hp) = MessageOf(x, hp)
<1> DEFINE scalars == {k \in {1, 4, 7, 9} : InteractionBit[k] \in x.has}
           inner == {n \in {2, 3, 5, 6} : InteractionBit[n] \in x.has}
           lists == {n \in {10, 11} : x.list[n] # <<>>}
           g == [n \in scalars \cup inner \cup lists |->
                   CASE n \in scalars -> x.raw[n]
                     [] n \in inner -> InfoView(n, hp[x.sub[n]])
                     [] n \in lists -> x.list[n]]
<1>1. ViewOn(x, hp) = [f |-> g, unknown |-> <<>>]
  BY DEF ViewOn
<1>2. scalars \cup inner \cup lists = Has(x)
  BY DEF Has, Plain, Inner
<1>3. \A n : /\ n \in scalars => n \in Plain
             /\ n \in inner => n \notin Plain /\ n \in Inner /\ n \notin scalars
             /\ n \in lists => n \notin Plain /\ n \notin Inner /\ n \notin scalars /\ n \notin inner
  BY DEF Plain, Inner
<1>4. \A n \in Has(x) : (n \in scalars \/ n \in inner \/ n \in lists)
  BY <1>2
<1> HIDE DEF scalars, inner, lists
<1>5. \A n \in Has(x) : g[n] = FieldOf(x, hp, n)
  BY <1>2, <1>3, <1>4 DEF FieldOf
<1>6. g = [n \in Has(x) |-> FieldOf(x, hp, n)]
  BY <1>2, <1>5
<1> QED BY <1>1, <1>6 DEF MessageOf

\* If only field n is set or changes, the message gets it.
LEMMA MessageSet ==
    ASSUME NEW x, NEW hp, NEW y, NEW hq, NEW n, Has(y) = Has(x) \cup {n},
           \A k \in Has(x) : k # n => FieldOf(y, hq, k) = FieldOf(x, hp, k)
    PROVE  MessageOf(y, hq) = SetField(MessageOf(x, hp), n, FieldOf(y, hq, n))
<1> PICK g : g = [k \in Has(x) |-> FieldOf(x, hp, k)]
  OBVIOUS
<1>1. DOMAIN g = Has(x) /\ MessageOf(x, hp) = [f |-> g, unknown |-> <<>>]
  BY DEF MessageOf
<1> PICK v : v = FieldOf(y, hq, n)
  OBVIOUS
<1>2. SetField([f |-> g, unknown |-> <<>>], n, v)
         = [f |-> Put(g, n, v), unknown |-> <<>>]
  BY ONLY SetFieldIs
<1>3. Put(g, n, v)
         = [k \in Has(y) |-> FieldOf(y, hq, k)]
  BY <1>1 DEF Put
<1> QED BY <1>1, <1>2, <1>3 DEF MessageOf

\* If only field n goes, the message loses it.
LEMMA MessageUnset ==
    ASSUME NEW x, NEW hp, NEW y, NEW hq, NEW n, Has(y) = Has(x) \ {n},
           \A k \in Has(x) : k # n => FieldOf(y, hq, k) = FieldOf(x, hp, k)
    PROVE  MessageOf(y, hq) = Values!Absent(MessageOf(x, hp), n)
<1> PICK g : g = [k \in Has(x) |-> FieldOf(x, hp, k)]
  OBVIOUS
<1>1. DOMAIN g = Has(x) /\ MessageOf(x, hp) = [f |-> g, unknown |-> <<>>]
  BY DEF MessageOf
<1>2. Values!Absent(MessageOf(x, hp), n) = [f |-> [k \in Has(x) \ {n} |-> g[k]], unknown |-> <<>>]
  BY <1>1 DEF Values!Absent
<1>3. [k \in Has(x) \ {n} |-> g[k]] = [k \in Has(y) |-> FieldOf(y, hq, k)]
  OBVIOUS
<1> QED BY <1>2, <1>3 DEF MessageOf

\* If no field changes, the message is the same.
LEMMA MessageSame ==
    ASSUME NEW x, NEW hp, NEW y, NEW hq, Has(y) = Has(x),
           \A k \in Has(x) : FieldOf(y, hq, k) = FieldOf(x, hp, k)
    PROVE  MessageOf(y, hq) = MessageOf(x, hp)
<1>1. [k \in Has(x) |-> FieldOf(x, hp, k)] = [k \in Has(y) |-> FieldOf(y, hq, k)]
  OBVIOUS
<1> QED BY <1>1 DEF MessageOf

\* An object without fields stands for the empty message.
LEMMA MessageEmpty ==
    ASSUME NEW x, NEW hp, Has(x) = {}
    PROVE  MessageOf(x, hp) = Empty
<1>1. [k \in Has(x) |-> FieldOf(x, hp, k)] = <<>>
  OBVIOUS
<1> QED BY <1>1 DEF MessageOf, Empty

\* The parts of a message of an object.
LEMMA MessageParts ==
    ASSUME NEW x, NEW hp
    PROVE  /\ MessageOf(x, hp).f = [n \in Has(x) |-> FieldOf(x, hp, n)]
           /\ MessageOf(x, hp).unknown = <<>>
           /\ \A n : Present(MessageOf(x, hp), n) <=> n \in Has(x)
           /\ \A n \in Has(x) : MessageOf(x, hp).f[n] = FieldOf(x, hp, n)
BY DEF MessageOf, Present

-----------------------------------------------------------------------------
\* The fields of the inner classes, field by field of the outer one.
LEMMA ClassesRead ==
    /\ InfoRead(2) = TerminalInfoRead /\ InfoRead(5) = BaseStationInfoRead
    /\ InfoRead(6) = BaseCommandInfoRead /\ InfoRead(3) = TermCommandInfoRead
<1>1. interaction.class = [n \in {2, 3, 5, 6, 10, 11} |->
                   CASE n \in {2, 10} -> TerminalInfo
                     [] n \in {5, 11} -> BaseStationInfo
                     [] n = 3 -> TermCommandInfo
                     [] n = 6 -> BaseCommandInfo]
  BY DEF interaction, Interaction
<1>2. /\ interaction.class[2] = TerminalInfo /\ interaction.class[5] = BaseStationInfo
      /\ interaction.class[6] = BaseCommandInfo /\ interaction.class[3] = TermCommandInfo
  BY <1>1
<1> QED BY <1>2 DEF InfoRead, TerminalInfo, BaseStationInfo, BaseCommandInfo, TermCommandInfo

\* The numbers of these fields.
LEMMA ClassesHave ==
    /\ DOMAIN InfoRead(2) = 1 .. 9 /\ DOMAIN InfoRead(5) = 1 .. 9
    /\ DOMAIN InfoRead(6) = 1 .. 4 /\ DOMAIN InfoRead(3) = 1 .. 4
BY ClassesRead DEF TerminalInfoRead, BaseStationInfoRead, BaseCommandInfoRead, TermCommandInfoRead

\* The has-bit of a field and the place of the field in the order of the bits.
LEMMA BitsAreOrdered ==
    ASSUME NEW n \in Inner, NEW k \in DOMAIN InfoRead(n)
    PROVE  InfoBit(n)[k] \in 0 .. 8 /\ InfoMerged(n)[InfoBit(n)[k] + 1] = k
<1>1. CASE n = 2
  <2>1. k \in 1 .. 9
    BY <1>1, ClassesHave
  <2>2. InfoBit(n) = TerminalInfoBit /\ InfoMerged(n) = TerminalInfoMerged
    BY <1>1 DEF InfoBit, InfoMerged
  <2>3. TerminalInfoBit[k] = IF k <= 7 THEN k - 1 ELSE IF k = 8 THEN 8 ELSE 7
    BY <2>1 DEF TerminalInfoBit
  <2>4. k \in {1, 2, 3, 4, 5, 6, 7, 8, 9}
    BY <2>1
  <2> QED BY <2>2, <2>3, <2>4 DEF TerminalInfoMerged
<1>2. CASE n = 5
  <2>1. k \in {1, 2, 3, 4, 5, 6, 7, 8, 9}
    BY <1>2, ClassesHave
  <2>2. InfoBit(n) = BaseStationInfoBit /\ InfoMerged(n) = BaseStationInfoMerged
    BY <1>2 DEF InfoBit, InfoMerged
  <2>3. BaseStationInfoBit[k] = IF k = 1 THEN 0 ELSE IF k \in {4, 5, 6} THEN k - 3 ELSE IF k = 9 THEN 4
                                ELSE IF k \in {2, 3} THEN k + 3 ELSE k
    BY <2>1 DEF BaseStationInfoBit
  <2> QED BY <2>1, <2>2, <2>3 DEF BaseStationInfoMerged
<1>3. CASE n = 6
  <2>1. k \in {1, 2, 3, 4}
    BY <1>3, ClassesHave
  <2>2. InfoBit(n) = BaseCommandInfoBit /\ InfoMerged(n) = BaseCommandInfoMerged
    BY <1>3 DEF InfoBit, InfoMerged
  <2> QED BY <2>1, <2>2 DEF BaseCommandInfoMerged, BaseCommandInfoBit
<1>4. CASE n = 3
  <2>1. k \in {1, 2, 3, 4}
    BY <1>4, ClassesHave
  <2>2. InfoBit(n) = TermCommandInfoBit /\ InfoMerged(n) = TermCommandInfoMerged
    BY <1>4 DEF InfoBit, InfoMerged
  <2> QED BY <2>1, <2>2 DEF TermCommandInfoMerged, TermCommandInfoBit
<1> QED BY <1>1, <1>2, <1>3, <1>4 DEF Inner

\* The fields in the order of the bits are those whose bit is set.
LEMMA FlaggedAreSet ==
    ASSUME NEW n \in Inner, NEW x, x.has \subseteq {InfoBit(n)[k] : k \in DOMAIN InfoRead(n)}
    PROVE  Flagged(x, InfoMerged(n), 8) = {k \in DOMAIN InfoRead(n) : InfoBit(n)[k] \in x.has}
<1>1. ASSUME NEW b \in x.has \cap 0 .. 8
      PROVE  /\ InfoMerged(n)[b + 1] \in DOMAIN InfoRead(n)
             /\ InfoBit(n)[InfoMerged(n)[b + 1]] = b
  BY BitsAreOrdered
<1>2. ASSUME NEW k \in DOMAIN InfoRead(n), InfoBit(n)[k] \in x.has
      PROVE  \E b \in x.has \cap 0 .. 8 : k = InfoMerged(n)[b + 1]
  BY <1>2, BitsAreOrdered
<1> QED BY <1>1, <1>2 DEF Flagged

\* No two fields of an inner class share a has-bit.
LEMMA BitsAreDistinct ==
    ASSUME NEW n \in Inner, NEW j \in DOMAIN InfoRead(n), NEW k \in DOMAIN InfoRead(n),
           InfoBit(n)[j] = InfoBit(n)[k]
    PROVE  j = k
BY BitsAreOrdered

-----------------------------------------------------------------------------
\* What set_ is called with, and the default, are contents of a field.
LEMMA SamplesAreContents ==
    ASSUME NEW kind
    PROVE  Default(kind) \in Contents /\ Samples(kind) \subseteq Contents
<1>1. <<>> \in Seq(Nat) /\ <<1>> \in Seq(Nat)
  OBVIOUS
<1>2. <<>> \in Contents /\ <<1>> \in Contents /\ 0 \in Contents /\ 1 \in Contents
  BY <1>1 DEF Contents
<1>3. CASE kind = "string"
  BY <1>2, <1>3 DEF Default, Samples
<1>4. CASE kind # "string"
  BY <1>2, <1>4 DEF Default, Samples
<1> QED BY <1>3, <1>4

\* What a good inner object consists of.
LEMMA GoodParts ==
    ASSUME NEW n \in Inner, NEW x \in Good(n)
    PROVE  /\ x = [has |-> x.has, raw |-> x.raw] /\ x.has \subseteq 0 .. 8
           /\ x.has \subseteq {InfoBit(n)[k] : k \in DOMAIN InfoRead(n)}
           /\ x.raw \in [DOMAIN InfoRead(n) -> Contents]
           /\ \A k \in DOMAIN InfoRead(n) :
                 InfoBit(n)[k] \notin x.has => x.raw[k] = Default(InfoRead(n)[k])
           /\ x # Freed
BY InfosAssumption DEF Good, Infos, Contents, Inner

\* How a good inner object is made.
LEMMA MadeGood ==
    ASSUME NEW n \in Inner, NEW has, NEW raw, has \subseteq {InfoBit(n)[k] : k \in DOMAIN InfoRead(n)},
           raw \in [DOMAIN InfoRead(n) -> Contents],
           \A k \in DOMAIN InfoRead(n) : InfoBit(n)[k] \notin has => raw[k] = Default(InfoRead(n)[k])
    PROVE  [has |-> has, raw |-> raw] \in Good(n)
<1>1. has \in SUBSET (0 .. 8)
  BY BitsAreOrdered
<1>2. [has |-> has, raw |-> raw] \in Infos(n)
  BY <1>1 DEF Infos, Contents
<1> QED BY <1>2 DEF Good

\* A new inner object is good.
LEMMA NewIsGood ==
    ASSUME NEW n \in Inner
    PROVE  NewInfo(n) \in Good(n)
<1> PICK raw : raw = [k \in DOMAIN InfoRead(n) |-> Default(InfoRead(n)[k])]
  OBVIOUS
<1>1. raw \in [DOMAIN InfoRead(n) -> Contents] /\ \A k \in DOMAIN InfoRead(n) : raw[k] = Default(InfoRead(n)[k])
  BY SamplesAreContents
<1>2. [has |-> {}, raw |-> raw] \in Good(n)
  BY <1>1, MadeGood
<1> QED BY <1>2 DEF NewInfo

\* Clearing the fields whose bit is set, and perhaps others, makes it as new.
LEMMA ResetIsNew ==
    ASSUME NEW n \in Inner, NEW x \in Good(n), NEW K,
           \A k \in DOMAIN InfoRead(n) : InfoBit(n)[k] \in x.has => k \in K
    PROVE  Reset(x, n, K) = NewInfo(n)
<1>1. /\ DOMAIN x.raw = DOMAIN InfoRead(n)
      /\ \A k \in DOMAIN InfoRead(n) : k \notin K => x.raw[k] = Default(InfoRead(n)[k])
  BY GoodParts
<1>2. [k \in DOMAIN x.raw |-> IF k \in K THEN Default(InfoRead(n)[k]) ELSE x.raw[k]]
         = [k \in DOMAIN InfoRead(n) |-> Default(InfoRead(n)[k])]
  BY <1>1
<1> QED BY <1>2 DEF Reset, NewInfo

\* Up to the last bit the four classes look at, one by one.
LEMMA FlaggedUpTo ==
    ASSUME NEW n \in Inner, NEW x \in Good(n), NEW k \in DOMAIN InfoRead(n), NEW last \in Nat,
           InfoBit(n)[k] \in x.has, InfoBit(n)[k] <= last
    PROVE  k \in Flagged(x, InfoMerged(n), last)
<1>1. InfoBit(n)[k] \in x.has \cap 0 .. last /\ InfoMerged(n)[InfoBit(n)[k] + 1] = k
  BY BitsAreOrdered
<1> QED BY <1>1 DEF Flagged

\* What clear_ of an inner message leaves is as good as new.
LEMMA ClearedIsNew ==
    ASSUME NEW n \in Inner, NEW x \in Good(n)
    PROVE  InfoClear(n, x) = NewInfo(n)
<1>1. CASE n = 2
  <2> DEFINE K == Flagged(x, TerminalInfoMerged, 7) \cup {8}
  <2>1. ASSUME NEW k \in DOMAIN InfoRead(n), InfoBit(n)[k] \in x.has PROVE k \in K
    <3>1. k \in 1 .. 9 /\ InfoBit(n) = TerminalInfoBit /\ InfoMerged(n) = TerminalInfoMerged
      BY <1>1, ClassesHave DEF InfoBit, InfoMerged
    <3>2. k # 8 => TerminalInfoBit[k] <= 7
      BY <3>1 DEF TerminalInfoBit
    <3> QED BY <2>1, <3>1, <3>2, FlaggedUpTo
  <2> HIDE DEF K
  <2>2. Reset(x, 2, K) = NewInfo(n)
    BY <1>1, <2>1, ResetIsNew
  <2>3. InfoClear(n, x) = TerminalInfoClear(x)
    BY <1>1 DEF InfoClear
  <2> QED BY <2>2, <2>3 DEF TerminalInfoClear, K
<1>2. CASE n = 5
  <2> DEFINE K == Flagged(x, BaseStationInfoMerged, 4) \cup {8}
                  \cup (IF x.has \cap {5, 6, 7} # {} THEN {2, 3, 7} ELSE {})
  <2>1. ASSUME NEW k \in DOMAIN InfoRead(n), InfoBit(n)[k] \in x.has PROVE k \in K
    <3>1. k \in 1 .. 9 /\ InfoBit(n) = BaseStationInfoBit /\ InfoMerged(n) = BaseStationInfoMerged
      BY <1>2, ClassesHave DEF InfoBit, InfoMerged
    <3>2. CASE k \in {1, 4, 5, 6, 9}
      <4>1. BaseStationInfoBit[k] <= 4
        BY <3>2 DEF BaseStationInfoBit
      <4> QED BY <2>1, <3>1, <4>1, FlaggedUpTo
    <3>3. CASE k \in {2, 3, 7}
      <4>1. BaseStationInfoBit[k] \in {5, 6, 7}
        BY <3>3 DEF BaseStationInfoBit
      <4> QED BY <2>1, <3>1, <3>3, <4>1
    <3> QED BY <3>1, <3>2, <3>3
  <2> HIDE DEF K
  <2>2. Reset(x, 5, K) = NewInfo(n)
    BY <1>2, <2>1, ResetIsNew
  <2>3. InfoClear(n, x) = BaseStationInfoClear(x)
    BY <1>2 DEF InfoClear
  <2> QED BY <2>2, <2>3 DEF BaseStationInfoClear, K
<1>3. CASE n = 6
  <2> DEFINE K == Flagged(x, BaseCommandInfoMerged, 2) \cup {1}
  <2>1. ASSUME NEW k \in DOMAIN InfoRead(n), InfoBit(n)[k] \in x.has PROVE k \in K
    <3>1. k \in 1 .. 4 /\ InfoBit(n) = BaseCommandInfoBit /\ InfoMerged(n) = BaseCommandInfoMerged
      BY <1>3, ClassesHave DEF InfoBit, InfoMerged
    <3>2. k # 1 => BaseCommandInfoBit[k] <= 2
      BY <3>1 DEF BaseCommandInfoBit
    <3> QED BY <2>1, <3>1, <3>2, FlaggedUpTo
  <2> HIDE DEF K
  <2>2. Reset(x, 6, K) = NewInfo(n)
    BY <1>3, <2>1, ResetIsNew
  <2>3. InfoClear(n, x) = BaseCommandInfoClear(x)
    BY <1>3 DEF InfoClear
  <2> QED BY <2>2, <2>3 DEF BaseCommandInfoClear, K
<1>4. CASE n = 3
  <2> DEFINE K == Flagged(x, TermCommandInfoMerged, 2) \cup {1}
  <2>1. ASSUME NEW k \in DOMAIN InfoRead(n), InfoBit(n)[k] \in x.has PROVE k \in K
    <3>1. k \in 1 .. 4 /\ InfoBit(n) = TermCommandInfoBit /\ InfoMerged(n) = TermCommandInfoMerged
      BY <1>4, ClassesHave DEF InfoBit, InfoMerged
    <3>2. k # 1 => TermCommandInfoBit[k] <= 2
      BY <3>1 DEF TermCommandInfoBit
    <3> QED BY <2>1, <3>1, <3>2, FlaggedUpTo
  <2> HIDE DEF K
  <2>2. Reset(x, 3, K) = NewInfo(n)
    BY <1>4, <2>1, ResetIsNew
  <2>3. InfoClear(n, x) = TermCommandInfoClear(x)
    BY <1>4 DEF InfoClear
  <2> QED BY <2>2, <2>3 DEF TermCommandInfoClear, K
<1> QED BY <1>1, <1>2, <1>3, <1>4 DEF Inner

\* What set_ of an inner message makes of the bits and of the contents.
LEMMA SetRawIs ==
    ASSUME NEW a, NEW b, NEW bit, NEW k, NEW v
    PROVE  SetRaw([has |-> a, raw |-> b], bit, k, v)
              = [has |-> a \cup {bit}, raw |-> [b EXCEPT ![k] = v]]
<1> PICK x, y : x = [has |-> a, raw |-> b] /\ y = SetRaw(x, bit, k, v)
  OBVIOUS
<1>1. y = [has |-> y.has, raw |-> y.raw]
  BY DEF SetRaw
<1>2. y.has = a \cup {bit} /\ y.raw = [b EXCEPT ![k] = v]
  BY DEF SetRaw
<1> QED BY <1>1, <1>2

\* A set_ through a pointer, a merge and a copy make good objects of good ones.
LEMMA SetIsGood ==
    ASSUME NEW n \in Inner, NEW x \in Good(n), NEW k \in DOMAIN InfoRead(n),
           NEW v \in Samples(InfoRead(n)[k])
    PROVE  SetRaw(x, InfoBit(n)[k], k, v) \in Good(n)
<1> PICK has, raw : has = x.has \cup {InfoBit(n)[k]} /\ raw = [x.raw EXCEPT ![k] = v]
  OBVIOUS
<1>1. v \in Contents
  BY SamplesAreContents
<1>2. /\ raw \in [DOMAIN InfoRead(n) -> Contents]
      /\ \A j \in DOMAIN InfoRead(n) : j # k => raw[j] = x.raw[j]
  BY <1>1, GoodParts
<1>3. [has |-> has, raw |-> raw] \in Good(n)
  <2>1. has \subseteq {InfoBit(n)[j] : j \in DOMAIN InfoRead(n)}
    BY GoodParts
  <2>2. \A j \in DOMAIN InfoRead(n) : InfoBit(n)[j] \notin has => raw[j] = Default(InfoRead(n)[j])
    BY <1>2, GoodParts
  <2> QED BY <1>2, <2>1, <2>2, MadeGood
<1>4. SetRaw(x, InfoBit(n)[k], k, v) = [has |-> has, raw |-> raw]
  <2>1. x = [has |-> x.has, raw |-> x.raw]
    BY GoodParts
  <2> PICK a, b : x = [has |-> a, raw |-> b] /\ x.has = a /\ x.raw = b
    BY <2>1
  <2>2. SetRaw(x, InfoBit(n)[k], k, v) = [has |-> a \cup {InfoBit(n)[k]}, raw |-> [b EXCEPT ![k] = v]]
    BY ONLY SetRawIs, x = [has |-> a, raw |-> b]
  <2> QED BY <2>2
<1> QED BY <1>3, <1>4

\* The merge of two good inner objects is good.
LEMMA MergedIsGood ==
    ASSUME NEW n \in Inner, NEW x \in Good(n), NEW y \in Good(n)
    PROVE  InfoMergeFrom(n, x, y) \in Good(n)
<1> PICK D, taken : D = DOMAIN InfoRead(n) /\ taken = Flagged(y, InfoMerged(n), 8)
  OBVIOUS
<1>1. taken = {k \in D : InfoBit(n)[k] \in y.has}
  BY GoodParts, FlaggedAreSet
<1> PICK has, raw : /\ has = x.has \cup y.has
                    /\ raw = [k \in D |-> IF k \in taken THEN y.raw[k] ELSE x.raw[k]]
  OBVIOUS
<1>2. /\ x.raw \in [D -> Contents] /\ y.raw \in [D -> Contents]
      /\ \A k \in D : InfoBit(n)[k] \notin x.has => x.raw[k] = Default(InfoRead(n)[k])
  BY GoodParts
<1>3. raw \in [D -> Contents]
  BY <1>2
<1>4. \A k \in D : InfoBit(n)[k] \notin has => raw[k] = Default(InfoRead(n)[k])
  BY <1>1, <1>2
<1>5. has \subseteq {InfoBit(n)[k] : k \in D}
  BY GoodParts
<1>6. [has |-> has, raw |-> raw] \in Good(n)
  BY <1>3, <1>4, <1>5, MadeGood
<1>7. InfoMergeFrom(n, x, y) = [has |-> has, raw |-> raw]
  BY <1>2 DEF InfoMergeFrom
<1> QED BY <1>6, <1>7

\* The copy of a good inner object is good.
LEMMA CopiedIsGood ==
    ASSUME NEW n \in Inner, NEW y \in Good(n)
    PROVE  InfoCopy(n, y) \in Good(n)
<1> PICK D, taken : D = DOMAIN InfoRead(n) /\ taken = Flagged(y, InfoMerged(n), 8)
  OBVIOUS
<1>1. taken = {k \in D : InfoBit(n)[k] \in y.has}
  BY GoodParts, FlaggedAreSet
<1> PICK kept, raw : /\ kept = taken \cup {k \in D : InfoRead(n)[k] # "string"}
                     /\ raw = [k \in D |-> IF k \in kept THEN y.raw[k] ELSE <<>>]
  OBVIOUS
<1>2. /\ y.raw \in [D -> Contents] /\ <<>> \in Contents
      /\ \A k \in D : InfoBit(n)[k] \notin y.has => y.raw[k] = Default(InfoRead(n)[k])
  BY GoodParts DEF Contents
<1>3. raw \in [D -> Contents]
  BY <1>2
<1>4. \A k \in D : InfoBit(n)[k] \notin y.has => raw[k] = Default(InfoRead(n)[k])
  BY <1>1, <1>2 DEF Default
<1>5. y.has \subseteq {InfoBit(n)[k] : k \in D}
  BY GoodParts
<1>6. [has |-> y.has, raw |-> raw] \in Good(n)
  BY <1>3, <1>4, <1>5, MadeGood
<1>7. InfoCopy(n, y) = [has |-> y.has, raw |-> raw]
  BY <1>2 DEF InfoCopy
<1> QED BY <1>6, <1>7

-----------------------------------------------------------------------------
\* The message that an inner object stands for.
LEMMA InfoViewIs ==
    ASSUME NEW n \in Inner, NEW x \in Good(n)
    PROVE  InfoView(n, x) = [f |-> [k \in {j \in DOMAIN InfoRead(n) : InfoBit(n)[j] \in x.has} |-> x.raw[k]],
                             unknown |-> <<>>]
<1>1. DOMAIN x.raw = DOMAIN InfoRead(n)
  BY GoodParts
<1> QED BY <1>1 DEF InfoView

\* A good inner object stands for a message of its class.
LEMMA InfoViewIsView ==
    ASSUME NEW n \in Inner, NEW x \in Good(n)
    PROVE  InfoView(n, x) \in InfoViews
<1> PICK D, g : /\ D = {j \in DOMAIN InfoRead(n) : InfoBit(n)[j] \in x.has}
                /\ g = [k \in D |-> x.raw[k]]
  OBVIOUS
<1>1. DOMAIN InfoRead(n) \subseteq 1 .. 9
  BY ClassesHave DEF Inner
<1>2. x.raw \in [DOMAIN InfoRead(n) -> Contents]
  BY GoodParts
<1>3. D \in SUBSET (1 .. 9) /\ g \in [D -> Nat \cup Seq(Nat)]
  BY <1>1, <1>2 DEF Contents
<1>4. g \in UNION {[E -> Nat \cup Seq(Nat)] : E \in SUBSET (1 .. 9)}
  BY <1>3
<1>5. InfoView(n, x) = [f |-> g, unknown |-> <<>>]
  BY InfoViewIs
<1>6. \A F, e : e \in F => [f |-> e, unknown |-> <<>>] \in [f : F, unknown : {<<>>}]
  OBVIOUS
<1> QED BY <1>4, <1>5, <1>6 DEF InfoViews

\* A new inner object stands for the empty message.
LEMMA NewIsEmpty ==
    ASSUME NEW n \in Inner
    PROVE  InfoView(n, NewInfo(n)) = Empty
<1>1. NewInfo(n).has = {}
  BY DEF NewInfo
<1>2. [k \in {j \in DOMAIN InfoRead(n) : InfoBit(n)[j] \in NewInfo(n).has} |-> NewInfo(n).raw[k]] = <<>>
  BY <1>1
<1> QED BY <1>2, NewIsGood, InfoViewIs DEF Empty

\* set_ of an inner object sets the field of its message.
LEMMA SetIsSetField ==
    ASSUME NEW n \in Inner, NEW x \in Good(n), NEW k \in DOMAIN InfoRead(n), NEW v \in Samples(InfoRead(n)[k])
    PROVE  InfoView(n, SetRaw(x, InfoBit(n)[k], k, v)) = SetField(InfoView(n, x), k, v)
<1> PICK y : y = SetRaw(x, InfoBit(n)[k], k, v)
  OBVIOUS
<1>1. y \in Good(n)
  BY SetIsGood
<1>2. x = [has |-> x.has, raw |-> x.raw] /\ x.raw \in [DOMAIN InfoRead(n) -> Contents]
  BY GoodParts
<1>3. y.has = x.has \cup {InfoBit(n)[k]} /\ y.raw = [x.raw EXCEPT ![k] = v]
  BY <1>2 DEF SetRaw
<1> PICK D, g, E, h :
      /\ D = {j \in DOMAIN InfoRead(n) : InfoBit(n)[j] \in x.has} /\ g = [j \in D |-> x.raw[j]]
      /\ E = {j \in DOMAIN InfoRead(n) : InfoBit(n)[j] \in y.has} /\ h = [j \in E |-> y.raw[j]]
  OBVIOUS
<1>4. E = D \cup {k}
  BY <1>3, BitsAreDistinct
<1>5. h = Put(g, k, v)
  BY <1>2, <1>3, <1>4 DEF Put
<1>6. InfoView(n, x) = [f |-> g, unknown |-> <<>>]
  BY InfoViewIs
<1>7. InfoView(n, y) = [f |-> h, unknown |-> <<>>]
  BY <1>1, InfoViewIs
<1>8. SetField([f |-> g, unknown |-> <<>>], k, v) = [f |-> Put(g, k, v), unknown |-> <<>>]
  BY ONLY SetFieldIs
<1> QED BY <1>5, <1>6, <1>7, <1>8

\* MergeFrom of an inner class reaches all fields of the class.
LEMMA ClassMerges ==
    ASSUME NEW n \in Inner
    PROVE  interaction.class[n].merged = DOMAIN InfoRead(n) /\ interaction.class[n].read = InfoRead(n)
<1>1. interaction.class = [k \in {2, 3, 5, 6, 10, 11} |->
                   CASE k \in {2, 10} -> TerminalInfo
                     [] k \in {5, 11} -> BaseStationInfo
                     [] k = 3 -> TermCommandInfo
                     [] k = 6 -> BaseCommandInfo]
  BY DEF interaction, Interaction
<1>2. /\ interaction.class[2] = TerminalInfo /\ interaction.class[5] = BaseStationInfo
      /\ interaction.class[6] = BaseCommandInfo /\ interaction.class[3] = TermCommandInfo
  BY <1>1
<1>3. \A s : ToSet(s) = {s[i] : i \in DOMAIN s}
  BY DEF ToSet
<1>4. TerminalInfo.merged = 1 .. 9
  <2>1. ToSet(TerminalInfoMerged) = {1, 2, 3, 4, 5, 6, 7, 8, 9}
    BY <1>3 DEF TerminalInfoMerged
  <2> QED BY <2>1 DEF TerminalInfo
<1>5. BaseStationInfo.merged = 1 .. 9
  <2>1. ToSet(BaseStationInfoMerged) = {1, 2, 3, 4, 5, 6, 7, 8, 9}
    BY <1>3 DEF BaseStationInfoMerged
  <2> QED BY <2>1 DEF BaseStationInfo
<1>6. BaseCommandInfo.merged = 1 .. 4
  <2>1. ToSet(BaseCommandInfoMerged) = {1, 2, 3, 4}
    BY <1>3 DEF BaseCommandInfoMerged
  <2> QED BY <2>1 DEF BaseCommandInfo
<1>7. TermCommandInfo.merged = 1 .. 4
  <2>1. ToSet(TermCommandInfoMerged) = {1, 2, 3, 4}
    BY <1>3 DEF TermCommandInfoMerged
  <2> QED BY <2>1 DEF TermCommandInfo
<1> QED BY <1>2, <1>4, <1>5, <1>6, <1>7, ClassesHave DEF Inner, InfoRead

\* MergeFrom of inner objects merges their messages.
LEMMA MergedIsMerge ==
    ASSUME NEW n \in Inner, NEW x \in Good(n), NEW y \in Good(n)
    PROVE  InfoView(n, InfoMergeFrom(n, x, y)) = MergeInfo(interaction.class[n], InfoView(n, x), InfoView(n, y))
<1> PICK D, z : D = DOMAIN InfoRead(n) /\ z = InfoMergeFrom(n, x, y)
  OBVIOUS
<1> PICK X, Y, g, h :
      /\ X = {k \in D : InfoBit(n)[k] \in x.has} /\ g = [k \in X |-> x.raw[k]]
      /\ Y = {k \in D : InfoBit(n)[k] \in y.has} /\ h = [k \in Y |-> y.raw[k]]
  OBVIOUS
<1>1. InfoView(n, x) = [f |-> g, unknown |-> <<>>] /\ InfoView(n, y) = [f |-> h, unknown |-> <<>>]
  BY InfoViewIs
<1>2. z \in Good(n) /\ DOMAIN x.raw = D
  BY MergedIsGood, GoodParts
<1>3. Flagged(y, InfoMerged(n), 8) = Y
  BY GoodParts, FlaggedAreSet
<1>4. z.has = x.has \cup y.has /\ z.raw = [k \in D |-> IF k \in Y THEN y.raw[k] ELSE x.raw[k]]
  BY <1>2, <1>3 DEF InfoMergeFrom
<1>5. [k \in {j \in D : InfoBit(n)[j] \in z.has} |-> z.raw[k]]
         = [k \in DOMAIN g \cup Y |-> IF k \in Y THEN h[k] ELSE g[k]]
  BY <1>4
<1>6. InfoView(n, z) = [f |-> [k \in {j \in D : InfoBit(n)[j] \in z.has} |-> z.raw[k]], unknown |-> <<>>]
  BY <1>2, InfoViewIs
<1>7. interaction.class[n].merged \cap DOMAIN h = Y
  BY ClassMerges
<1>8. MergeInfo(interaction.class[n], [f |-> g, unknown |-> <<>>], [f |-> h, unknown |-> <<>>])
         = [f |-> [k \in DOMAIN g \cup Y |-> IF k \in Y THEN h[k] ELSE g[k]], unknown |-> <<>> \o <<>>]
  BY <1>7 DEF MergeInfo
<1>9. <<>> \o <<>> = <<>>
  OBVIOUS
<1> QED BY <1>1, <1>5, <1>6, <1>8, <1>9

\* Merging into an empty inner message is copying.
LEMMA MergedIntoEmpty ==
    ASSUME NEW n \in Inner, NEW y \in Good(n)
    PROVE  MergeInfo(interaction.class[n], Empty, InfoView(n, y)) = InfoView(n, y)
<1> PICK D, Y, h : D = DOMAIN InfoRead(n) /\ Y = {k \in D : InfoBit(n)[k] \in y.has} /\ h = [k \in Y |-> y.raw[k]]
  OBVIOUS
<1>1. InfoView(n, y) = [f |-> h, unknown |-> <<>>]
  BY InfoViewIs
<1>2. interaction.class[n].merged \cap DOMAIN h = Y
  BY ClassMerges
<1>3. Empty.f = <<>> /\ Empty.unknown = <<>> /\ DOMAIN <<>> = {} /\ <<>> \o <<>> = <<>>
  BY DEF Empty
<1>4. MergeInfo(interaction.class[n], Empty, [f |-> h, unknown |-> <<>>])
         = [f |-> [k \in {} \cup Y |-> IF k \in Y THEN h[k] ELSE Empty.f[k]], unknown |-> <<>>]
  BY <1>2, <1>3 DEF MergeInfo
<1>5. [k \in {} \cup Y |-> IF k \in Y THEN h[k] ELSE Empty.f[k]] = h
  OBVIOUS
<1> QED BY <1>1, <1>4, <1>5

\* A copied inner object stands for the same message.
LEMMA CopiedIsSame ==
    ASSUME NEW n \in Inner, NEW y \in Good(n)
    PROVE  InfoView(n, InfoCopy(n, y)) = InfoView(n, y)
<1> PICK D, z, Y : D = DOMAIN InfoRead(n) /\ z = InfoCopy(n, y) /\ Y = {k \in D : InfoBit(n)[k] \in y.has}
  OBVIOUS
<1>1. z \in Good(n) /\ DOMAIN y.raw = D
  BY CopiedIsGood, GoodParts
<1>2. Flagged(y, InfoMerged(n), 8) = Y
  BY GoodParts, FlaggedAreSet
<1>3. z.has = y.has /\ \A k \in Y : z.raw[k] = y.raw[k]
  BY <1>1, <1>2 DEF InfoCopy
<1>4. [k \in {j \in D : InfoBit(n)[j] \in z.has} |-> z.raw[k]] = [k \in Y |-> y.raw[k]]
  BY <1>3
<1>5. InfoView(n, z) = [f |-> [k \in {j \in D : InfoBit(n)[j] \in z.has} |-> z.raw[k]], unknown |-> <<>>]
  BY <1>1, InfoViewIs
<1>6. InfoView(n, y) = [f |-> [k \in Y |-> y.raw[k]], unknown |-> <<>>]
  BY InfoViewIs
<1> QED BY <1>4, <1>5, <1>6

-----------------------------------------------------------------------------
\* The has-bits of class interaction.
LEMMA BitNumbers ==
    /\ InteractionBit[1] = 5 /\ InteractionBit[2] = 1 /\ InteractionBit[3] = 2 /\ InteractionBit[4] = 6
    /\ InteractionBit[5] = 3 /\ InteractionBit[6] = 4 /\ InteractionBit[7] = 7 /\ InteractionBit[9] = 0
<1>1. \A k \in Plain \cup Inner :
         InteractionBit[k] = CASE k = 1 -> 5 [] k \in {2, 3} -> k - 1 [] k = 4 -> 6
                               [] k \in {5, 6} -> k - 2 [] k = 7 -> 7 [] k = 9 -> 0
  <2>1. InteractionRequired \cup {2, 3, 4, 5, 6, 7, 9} = Plain \cup Inner
    BY DEF InteractionRequired, Plain, Inner
  <2> QED BY <2>1 DEF InteractionBit
<1> QED BY <1>1 DEF Plain, Inner

\* The order in which the masks go through the fields is that of the has-bits.
LEMMA InteractionBits ==
    /\ \A k \in Plain \cup Inner : InteractionBit[k] \in 0 .. 7 /\ InteractionMerged[InteractionBit[k] + 1] = k
    /\ \A b \in 0 .. 7 : /\ InteractionMerged[b + 1] \in Plain \cup Inner
                         /\ InteractionBit[InteractionMerged[b + 1]] = b
<1>3. /\ InteractionMerged[1] = 9 /\ InteractionMerged[2] = 2 /\ InteractionMerged[3] = 3
      /\ InteractionMerged[4] = 5 /\ InteractionMerged[5] = 6 /\ InteractionMerged[6] = 1
      /\ InteractionMerged[7] = 4 /\ InteractionMerged[8] = 7
  BY DEF InteractionMerged
<1>4. \A k \in Plain \cup Inner : InteractionBit[k] \in 0 .. 7 /\ InteractionMerged[InteractionBit[k] + 1] = k
  BY BitNumbers, <1>3 DEF Plain, Inner
<1>5. \A b \in 0 .. 7 : /\ InteractionMerged[b + 1] \in Plain \cup Inner
                        /\ InteractionBit[InteractionMerged[b + 1]] = b
  <2> SUFFICES ASSUME NEW b \in {0, 1, 2, 3, 4, 5, 6, 7}
               PROVE  InteractionMerged[b + 1] \in Plain \cup Inner /\ InteractionBit[InteractionMerged[b + 1]] = b
    OBVIOUS
  <2> QED BY BitNumbers, <1>3 DEF Plain, Inner
<1> QED BY <1>4, <1>5

\* No two fields of class interaction share a has-bit.
LEMMA InteractionBitsAreDistinct ==
    \A j, k \in Plain \cup Inner : InteractionBit[j] = InteractionBit[k] => j = k
BY InteractionBits

\* The fields whose bit is set in y.
LEMMA TakenAreSet ==
    ASSUME NEW y, y.has \subseteq 0 .. 7
    PROVE  /\ Flagged(y, InteractionMerged, 7) = {k \in Plain \cup Inner : InteractionBit[k] \in y.has}
           /\ Taken(y) = {n \in Inner : InteractionBit[n] \in y.has}
<1>1. Flagged(y, InteractionMerged, 7) = {k \in Plain \cup Inner : InteractionBit[k] \in y.has}
  <2>1. ASSUME NEW k \in Flagged(y, InteractionMerged, 7)
        PROVE  k \in Plain \cup Inner /\ InteractionBit[k] \in y.has
    <3> PICK b \in y.has \cap 0 .. 7 : k = InteractionMerged[b + 1]
      BY DEF Flagged
    <3> QED BY InteractionBits
  <2>2. ASSUME NEW k \in Plain \cup Inner, InteractionBit[k] \in y.has
        PROVE  k \in Flagged(y, InteractionMerged, 7)
    <3>1. InteractionBit[k] \in y.has \cap 0 .. 7 /\ InteractionMerged[InteractionBit[k] + 1] = k
      BY <2>2, InteractionBits
    <3> QED BY <3>1 DEF Flagged
  <2> QED BY <2>1, <2>2
<1> QED BY <1>1 DEF Taken, Inner

\* The null pointer is no address.
LEMMA NullIsNoHandle == NULL \notin Handles
BY HandlesAssumption DEF NULL

\* The inner objects of a sound object are there, and of the right class.
LEMMA SlotsAreLive ==
    ASSUME NEW x, NEW hp, Sound(x, hp), NEW h \in Slots(x)
    PROVE  h \in Handles /\ hp[h] # Freed /\ \E n \in Inner : x.sub[n] = h /\ hp[h] \in Good(n)
<1> PICK n \in Inner : x.sub[n] = h /\ h # NULL
  BY DEF Slots
<1>1. x.sub[n] \in Handles \cup {NULL} /\ hp[h] \in Good(n)
  BY DEF Sound
<1> QED BY <1>1, GoodParts

\* An object is not concerned by what happens elsewhere on the heap.
LEMMA SoundElsewhere ==
    ASSUME NEW x, NEW hp, NEW hq, Sound(x, hp), \A h \in Slots(x) : hq[h] = hp[h]
    PROVE  Sound(x, hq)
<1>1. \A n \in Inner : x.sub[n] # NULL => hq[x.sub[n]] = hp[x.sub[n]]
  BY DEF Slots
<1> QED BY <1>1 DEF Sound

\* x on heap hp becomes y on heap hq: what x holds is kept or deleted, what
\* else y holds is new, and the rest of the heap stays as it is.
Becomes(x, hp, y, hq) ==
  /\ Sound(y, hq) /\ HeapShape(hq)
  /\ \A h \in Slots(y) : h \in Slots(x) \/ hp[h] = Freed
  /\ \A h \in Handles : h \notin Slots(x) /\ h \notin Slots(y) => hq[h] = hp[h]
  /\ \A h \in Slots(x) : h \notin Slots(y) => hq[h] = Freed

\* The pointer of the program may move, but is lost only when not owned.
PtrKept ==
  /\ ptr' \in [h : Handles \cup {NULL}, n : Subs \cup {NULL}, own : BOOLEAN]
  /\ ptr'.h # NULL => ptr'.n \in Subs
  /\ ptr.own => ptr' = ptr
  /\ ~ptr.own => ~ptr'.own

Changes(o, y) ==
  /\ obj' = [obj EXCEPT ![o] = y]
  /\ Becomes(obj[o], heap, y, heap')
  /\ PtrKept

\* A step of one object, in which the others and what the program owns keep
\* theirs, keeps the invariant.
LEMMA ObjectStep ==
    ASSUME ObjectsInv, NEW o \in Objects, NEW y, Changes(o, y)
    PROVE  ObjectsInv'
<1>a. /\ Sound(y, heap') /\ HeapShape(heap')
      /\ \A h \in Slots(y) : h \in Slots(obj[o]) \/ heap[h] = Freed
      /\ \A h \in Handles : h \notin Slots(obj[o]) /\ h \notin Slots(y) => heap'[h] = heap[h]
      /\ \A h \in Slots(obj[o]) : h \notin Slots(y) => heap'[h] = Freed
  BY DEF Becomes, Changes
<1>b. /\ ptr' \in [h : Handles \cup {NULL}, n : Subs \cup {NULL}, own : BOOLEAN]
      /\ ptr'.h # NULL => ptr'.n \in Subs
      /\ ptr.own => ptr' = ptr
      /\ ~ptr.own => ~ptr'.own
  BY DEF PtrKept, Changes
<1>1. /\ obj = [q \in Objects |-> obj[q]] /\ \A q \in Objects : Sound(obj[q], heap)
      /\ Apart /\ LooseIsSound /\ NoLeak
  BY DEF ObjectsInv
<1>2. obj' = [q \in Objects |-> obj'[q]] /\ obj'[o] = y /\ \A q \in Objects : q # o => obj'[q] = obj[q]
  BY <1>1 DEF Changes
<1>3. ASSUME NEW q \in Objects, q # o, NEW h \in Slots(obj[q])
      PROVE  h \in Handles /\ h \notin Slots(obj[o]) /\ h \notin Slots(y) /\ heap'[h] = heap[h]
  <2>1. h \in Handles /\ heap[h] # Freed
    BY <1>1, SlotsAreLive
  <2>2. h \notin Slots(obj[o])
    BY <1>1, <1>3 DEF Apart
  <2> QED BY <1>a, <2>1, <2>2
<1>4. \A q \in Objects : Sound(obj'[q], heap')
  <2> SUFFICES ASSUME NEW q \in Objects, q # o PROVE Sound(obj[q], heap')
    BY <1>2, <1>a
  <2> QED BY <1>1, <1>3, SoundElsewhere
<1>5. Apart'
  <2> SUFFICES ASSUME NEW p \in Objects, NEW q \in Objects, p # q PROVE Slots(obj'[p]) \cap Slots(obj'[q]) = {}
    BY DEF Apart
  <2>1. CASE p # o /\ q # o
    BY <1>1, <1>2, <2>1 DEF Apart
  <2>2. CASE p = o \/ q = o
    BY <1>2, <1>3, <2>2
  <2> QED BY <2>1, <2>2
<1>6. LooseIsSound'
  <2> SUFFICES ASSUME ptr'.own
               PROVE  /\ ptr'.h # NULL /\ heap'[ptr'.h] \in Good(ptr'.n)
                      /\ \A q \in Objects : ptr'.h \notin Slots(obj'[q])
    BY <1>b DEF LooseIsSound
  <2>1. ptr.own /\ ptr' = ptr
    <3>1. ptr.own \in BOOLEAN
      BY <1>1 DEF LooseIsSound
    <3> QED BY <1>b, <3>1
  <2>2. /\ ptr.h # NULL /\ ptr.h \in Handles /\ heap[ptr.h] \in Good(ptr.n) /\ ptr.n \in Inner
        /\ \A q \in Objects : ptr.h \notin Slots(obj[q])
    BY <1>1, <2>1, FieldsAssumption DEF LooseIsSound, Inner
  <2>3. heap[ptr.h] # Freed
    BY <2>2, GoodParts
  <2>4. ptr.h \notin Slots(y) /\ heap'[ptr.h] = heap[ptr.h]
    BY <1>a, <2>2, <2>3
  <2> QED BY <1>2, <2>1, <2>2, <2>4
<1>7. NoLeak'
  <2> SUFFICES ASSUME NEW h \in Handles, heap'[h] # Freed, h \notin Slots(y)
               PROVE  (ptr'.own /\ ptr'.h = h) \/ \E q \in Objects : h \in Slots(obj'[q])
    BY <1>2 DEF NoLeak
  <2>1. h \notin Slots(obj[o]) /\ heap'[h] = heap[h]
    BY <1>a
  <2>2. (ptr.own /\ ptr.h = h) \/ \E q \in Objects : h \in Slots(obj[q])
    BY <1>1, <2>1 DEF NoLeak
  <2> QED BY <1>2, <1>b, <2>1, <2>2
<1> QED BY <1>2, <1>a, <1>4, <1>5, <1>6, <1>7 DEF ObjectsInv

-----------------------------------------------------------------------------
\* The values of the objects and of what the program owns, as Values has them.
Val == [o \in Objects |-> View(obj[o])]

Loose == IF ptr.own THEN [n |-> ptr.n, info |-> InfoView(ptr.n, heap[ptr.h])] ELSE NoInfo

\* The values of all objects, before and after a step.
LEMMA ValIs ==
    /\ Val = [o \in Objects |-> MessageOf(obj[o], heap)]
    /\ Val' = [o \in Objects |-> MessageOf(obj'[o], heap')]
<1>1. \A o : View(obj[o]) = ViewOn(obj[o], heap)
  BY DEF View, ViewOn
<1>2. \A o : View(obj[o])' = ViewOn(obj'[o], heap')
  BY DEF View, ViewOn
<1> QED BY <1>1, <1>2, ViewIsMessage DEF Val

\* Nor does its message depend on the rest of the heap.
LEMMA MessageElsewhere ==
    ASSUME NEW x, NEW hp, NEW hq, Sound(x, hp), \A h \in Slots(x) : hq[h] = hp[h]
    PROVE  MessageOf(x, hq) = MessageOf(x, hp)
<1>1. \A n \in Has(x) : n \notin Plain /\ n \in Inner => x.sub[n] # NULL
  BY DEF Sound, Has, Inner
<1>2. \A n \in Inner : x.sub[n] # NULL => x.sub[n] \in Slots(x)
  BY DEF Slots
<1>3. \A n \in Has(x) : FieldOf(x, hq, n) = FieldOf(x, hp, n)
  BY <1>1, <1>2 DEF FieldOf
<1> QED BY <1>3, MessageSame

\* A step of one object changes its value and no other.
LEMMA ValStep ==
    ASSUME ObjectsInv, NEW o \in Objects, NEW y, Changes(o, y)
    PROVE  Val' = [Val EXCEPT ![o] = MessageOf(y, heap')] /\ Loose' = Loose
<1>1. /\ obj = [q \in Objects |-> obj[q]] /\ \A q \in Objects : Sound(obj[q], heap)
      /\ Apart /\ LooseIsSound
  BY DEF ObjectsInv
<1>2. /\ obj' = [obj EXCEPT ![o] = y]
      /\ \A h \in Slots(y) : h \in Slots(obj[o]) \/ heap[h] = Freed
      /\ \A h \in Handles : h \notin Slots(obj[o]) /\ h \notin Slots(y) => heap'[h] = heap[h]
      /\ ptr.own => ptr' = ptr
      /\ ~ptr.own => ~ptr'.own
  BY DEF Changes, Becomes, PtrKept
<1>3. obj'[o] = y /\ \A q \in Objects : q # o => obj'[q] = obj[q]
  BY <1>1, <1>2
<1>4. ASSUME NEW q \in Objects, q # o PROVE MessageOf(obj'[q], heap') = MessageOf(obj[q], heap)
  <2>1. ASSUME NEW h \in Slots(obj[q]) PROVE heap'[h] = heap[h]
    <3>1. h \in Handles /\ heap[h] # Freed
      BY <1>1, SlotsAreLive
    <3>2. h \notin Slots(obj[o])
      BY <1>1, <1>4 DEF Apart
    <3> QED BY <1>2, <3>1, <3>2
  <2>2. Sound(obj[q], heap)
    BY <1>1
  <2> QED BY <1>3, <1>4, <2>1, <2>2, MessageElsewhere
<1>5. Val' = [Val EXCEPT ![o] = MessageOf(y, heap')]
  BY <1>3, <1>4, ValIs
<1>6. CASE ptr.own
  <2>1. /\ ptr.h # NULL /\ ptr.h \in Handles /\ heap[ptr.h] \in Good(ptr.n) /\ ptr.n \in Inner
        /\ ptr.h \notin Slots(obj[o])
    BY <1>1, <1>6, FieldsAssumption DEF LooseIsSound, Inner
  <2>2. heap[ptr.h] # Freed
    BY <2>1, GoodParts
  <2>3. heap'[ptr.h] = heap[ptr.h]
    BY <1>2, <2>1, <2>2
  <2> QED BY <1>2, <1>5, <1>6, <2>3 DEF Loose
<1>7. CASE ~ptr.own
  BY <1>2, <1>5, <1>7 DEF Loose
<1> QED BY <1>6, <1>7

-----------------------------------------------------------------------------
\* The codec that InteractionValues extends is the codec of the objects.
LEMMA SameClasses == Values!interaction = interaction
<1>1. \A s : Values!ToSet(s) = ToSet(s)
  BY DEF ToSet, Values!ToSet
<1>2. Values!TerminalInfo = TerminalInfo
  BY <1>1 DEF TerminalInfo, TerminalInfoRead, TerminalInfoWritten, TerminalInfoSized, TerminalInfoMerged,
     TerminalInfoRequired, Values!TerminalInfo, Values!TerminalInfoRead, Values!TerminalInfoWritten,
     Values!TerminalInfoSized, Values!TerminalInfoMerged, Values!TerminalInfoRequired
<1>3. Values!BaseStationInfo = BaseStationInfo
  BY <1>1 DEF BaseStationInfo, BaseStationInfoRead, BaseStationInfoWritten, BaseStationInfoSized,
     BaseStationInfoMerged, BaseStationInfoRequired, Values!BaseStationInfo, Values!BaseStationInfoRead,
     Values!BaseStationInfoWritten, Values!BaseStationInfoSized, Values!BaseStationInfoMerged,
     Values!BaseStationInfoRequired
<1>4. Values!BaseCommandInfo = BaseCommandInfo
  BY <1>1 DEF BaseCommandInfo, BaseCommandInfoRead, BaseCommandInfoWritten, BaseCommandInfoSized,
     BaseCommandInfoMerged, Values!BaseCommandInfo, Values!BaseCommandInfoRead,
     Values!BaseCommandInfoWritten, Values!BaseCommandInfoSized, Values!BaseCommandInfoMerged
<1>5. Values!TermCommandInfo = TermCommandInfo
  BY <1>1 DEF TermCommandInfo, TermCommandInfoRead, TermCommandInfoWritten, TermCommandInfoSized,
     TermCommandInfoMerged, Values!TermCommandInfo, Values!TermCommandInfoRead,
     Values!TermCommandInfoWritten, Values!TermCommandInfoSized, Values!TermCommandInfoMerged
<1>6. \A t : Values!Interaction(t) = Interaction(t)
  BY <1>1, <1>3, <1>4, <1>5, SMTT(30) DEF Interaction, InteractionRead, InteractionWritten, InteractionSized,
     InteractionMerged, InteractionRequired, Values!Interaction, Values!InteractionRead,
     Values!InteractionWritten, Values!InteractionSized, Values!InteractionMerged, Values!InteractionRequired
<1> QED BY <1>2, <1>6 DEF interaction, Values!interaction

\* So are the operators that InteractionValues uses of it.
LEMMA SameCodec ==
    /\ Values!Empty = Empty
    /\ \A m, n, v : Values!SetField(m, n, v) = SetField(m, n, v)
    /\ \A m, n : Values!Present(m, n) <=> Present(m, n)
    /\ \A m, n : Values!SubOf(m, n) = SubOf(m, n) /\ Values!ListOf(m, n) = ListOf(m, n)
    /\ \A a, b : Values!Merge(interaction, a, b) = Merge(interaction, a, b)
    /\ \A n : Values!InfoClass(n) = interaction.class[n] /\ \A k : Values!InfoClass(n).read[k] = InfoRead(n)[k]
    /\ Values!interaction.read = InteractionRead
    /\ \A kind : Values!Samples(kind) = Samples(kind)
<1>1. Values!Empty = Empty
  BY DEF Empty, Values!Empty
<1>2. \A m, n, v : Values!SetField(m, n, v) = SetField(m, n, v)
  BY DEF SetField, Values!SetField
<1>3. \A m, n : Values!Present(m, n) <=> Present(m, n)
  BY DEF Present, Values!Present
<1>4. \A m, n : Values!SubOf(m, n) = SubOf(m, n) /\ Values!ListOf(m, n) = ListOf(m, n)
  BY <1>1, <1>3 DEF SubOf, ListOf, Values!SubOf, Values!ListOf
<1>5. \A c, a, b : Values!MergeInfo(c, a, b) = MergeInfo(c, a, b)
  BY DEF MergeInfo, Values!MergeInfo
<1>6. \A a, b : Values!Merge(interaction, a, b) = Merge(interaction, a, b)
  <2> SUFFICES ASSUME NEW a, NEW b PROVE Values!Merge(interaction, a, b) = Merge(interaction, a, b)
    OBVIOUS
  <2> DEFINE taken == interaction.merged \cap DOMAIN b.f
             mine(n) == CASE interaction.read[n] = "repeated" -> ListOf(a, n) \o b.f[n]
                          [] interaction.read[n] = "message" -> MergeInfo(interaction.class[n], SubOf(a, n), b.f[n])
                          [] OTHER -> b.f[n]
             its(n) == CASE interaction.read[n] = "repeated" -> Values!ListOf(a, n) \o b.f[n]
                         [] interaction.read[n] = "message" ->
                              Values!MergeInfo(interaction.class[n], Values!SubOf(a, n), b.f[n])
                         [] OTHER -> b.f[n]
  <2>1. \A n : mine(n) = its(n)
    BY <1>4, <1>5
  <2>2. Merge(interaction, a, b)
           = [f |-> [n \in DOMAIN a.f \cup taken |-> IF n \in taken THEN mine(n) ELSE a.f[n]],
              unknown |-> a.unknown \o b.unknown]
    BY DEF Merge
  <2>3. Values!Merge(interaction, a, b)
           = [f |-> [n \in DOMAIN a.f \cup taken |-> IF n \in taken THEN its(n) ELSE a.f[n]],
              unknown |-> a.unknown \o b.unknown]
    BY DEF Values!Merge
  <2> HIDE DEF mine, its, taken
  <2> QED BY <2>1, <2>2, <2>3
<1>7. \A n : Values!InfoClass(n) = interaction.class[n]
  BY SameClasses DEF Values!InfoClass
<1>8. Values!interaction.read = InteractionRead
  BY SameClasses DEF interaction, Interaction
<1>9. \A kind : Values!Samples(kind) = Samples(kind)
  BY DEF Samples, Values!Samples
<1> QED BY <1>1, <1>2, <1>3, <1>4, <1>6, <1>7, <1>8, <1>9 DEF InfoRead

\* The steps of Values in terms of Val and Loose.
LEMMA ValueSteps ==
    ASSUME NEW o, NEW n
    PROVE  /\ (\E v \in Samples(InteractionRead[n]) : Val' = [Val EXCEPT ![o] = SetField(Val[o], n, v)])
                 /\ Loose' = Loose => Values!Set(o, n)
           /\ Val' = [Val EXCEPT ![o] = Values!Absent(Val[o], n)] /\ Loose' = Loose => Values!Unset(o, n)
           /\ Val' = [Val EXCEPT ![o] = SetField(Val[o], n, SubOf(Val[o], n))] /\ Loose' = Loose
                 => Values!Mutable(o, n)
           /\ Len(ListOf(Val[o], n)) < MaxList
                 /\ (\E k \in InfoFields : \E v \in Samples(InfoRead(n)[k]) :
                       Val' = [Val EXCEPT ![o] = SetField(Val[o], n,
                                                   Append(ListOf(Val[o], n), SetField(Empty, k, v)))])
                 /\ Loose' = Loose => Values!Add(o, n)
           /\ Present(Val[o], n)
                 /\ (\E k \in InfoFields : \E v \in Samples(InfoRead(n)[k]) :
                       Val' = [Val EXCEPT ![o] = SetField(Val[o], n, SetField(Val[o].f[n], k, v))])
                 /\ Loose' = Loose => Values!SetInner(o, n)
           /\ Val' = [Val EXCEPT ![o] = Empty] /\ Loose' = Loose => Values!Clear(o)
<1>1. (\E v \in Samples(InteractionRead[n]) : Val' = [Val EXCEPT ![o] = SetField(Val[o], n, v)])
         /\ Loose' = Loose => Values!Set(o, n)
  BY SameCodec DEF Values!Set, Values!Become, Val, Loose
<1>2. Val' = [Val EXCEPT ![o] = Values!Absent(Val[o], n)] /\ Loose' = Loose => Values!Unset(o, n)
  BY DEF Values!Unset, Values!Become, Val, Loose
<1>3. Val' = [Val EXCEPT ![o] = SetField(Val[o], n, SubOf(Val[o], n))] /\ Loose' = Loose => Values!Mutable(o, n)
  BY SameCodec DEF Values!Mutable, Values!Become, Val, Loose
<1>4. Len(ListOf(Val[o], n)) < MaxList
         /\ (\E k \in InfoFields : \E v \in Samples(InfoRead(n)[k]) :
               Val' = [Val EXCEPT ![o] = SetField(Val[o], n, Append(ListOf(Val[o], n), SetField(Empty, k, v)))])
         /\ Loose' = Loose => Values!Add(o, n)
  BY SameCodec DEF Values!Add, Values!Become, Val, Loose
<1>5. Present(Val[o], n)
         /\ (\E k \in InfoFields : \E v \in Samples(InfoRead(n)[k]) :
               Val' = [Val EXCEPT ![o] = SetField(Val[o], n, SetField(Val[o].f[n], k, v))])
         /\ Loose' = Loose => Values!SetInner(o, n)
  BY SameCodec DEF Values!SetInner, Values!Become, Val, Loose
<1>6. Val' = [Val EXCEPT ![o] = Empty] /\ Loose' = Loose => Values!Clear(o)
  BY SameCodec DEF Values!Clear, Values!Become, Val, Loose
<1> QED BY <1>1, <1>2, <1>3, <1>4, <1>5, <1>6

\* Those that concern the inner message of the program.
LEMMA LooseSteps ==
    ASSUME NEW o, NEW n
    PROVE  /\ Loose # NoInfo
                 /\ (\E k \in InfoFields : \E v \in Samples(InfoRead(Loose.n)[k]) :
                       Loose' = [Loose EXCEPT !.info = SetField(@, k, v)])
                 /\ Val' = Val => Values!SetLoose
           /\ Loose = NoInfo
                 /\ (Loose' = [n |-> n, info |-> SubOf(Val[o], n)] \/ (Loose' = NoInfo /\ ~Present(Val[o], n)))
                 /\ Val' = [Val EXCEPT ![o] = Values!Absent(Val[o], n)] => Values!Release(o, n)
           /\ Loose # NoInfo /\ Loose.n = n /\ Loose' = NoInfo
                 /\ Val' = [Val EXCEPT ![o] = SetField(Val[o], n, Loose.info)] => Values!Install(o, n)
           /\ Loose = NoInfo /\ Loose' = NoInfo
                 /\ Val' = [Val EXCEPT ![o] = Values!Absent(Val[o], n)] => Values!Install(o, n)
<1>1. Loose # NoInfo
         /\ (\E k \in InfoFields : \E v \in Samples(InfoRead(Loose.n)[k]) :
               Loose' = [Loose EXCEPT !.info = SetField(@, k, v)])
         /\ Val' = Val => Values!SetLoose
  BY SameCodec DEF Values!SetLoose, Val, Loose
<1>2. Loose = NoInfo
         /\ (Loose' = [n |-> n, info |-> SubOf(Val[o], n)] \/ (Loose' = NoInfo /\ ~Present(Val[o], n)))
         /\ Val' = [Val EXCEPT ![o] = Values!Absent(Val[o], n)] => Values!Release(o, n)
  BY SameCodec DEF Values!Release, Values!Become, Val, Loose
<1>3. Loose # NoInfo /\ Loose.n = n /\ Loose' = NoInfo
         /\ Val' = [Val EXCEPT ![o] = SetField(Val[o], n, Loose.info)] => Values!Install(o, n)
  BY SameCodec DEF Values!Install, Values!Become, Val, Loose
<1>4. Loose = NoInfo /\ Loose' = NoInfo
         /\ Val' = [Val EXCEPT ![o] = Values!Absent(Val[o], n)] => Values!Install(o, n)
  BY DEF Values!Install, Values!Become, Val, Loose
<1> QED BY <1>1, <1>2, <1>3, <1>4

\* Those of two objects.
LEMMA PairSteps ==
    ASSUME NEW o, NEW q, Loose' = Loose
    PROVE  /\ Val' = [Val EXCEPT ![o] = Merge(interaction, Val[o], Val[q])] => Values!MergeFrom(o, q)
           /\ Val' = [Val EXCEPT ![o] = Val[q]] => Values!CopyFrom(o, q)
           /\ Val' = [Val EXCEPT ![o] = Val[q], ![q] = Val[o]] => Values!Swap(o, q)
<1>1. Val' = [Val EXCEPT ![o] = Merge(interaction, Val[o], Val[q])] => Values!MergeFrom(o, q)
  <2> PICK a, b : a = Val[o] /\ b = Val[q]
    OBVIOUS
  <2>1. Values!Merge(Values!interaction, a, b) = Merge(interaction, a, b)
    BY ONLY SameClasses, SameCodec
  <2>2. Values!Merge(Values!interaction, Val[o], Val[q]) = Merge(interaction, Val[o], Val[q])
    BY <2>1
  <2> QED BY <2>2 DEF Values!MergeFrom, Values!Become, Val, Loose
<1>2. Val' = [Val EXCEPT ![o] = Val[q]] => Values!CopyFrom(o, q)
  BY DEF Values!CopyFrom, Values!Become, Val, Loose
<1>3. Val' = [Val EXCEPT ![o] = Val[q], ![q] = Val[o]] => Values!Swap(o, q)
  BY DEF Values!Swap, Val, Loose
<1> QED BY <1>1, <1>2, <1>3

\* The inner message of the program, which is never taken for none.
LEMMA LooseIs ==
    ASSUME LooseIsSound
    PROVE  /\ ptr.own \in BOOLEAN
           /\ ptr.own => /\ Loose = [n |-> ptr.n, info |-> InfoView(ptr.n, heap[ptr.h])]
                         /\ Loose # NoInfo
           /\ ~ptr.own => Loose = NoInfo
<1>1. ptr.own \in BOOLEAN
  BY DEF LooseIsSound
<1>2. CASE ptr.own
  <2>1. ptr.n \in Subs /\ ptr.n \in Inner /\ heap[ptr.h] \in Good(ptr.n)
    BY <1>2, FieldsAssumption DEF LooseIsSound, Inner
  <2>2. InfoView(ptr.n, heap[ptr.h]) \in InfoViews
    BY <2>1, InfoViewIsView
  <2>3. Loose = [n |-> ptr.n, info |-> InfoView(ptr.n, heap[ptr.h])]
    BY <1>2 DEF Loose
  <2>4. NoInfo \notin [n : Subs, info : InfoViews]
    BY InfosAssumption
  <2> PICK j, v : j = ptr.n /\ v = InfoView(ptr.n, heap[ptr.h])
    OBVIOUS
  <2>5. [n |-> j, info |-> v] \in [n : Subs, info : InfoViews]
    BY <2>1, <2>2
  <2>6. Loose # NoInfo
    BY <2>3, <2>4, <2>5
  <2> QED BY <1>2, <2>3, <2>6
<1>3. CASE ~ptr.own
  BY <1>1, <1>3 DEF Loose
<1> QED BY <1>1, <1>2, <1>3

-----------------------------------------------------------------------------
\* The invariant as the operations use it.
LEMMA InvParts ==
    ASSUME ObjectsInv, NEW o \in Objects
    PROVE  /\ obj = [q \in Objects |-> obj[q]] /\ HeapShape(heap) /\ Sound(obj[o], heap)
           /\ ptr \in [h : Handles \cup {NULL}, n : Subs \cup {NULL}, own : BOOLEAN]
           /\ ptr.h # NULL => ptr.n \in Subs
BY DEF ObjectsInv, LooseIsSound

\* Numbers and strings, inner messages and lists are different fields.
LEMMA FieldsAreFields ==
    /\ Scalars \subseteq Plain /\ Subs \subseteq Inner /\ Plain \cap Inner = {} /\ Lists \subseteq {10, 11}
    /\ Plain \cap {10, 11} = {} /\ Inner \cap {10, 11} = {}
BY FieldsAssumption DEF Plain, Inner

\* What a step of one object means for the invariant and for the values.
LEMMA ChangeStep ==
    ASSUME ObjectsInv, NEW o \in Objects, NEW y, Changes(o, y)
    PROVE  /\ ObjectsInv' /\ Val[o] = MessageOf(obj[o], heap)
           /\ Val' = [Val EXCEPT ![o] = MessageOf(y, heap')] /\ Loose' = Loose
BY ObjectStep, ValStep, ValIs

\* A step on the fields of o that are no inner messages.
LEMMA PlainStep ==
    ASSUME ObjectsInv, NEW o \in Objects, NEW y, obj' = [obj EXCEPT ![o] = y], UNCHANGED <<heap, ptr>>,
           WellFormed(y), y.sub = obj[o].sub,
           \A n \in Inner : InteractionBit[n] \in y.has <=> InteractionBit[n] \in obj[o].has
    PROVE  Changes(o, y)
<1>1. HeapShape(heap) /\ Sound(obj[o], heap)
  BY InvParts
<1>2. Sound(y, heap)
  BY <1>1 DEF Sound
<1>3. Slots(y) = Slots(obj[o])
  BY DEF Slots
<1>4. Becomes(obj[o], heap, y, heap')
  BY <1>1, <1>2, <1>3 DEF Becomes
<1>5. PtrKept
  BY InvParts DEF PtrKept
<1> QED BY <1>4, <1>5 DEF Changes

\* set_ of a number or a string.
LEMMA SetScalarSets ==
    ASSUME ObjectsInv, NEW o \in Objects, NEW n \in Scalars, SetScalar(o, n)
    PROVE  ObjectsInv' /\ Values!Set(o, n)
<1> PICK v \in Samples(InteractionRead[n]) :
        obj' = [obj EXCEPT ![o] = SetRaw(obj[o], InteractionBit[n], n, v)]
  BY DEF SetScalar
<1> PICK x, y : x = obj[o] /\ y = SetRaw(x, InteractionBit[n], n, v)
  OBVIOUS
<1>1. Sound(x, heap) /\ n \in Plain /\ InteractionBit[n] \in 0 .. 7
  BY InvParts, FieldsAreFields, InteractionBits
<1>2. /\ x = [has |-> x.has, raw |-> x.raw, sub |-> x.sub, list |-> x.list]
      /\ x.has \subseteq 0 .. 7
      /\ x.raw = [k \in Plain |-> x.raw[k]] /\ x.list \in [{10, 11} -> Seq(Elements)]
      /\ \A k \in Plain : InteractionBit[k] \notin x.has => x.raw[k] = Default(InteractionRead[k])
  BY <1>1 DEF Sound, WellFormed
<1>3. /\ y = [has |-> y.has, raw |-> y.raw, sub |-> y.sub, list |-> y.list]
      /\ y.has = x.has \cup {InteractionBit[n]} /\ y.raw = [x.raw EXCEPT ![n] = v]
      /\ y.sub = x.sub /\ y.list = x.list
  BY <1>2 DEF SetRaw
<1>4. /\ y.raw = [k \in Plain |-> y.raw[k]] /\ y.raw[n] = v
      /\ \A k \in Plain : k # n => y.raw[k] = x.raw[k]
  BY <1>1, <1>2, <1>3
<1>5. \A k \in Plain \cup Inner : InteractionBit[k] \in y.has <=> InteractionBit[k] \in x.has \/ k = n
  BY <1>1, <1>3, InteractionBitsAreDistinct
<1>6. \A k \in Plain : InteractionBit[k] \notin y.has => y.raw[k] = Default(InteractionRead[k])
  BY <1>2, <1>3, <1>4
<1>7. y.has \subseteq 0 .. 7
  BY <1>1, <1>2, <1>3
<1>8. obj' = [obj EXCEPT ![o] = y] /\ UNCHANGED <<heap, ptr>>
  BY DEF SetScalar
<1>9. WellFormed(y)
  BY <1>2, <1>3, <1>4, <1>6, <1>7 DEF WellFormed
<1>10. Changes(o, y)
  <2>1. \A k \in Inner : InteractionBit[k] \in y.has <=> InteractionBit[k] \in x.has
    BY <1>1, <1>5, FieldsAreFields
  <2> QED BY <1>3, <1>8, <1>9, <2>1, PlainStep
<1>11. MessageOf(y, heap) = SetField(MessageOf(x, heap), n, v)
  <2>1. Has(y) = Has(x) \cup {n}
    BY <1>1, <1>3, <1>5 DEF Has
  <2>2. \A k \in Has(x) : k # n => FieldOf(y, heap, k) = FieldOf(x, heap, k)
    BY <1>3, <1>4 DEF FieldOf
  <2>3. FieldOf(y, heap, n) = v
    BY <1>1, <1>4 DEF FieldOf
  <2> QED BY <2>1, <2>2, <2>3, MessageSet
<1>12. Val' = [Val EXCEPT ![o] = SetField(Val[o], n, v)] /\ Loose' = Loose /\ ObjectsInv'
  BY <1>8, <1>10, <1>11, ChangeStep
<1> QED BY <1>12, ValueSteps

\* clear_ of a number or a string.
LEMMA ClearScalarUnsets ==
    ASSUME ObjectsInv, NEW o \in Objects, NEW n \in Scalars, ClearScalar(o, n)
    PROVE  ObjectsInv' /\ Values!Unset(o, n)
<1> PICK x, y : /\ x = obj[o] /\ y = [x EXCEPT !.has = @ \ {InteractionBit[n]},
                                               !.raw[n] = Default(InteractionRead[n])]
  OBVIOUS
<1>1. Sound(x, heap) /\ n \in Plain /\ InteractionBit[n] \in 0 .. 7 /\ obj = [q \in Objects |-> obj[q]]
  BY InvParts, FieldsAreFields, InteractionBits
<1>2. /\ x = [has |-> x.has, raw |-> x.raw, sub |-> x.sub, list |-> x.list]
      /\ x.has \subseteq 0 .. 7
      /\ x.raw = [k \in Plain |-> x.raw[k]] /\ x.list \in [{10, 11} -> Seq(Elements)]
      /\ \A k \in Plain : InteractionBit[k] \notin x.has => x.raw[k] = Default(InteractionRead[k])
  BY <1>1 DEF Sound, WellFormed
<1>3. /\ y = [has |-> y.has, raw |-> y.raw, sub |-> y.sub, list |-> y.list]
      /\ y.has = x.has \ {InteractionBit[n]} /\ y.raw = [x.raw EXCEPT ![n] = Default(InteractionRead[n])]
      /\ y.sub = x.sub /\ y.list = x.list
  BY <1>2
<1>4. y.raw = [k \in Plain |-> y.raw[k]] /\ \A k \in Plain : k # n => y.raw[k] = x.raw[k]
  BY <1>2, <1>3
<1>5. \A k \in Plain \cup Inner : InteractionBit[k] \in y.has <=> InteractionBit[k] \in x.has /\ k # n
  BY <1>1, <1>3, InteractionBitsAreDistinct
<1>6. \A k \in Plain : InteractionBit[k] \notin y.has => y.raw[k] = Default(InteractionRead[k])
  <2>1. y.raw[n] = Default(InteractionRead[n])
    BY <1>1, <1>2, <1>3
  <2> QED BY <1>2, <1>4, <1>5, <2>1
<1>7. obj' = [obj EXCEPT ![o] = y] /\ UNCHANGED <<heap, ptr>>
  BY <1>1, <1>2 DEF ClearScalar
<1>8. y.has \subseteq 0 .. 7
  BY <1>2, <1>3
<1>9. WellFormed(y)
  BY <1>2, <1>3, <1>4, <1>6, <1>8 DEF WellFormed
<1>10. Changes(o, y)
  <2>1. \A k \in Inner : InteractionBit[k] \in y.has <=> InteractionBit[k] \in x.has
    BY <1>1, <1>5, FieldsAreFields
  <2> QED BY <1>3, <1>7, <1>9, <2>1, PlainStep
<1>11. MessageOf(y, heap) = Values!Absent(MessageOf(x, heap), n)
  <2>1. Has(y) = Has(x) \ {n}
    BY <1>1, <1>3, <1>5, FieldsAreFields DEF Has
  <2>2. \A k \in Has(x) : k # n => FieldOf(y, heap, k) = FieldOf(x, heap, k)
    BY <1>3, <1>4 DEF FieldOf
  <2> QED BY <2>1, <2>2, MessageUnset
<1>12. Val' = [Val EXCEPT ![o] = Values!Absent(Val[o], n)] /\ Loose' = Loose /\ ObjectsInv'
  BY <1>7, <1>10, <1>11, ChangeStep
<1> QED BY <1>12, ValueSteps

\* x with the list l in field n.
WithList(x, n, l) == [x EXCEPT !.list[n] = l]

\* An object with another list: it has the field if the list is not empty.
LEMMA ListSet ==
    ASSUME NEW x, NEW hp, Sound(x, hp), NEW n \in {10, 11}, NEW l \in Seq(Elements),
           NEW y, y = WithList(x, n, l)
    PROVE  /\ WellFormed(y) /\ y.sub = x.sub /\ y.has = x.has
           /\ l # <<>> => MessageOf(y, hp) = SetField(MessageOf(x, hp), n, l)
           /\ l = <<>> => MessageOf(y, hp) = Values!Absent(MessageOf(x, hp), n)
<1>1. /\ x = [has |-> x.has, raw |-> x.raw, sub |-> x.sub, list |-> x.list]
      /\ x.has \subseteq 0 .. 7
      /\ x.raw = [k \in Plain |-> x.raw[k]] /\ x.list \in [{10, 11} -> Seq(Elements)]
      /\ \A k \in Plain : InteractionBit[k] \notin x.has => x.raw[k] = Default(InteractionRead[k])
  BY DEF Sound, WellFormed
<1>2. /\ y = [has |-> y.has, raw |-> y.raw, sub |-> y.sub, list |-> y.list]
      /\ y.has = x.has /\ y.raw = x.raw /\ y.sub = x.sub /\ y.list = [x.list EXCEPT ![n] = l]
  BY <1>1 DEF WithList
<1>3. /\ y.list \in [{10, 11} -> Seq(Elements)] /\ y.list[n] = l
      /\ \A k \in {10, 11} : k # n => y.list[k] = x.list[k]
  BY <1>1, <1>2
<1>4. WellFormed(y)
  BY <1>1, <1>2, <1>3 DEF WellFormed
<1>5. n \notin Plain /\ n \notin Inner
  BY FieldsAreFields
<1>6. FieldOf(y, hp, n) = l
  BY <1>3, <1>5 DEF FieldOf
<1>7. ASSUME NEW k \in Has(x), k # n PROVE FieldOf(y, hp, k) = FieldOf(x, hp, k)
  <2>1. k \in Plain \/ k \in Inner \/ k \in {10, 11}
    BY DEF Has
  <2> QED BY <1>2, <1>3, <1>7, <2>1 DEF FieldOf
<1>8. CASE l # <<>>
  <2>1. Has(y) = Has(x) \cup {n}
    BY <1>2, <1>3, <1>5, <1>8 DEF Has
  <2> QED BY <1>2, <1>4, <1>6, <1>7, <1>8, <2>1, MessageSet
<1>9. CASE l = <<>>
  <2>1. Has(y) = Has(x) \ {n}
    BY <1>2, <1>3, <1>5, <1>9, FieldsAreFields DEF Has
  <2> QED BY <1>2, <1>4, <1>7, <1>9, <2>1, MessageUnset
<1> QED BY <1>8, <1>9

\* The list of the message is the list of the object.
LEMMA ListRead ==
    ASSUME NEW x, NEW hp, NEW n \in {10, 11}
    PROVE  ListOf(MessageOf(x, hp), n) = x.list[n]
<1>1. FieldOf(x, hp, n) = x.list[n]
  BY FieldsAreFields DEF FieldOf
<1> PICK m : m = MessageOf(x, hp)
  OBVIOUS
<1>2. CASE n \in Has(x)
  <2>1. Present(m, n) /\ m.f[n] = FieldOf(x, hp, n)
    BY <1>2, MessageParts
  <2> QED BY <1>1, <2>1 DEF ListOf
<1>3. CASE n \notin Has(x)
  <2>1. ~Present(m, n)
    BY <1>3, MessageParts
  <2>2. x.list[n] = <<>>
    BY <1>3 DEF Has
  <2> QED BY <2>1, <2>2 DEF ListOf
<1> QED BY <1>2, <1>3

\* A step on a list.
LEMMA ListStep ==
    ASSUME ObjectsInv, NEW o \in Objects, NEW n \in Lists, NEW l \in Seq(Elements),
           NEW y, y = WithList(obj[o], n, l), obj' = [obj EXCEPT ![o] = y], UNCHANGED <<heap, ptr>>
    PROVE  /\ ObjectsInv' /\ Loose' = Loose /\ Val[o] = MessageOf(obj[o], heap)
           /\ l # <<>> => Val' = [Val EXCEPT ![o] = SetField(Val[o], n, l)]
           /\ l = <<>> => Val' = [Val EXCEPT ![o] = Values!Absent(Val[o], n)]
<1>1. Sound(obj[o], heap) /\ n \in {10, 11}
  BY InvParts, FieldsAreFields
<1>2. /\ WellFormed(y) /\ y.sub = obj[o].sub /\ y.has = obj[o].has
      /\ l # <<>> => MessageOf(y, heap) = SetField(MessageOf(obj[o], heap), n, l)
      /\ l = <<>> => MessageOf(y, heap) = Values!Absent(MessageOf(obj[o], heap), n)
  BY <1>1, ListSet
<1>3. Changes(o, y)
  BY <1>2, PlainStep
<1>4. /\ ObjectsInv' /\ Val[o] = MessageOf(obj[o], heap)
      /\ Val' = [Val EXCEPT ![o] = MessageOf(y, heap')] /\ Loose' = Loose
  BY <1>3, ChangeStep
<1> QED BY <1>2, <1>4

\* add_ of a list.
LEMMA AddToListAdds ==
    ASSUME ObjectsInv, NEW o \in Objects, NEW n \in Lists, AddToList(o, n)
    PROVE  ObjectsInv' /\ Values!Add(o, n)
<1>1. Sound(obj[o], heap) /\ n \in {10, 11}
  BY InvParts, FieldsAreFields
<1> PICK s : s = obj[o].list[n]
  OBVIOUS
<1>2. /\ \E k \in InfoFields : \E v \in Samples(InfoRead(n)[k]) :
            obj' = [obj EXCEPT ![o].list[n] = Append(s, SetField(Empty, k, v))]
      /\ Len(s) < MaxList /\ UNCHANGED <<heap, ptr>>
  BY InvParts DEF AddToList
<1> PICK k \in InfoFields : \E v \in Samples(InfoRead(n)[k]) :
          obj' = [obj EXCEPT ![o].list[n] = Append(s, SetField(Empty, k, v))]
  BY <1>2
<1> PICK v \in Samples(InfoRead(n)[k]) : obj' = [obj EXCEPT ![o].list[n] = Append(s, SetField(Empty, k, v))]
  OBVIOUS
<1> PICK e, l : e = SetField(Empty, k, v) /\ l = Append(s, e)
  OBVIOUS
<1>3. s \in Seq(Elements) /\ e \in Elements
  BY <1>1, SamplesAreContents DEF Sound, WellFormed, Elements
<1>4. l \in Seq(Elements) /\ l # <<>>
  BY <1>3
<1> PICK y : y = WithList(obj[o], n, l)
  OBVIOUS
<1>5. obj' = [obj EXCEPT ![o] = y] /\ UNCHANGED <<heap, ptr>>
  BY <1>2, InvParts DEF WithList
<1>6. /\ ObjectsInv' /\ Loose' = Loose /\ Val[o] = MessageOf(obj[o], heap)
      /\ Val' = [Val EXCEPT ![o] = SetField(Val[o], n, l)]
  BY ONLY ObjectsInv, o \in Objects, n \in Lists, y = WithList(obj[o], n, l), <1>4, <1>5, ListStep
<1>7. ListOf(Val[o], n) = s
  BY <1>1, <1>6, ListRead
<1>8. \E j \in InfoFields : \E w \in Samples(InfoRead(n)[j]) :
          Val' = [Val EXCEPT ![o] = SetField(Val[o], n, Append(ListOf(Val[o], n), SetField(Empty, j, w)))]
  BY <1>6, <1>7
<1>9. Len(ListOf(Val[o], n)) < MaxList
  BY <1>2, <1>7
<1> QED BY <1>6, <1>8, <1>9, ValueSteps

\* clear_ of a list.
LEMMA ClearListUnsets ==
    ASSUME ObjectsInv, NEW o \in Objects, NEW n \in Lists, ClearList(o, n)
    PROVE  ObjectsInv' /\ Values!Unset(o, n)
<1> PICK l, y : l = <<>> /\ y = WithList(obj[o], n, l)
  OBVIOUS
<1>1. l \in Seq(Elements) /\ obj' = [obj EXCEPT ![o] = y] /\ UNCHANGED <<heap, ptr>>
  BY InvParts DEF ClearList, WithList
<1>2. ObjectsInv' /\ Loose' = Loose /\ Val' = [Val EXCEPT ![o] = Values!Absent(Val[o], n)]
  BY <1>1, ListStep
<1> QED BY <1>2, ValueSteps

-----------------------------------------------------------------------------
\* The addresses of new inner objects are free and not used twice.
LEMMA NewHandlesAreFree ==
    ASSUME NEW hp, NEW S, Placings(hp, S) # {}
    PROVE  /\ NewHandles(hp, S) \in [S -> Handles]
           /\ \A n \in S : hp[NewHandles(hp, S)[n]] = Freed
           /\ \A m, n \in S : NewHandles(hp, S)[m] = NewHandles(hp, S)[n] => m = n
<1>1. NewHandles(hp, S) \in Placings(hp, S)
  BY DEF NewHandles
<1> QED BY <1>1 DEF Placings

\* The field n of an object is given another inner object.
LEMMA OneSlot ==
    ASSUME NEW x, NEW hp, Sound(x, hp), NEW n \in Inner, NEW h \in Handles \cup {NULL},
           NEW y, NEW hq, WellFormed(y), y.sub = [x.sub EXCEPT ![n] = h],
           \A m \in Inner : m # n => /\ InteractionBit[m] \in y.has <=> InteractionBit[m] \in x.has
                                     /\ x.sub[m] # NULL => /\ x.sub[m] # h
                                                           /\ hq[x.sub[m]] = hp[x.sub[m]],
           h # NULL => hq[h] \in Good(n), InteractionBit[n] \in y.has => h # NULL,
           h # NULL /\ InteractionBit[n] \notin y.has => hq[h] = NewInfo(n)
    PROVE  Sound(y, hq)
<1>1. /\ x.sub \in [Inner -> Handles \cup {NULL}]
      /\ \A m \in Inner : x.sub[m] # NULL => hp[x.sub[m]] \in Good(m)
      /\ \A m \in Inner : InteractionBit[m] \in x.has => x.sub[m] # NULL
      /\ \A m \in Inner : x.sub[m] # NULL /\ InteractionBit[m] \notin x.has => hp[x.sub[m]] = NewInfo(m)
      /\ \A l, m \in Inner : x.sub[l] = x.sub[m] /\ x.sub[l] # NULL => l = m
  BY DEF Sound
<1>2. /\ y.sub \in [Inner -> Handles \cup {NULL}]
      /\ y.sub[n] = h /\ \A m \in Inner : m # n => y.sub[m] = x.sub[m]
  BY <1>1
<1>3. \A m \in Inner : y.sub[m] # NULL => hq[y.sub[m]] \in Good(m)
  BY <1>1, <1>2
<1>4. \A m \in Inner : InteractionBit[m] \in y.has => y.sub[m] # NULL
  BY <1>1, <1>2
<1>5. \A m \in Inner : y.sub[m] # NULL /\ InteractionBit[m] \notin y.has => hq[y.sub[m]] = NewInfo(m)
  BY <1>1, <1>2
<1>6. \A l, m \in Inner : y.sub[l] = y.sub[m] /\ y.sub[l] # NULL => l = m
  BY <1>1, <1>2
<1> QED BY <1>2, <1>3, <1>4, <1>5, <1>6 DEF Sound

\* The same as a change of the heap, where the old one is kept or deleted.
SlotGiven(x, hp, y, hq, n, h) ==
  /\ h \in Handles \cup {NULL} /\ WellFormed(y) /\ y.sub = [x.sub EXCEPT ![n] = h]
  /\ y.raw = x.raw /\ y.list = x.list
  /\ \A k \in Plain \cup Inner : k # n => (InteractionBit[k] \in y.has <=> InteractionBit[k] \in x.has)
  /\ HeapShape(hq)
  /\ \A g \in Handles : g # h /\ g # x.sub[n] => hq[g] = hp[g]
  /\ h # NULL => (h = x.sub[n] \/ hp[h] = Freed) /\ hq[h] \in Good(n)
  /\ x.sub[n] # NULL /\ x.sub[n] # h => hq[x.sub[n]] = Freed
  /\ InteractionBit[n] \in y.has => h # NULL
  /\ h # NULL /\ InteractionBit[n] \notin y.has => hq[h] = NewInfo(n)

\* An object that is given another inner object, or keeps it, stays sound.
LEMMA SlotBecomes ==
    ASSUME NEW x, NEW hp, Sound(x, hp), NEW y, NEW hq, NEW n \in Inner, NEW h,
           SlotGiven(x, hp, y, hq, n, h)
    PROVE  Becomes(x, hp, y, hq)
<1>1. /\ h \in Handles \cup {NULL} /\ WellFormed(y) /\ y.sub = [x.sub EXCEPT ![n] = h]
      /\ \A m \in Inner : m # n => (InteractionBit[m] \in y.has <=> InteractionBit[m] \in x.has)
      /\ HeapShape(hq)
      /\ \A g \in Handles : g # h /\ g # x.sub[n] => hq[g] = hp[g]
      /\ h # NULL => (h = x.sub[n] \/ hp[h] = Freed) /\ hq[h] \in Good(n)
      /\ x.sub[n] # NULL /\ x.sub[n] # h => hq[x.sub[n]] = Freed
      /\ InteractionBit[n] \in y.has => h # NULL
      /\ h # NULL /\ InteractionBit[n] \notin y.has => hq[h] = NewInfo(n)
  BY DEF SlotGiven
<1>2. /\ x.sub \in [Inner -> Handles \cup {NULL}]
      /\ \A m \in Inner : x.sub[m] # NULL => hp[x.sub[m]] # Freed
      /\ \A l, m \in Inner : x.sub[l] = x.sub[m] /\ x.sub[l] # NULL => l = m
  BY GoodParts DEF Sound
<1>3. \A m \in Inner : m # n /\ x.sub[m] # NULL => x.sub[m] # h /\ hq[x.sub[m]] = hp[x.sub[m]]
  <2> SUFFICES ASSUME NEW m \in Inner, m # n, x.sub[m] # NULL
               PROVE  x.sub[m] # h /\ hq[x.sub[m]] = hp[x.sub[m]]
    OBVIOUS
  <2>1. x.sub[m] # x.sub[n] /\ hp[x.sub[m]] # Freed /\ x.sub[m] \in Handles
    BY <1>2
  <2> QED BY <1>1, <2>1
<1>4. Sound(y, hq)
  BY <1>1, <1>3, OneSlot
<1>5. y.sub \in [Inner -> Handles \cup {NULL}] /\ y.sub[n] = h /\ \A m \in Inner : m # n => y.sub[m] = x.sub[m]
  BY <1>1, <1>2
<1>6. \A g : g \in Slots(y) <=> g # NULL /\ (g = h \/ \E m \in Inner : m # n /\ g = x.sub[m])
  BY <1>5 DEF Slots
<1>7. \A g : g \in Slots(x) <=> g # NULL /\ (g = x.sub[n] \/ \E m \in Inner : m # n /\ g = x.sub[m])
  BY <1>2 DEF Slots
<1>8. \A g \in Slots(y) : g \in Slots(x) \/ hp[g] = Freed
  BY <1>1, <1>6, <1>7
<1>9. \A g \in Handles : g \notin Slots(x) /\ g \notin Slots(y) => hq[g] = hp[g]
  <2> SUFFICES ASSUME NEW g \in Handles, g \notin Slots(x), g \notin Slots(y) PROVE hq[g] = hp[g]
    OBVIOUS
  <2>1. g # NULL
    BY NullIsNoHandle
  <2>2. g # h /\ g # x.sub[n]
    BY <1>6, <1>7, <2>1
  <2> QED BY <1>1, <2>2
<1>10. \A g \in Slots(x) : g \notin Slots(y) => hq[g] = Freed
  BY <1>1, <1>6, <1>7
<1> QED BY <1>1, <1>4, <1>8, <1>9, <1>10 DEF Becomes

\* A message without its field n, or with another inner message there.
SlotChanges(x, hp, y, hq, n, h) ==
  /\ y.sub = [x.sub EXCEPT ![n] = h] /\ y.raw = x.raw /\ y.list = x.list
  /\ \A k \in Plain \cup Inner : k # n => (InteractionBit[k] \in y.has <=> InteractionBit[k] \in x.has)
  /\ \A g \in Handles : g # h /\ g # x.sub[n] => hq[g] = hp[g]
  /\ \A m \in Inner : m # n /\ x.sub[m] # NULL => x.sub[m] # h

\* The message of an object whose field n is given another inner object.
LEMMA SlotMessage ==
    ASSUME NEW x, NEW hp, Sound(x, hp), NEW y, NEW hq, NEW n \in Inner, NEW h,
           SlotChanges(x, hp, y, hq, n, h)
    PROVE  /\ InteractionBit[n] \in y.has
                 => MessageOf(y, hq) = SetField(MessageOf(x, hp), n, InfoView(n, hq[h]))
           /\ InteractionBit[n] \notin y.has => MessageOf(y, hq) = Values!Absent(MessageOf(x, hp), n)
<1>1. /\ x.sub \in [Inner -> Handles \cup {NULL}]
      /\ \A m \in Inner : x.sub[m] # NULL => hp[x.sub[m]] # Freed
      /\ \A m \in Inner : InteractionBit[m] \in x.has => x.sub[m] # NULL
      /\ \A l, m \in Inner : x.sub[l] = x.sub[m] /\ x.sub[l] # NULL => l = m
  BY GoodParts DEF Sound
<1>c. /\ y.sub = [x.sub EXCEPT ![n] = h] /\ y.raw = x.raw /\ y.list = x.list
      /\ \A k \in Plain \cup Inner : k # n => (InteractionBit[k] \in y.has <=> InteractionBit[k] \in x.has)
      /\ \A g \in Handles : g # h /\ g # x.sub[n] => hq[g] = hp[g]
      /\ \A m \in Inner : m # n /\ x.sub[m] # NULL => x.sub[m] # h
  BY DEF SlotChanges
<1>2. /\ y.sub[n] = h /\ \A m \in Inner : m # n => y.sub[m] = x.sub[m]
      /\ n \notin Plain /\ n \notin {10, 11}
  BY <1>1, <1>c, FieldsAreFields
<1>3. FieldOf(y, hq, n) = InfoView(n, hq[h])
  BY <1>2 DEF FieldOf
<1>4. ASSUME NEW k \in Has(x), k # n PROVE FieldOf(y, hq, k) = FieldOf(x, hp, k)
  <2>1. CASE k \in Plain
    BY <1>c, <2>1 DEF FieldOf
  <2>2. CASE k \notin Plain /\ k \in Inner
    <3>1. InteractionBit[k] \in x.has
      BY <2>2, FieldsAreFields DEF Has
    <3>2. x.sub[k] # NULL /\ x.sub[k] \in Handles /\ hp[x.sub[k]] # Freed /\ x.sub[k] # x.sub[n]
      BY <1>1, <1>4, <2>2, <3>1
    <3>3. hq[x.sub[k]] = hp[x.sub[k]]
      BY <1>4, <1>c, <2>2, <3>2
    <3> QED BY <1>2, <1>4, <2>2, <3>3 DEF FieldOf
  <2>3. CASE k \notin Plain /\ k \notin Inner
    BY <1>c, <2>3 DEF FieldOf
  <2> QED BY <2>1, <2>2, <2>3
<1>5. CASE InteractionBit[n] \in y.has
  <2>1. Has(y) = Has(x) \cup {n}
    BY <1>2, <1>5, <1>c DEF Has
  <2>2. MessageOf(y, hq) = SetField(MessageOf(x, hp), n, FieldOf(y, hq, n))
    BY <1>4, <2>1, MessageSet
  <2> QED BY <1>3, <1>5, <2>2
<1>6. CASE InteractionBit[n] \notin y.has
  <2>1. Has(y) = Has(x) \ {n}
    BY <1>2, <1>6, <1>c DEF Has
  <2>2. MessageOf(y, hq) = Values!Absent(MessageOf(x, hp), n)
    BY <1>4, <2>1, MessageUnset
  <2> QED BY <1>6, <2>2
<1> QED BY <1>5, <1>6

\* An inner message is what the inner object stands for, and empty if there
\* is none.
LEMMA SubRead ==
    ASSUME NEW x, NEW hp, Sound(x, hp), NEW n \in Inner
    PROVE  /\ Present(MessageOf(x, hp), n) <=> InteractionBit[n] \in x.has
           /\ x.sub[n] # NULL => SubOf(MessageOf(x, hp), n) = InfoView(n, hp[x.sub[n]])
           /\ x.sub[n] = NULL => SubOf(MessageOf(x, hp), n) = Empty /\ InteractionBit[n] \notin x.has
           /\ InteractionBit[n] \in x.has => MessageOf(x, hp).f[n] = InfoView(n, hp[x.sub[n]])
<1> PICK m : m = MessageOf(x, hp)
  OBVIOUS
<1>1. /\ InteractionBit[n] \in x.has => x.sub[n] # NULL
      /\ x.sub[n] # NULL /\ InteractionBit[n] \notin x.has => hp[x.sub[n]] = NewInfo(n)
  BY DEF Sound
<1>2. n \in Has(x) <=> InteractionBit[n] \in x.has
  BY FieldsAreFields DEF Has
<1>3. FieldOf(x, hp, n) = InfoView(n, hp[x.sub[n]])
  BY FieldsAreFields DEF FieldOf
<1>4. CASE InteractionBit[n] \in x.has
  <2>1. Present(m, n) /\ m.f[n] = FieldOf(x, hp, n)
    BY <1>2, <1>4, MessageParts
  <2> QED BY <1>1, <1>3, <1>4, <2>1 DEF SubOf
<1>5. CASE InteractionBit[n] \notin x.has
  <2>1. ~Present(m, n)
    BY <1>2, <1>5, MessageParts
  <2>2. SubOf(m, n) = Empty
    BY <2>1 DEF SubOf
  <2>3. x.sub[n] # NULL => InfoView(n, hp[x.sub[n]]) = Empty
    BY <1>1, <1>5, NewIsEmpty
  <2> QED BY <1>5, <2>1, <2>2, <2>3
<1> QED BY <1>4, <1>5

\* A step on one inner message, that a pointer of the program survives.
LEMMA SlotStep ==
    ASSUME ObjectsInv, NEW o \in Objects, NEW n \in Inner, NEW y, obj' = [obj EXCEPT ![o] = y],
           NEW h, SlotGiven(obj[o], heap, y, heap', n, h), PtrKept
    PROVE  /\ ObjectsInv' /\ Val[o] = MessageOf(obj[o], heap) /\ Loose' = Loose
           /\ InteractionBit[n] \in y.has => Val' = [Val EXCEPT ![o] = SetField(Val[o], n, InfoView(n, heap'[h]))]
           /\ InteractionBit[n] \notin y.has => Val' = [Val EXCEPT ![o] = Values!Absent(Val[o], n)]
<1>1. Sound(obj[o], heap)
  BY InvParts
<1>2. Becomes(obj[o], heap, y, heap')
  BY <1>1, SlotBecomes
<1>3. Changes(o, y)
  BY <1>2 DEF Changes
<1>4. /\ ObjectsInv' /\ Val[o] = MessageOf(obj[o], heap)
      /\ Val' = [Val EXCEPT ![o] = MessageOf(y, heap')] /\ Loose' = Loose
  BY <1>3, ChangeStep
<1>5. /\ InteractionBit[n] \in y.has
            => MessageOf(y, heap') = SetField(MessageOf(obj[o], heap), n, InfoView(n, heap'[h]))
      /\ InteractionBit[n] \notin y.has => MessageOf(y, heap') = Values!Absent(MessageOf(obj[o], heap), n)
  <2>1. \A m \in Inner : m # n /\ obj[o].sub[m] # NULL => obj[o].sub[m] # h
    BY <1>1, GoodParts DEF Sound, SlotGiven
  <2>2. SlotChanges(obj[o], heap, y, heap', n, h)
    BY <2>1 DEF SlotGiven, SlotChanges
  <2> QED BY <1>1, <2>2, SlotMessage
<1> QED BY <1>4, <1>5

\* mutable_ of an inner message, which may be kept or be new.
LEMMA MutableMakes ==
    ASSUME ObjectsInv, NEW o \in Objects, NEW n \in Subs, Mutable(o, n)
    PROVE  ObjectsInv' /\ Values!Mutable(o, n)
<1> PICK x, isNew : x = obj[o] /\ isNew = (x.sub[n] = NULL)
  OBVIOUS
<1> PICK h : h = IF isNew THEN NewHandles(heap, {n})[n] ELSE x.sub[n]
  OBVIOUS
<1> PICK y : y = [x EXCEPT !.has = @ \cup {InteractionBit[n]}, !.sub[n] = h]
  OBVIOUS
<1>1. Sound(x, heap) /\ n \in Inner /\ HeapShape(heap) /\ obj = [q \in Objects |-> obj[q]]
  BY InvParts, FieldsAreFields
<1>2. /\ isNew => Placings(heap, {n}) # {}
      /\ heap' = IF isNew THEN [heap EXCEPT ![h] = NewInfo(n)] ELSE heap
      /\ obj' = [obj EXCEPT ![o].has = @ \cup {InteractionBit[n]}, ![o].sub[n] = h]
      /\ ptr' = IF ptr.own THEN ptr ELSE [h |-> h, n |-> n, own |-> FALSE]
  BY DEF Mutable, Keep
<1>3. /\ WellFormed(x) /\ x = [has |-> x.has, raw |-> x.raw, sub |-> x.sub, list |-> x.list]
      /\ x.sub \in [Inner -> Handles \cup {NULL}]
      /\ x.sub[n] # NULL => heap[x.sub[n]] \in Good(n)
  BY <1>1 DEF Sound, WellFormed
<1>4. /\ y = [has |-> y.has, raw |-> y.raw, sub |-> y.sub, list |-> y.list]
      /\ y.has = x.has \cup {InteractionBit[n]} /\ y.raw = x.raw /\ y.list = x.list
      /\ y.sub = [x.sub EXCEPT ![n] = h]
  BY <1>3
<1>5. InteractionBit[n] \in 0 .. 7 /\ \A k \in Plain \cup Inner : k # n => InteractionBit[k] # InteractionBit[n]
  BY <1>1, InteractionBits, InteractionBitsAreDistinct
<1>6. WellFormed(y)
  <2>1. y.has \subseteq 0 .. 7
    BY <1>3, <1>4, <1>5 DEF WellFormed
  <2>2. \A k \in Plain : InteractionBit[k] \notin y.has => InteractionBit[k] \notin x.has
    BY <1>4
  <2> QED BY <1>3, <1>4, <2>1, <2>2 DEF WellFormed
<1>7. h \in Handles /\ (h = x.sub[n] \/ heap[h] = Freed) /\ (isNew => heap[h] = Freed)
  <2>1. CASE isNew
    <3>1. NewHandles(heap, {n}) \in [{n} -> Handles] /\ heap[NewHandles(heap, {n})[n]] = Freed
      BY <1>2, <2>1, NewHandlesAreFree
    <3> QED BY <2>1, <3>1
  <2>2. CASE ~isNew
    BY <1>1, <1>3, <2>2
  <2> QED BY <2>1, <2>2
<1>8. HeapShape(heap') /\ heap'[h] \in Good(n) /\ \A g \in Handles : g # h => heap'[g] = heap[g]
  BY <1>1, <1>2, <1>3, <1>7, NewIsGood DEF HeapShape
<1>9. obj' = [obj EXCEPT ![o] = y]
  BY <1>1, <1>2
<1>10. h # NULL /\ ptr' \in [h : Handles \cup {NULL}, n : Subs \cup {NULL}, own : BOOLEAN]
       /\ (ptr'.h # NULL => ptr'.n \in Subs)
       /\ (ptr.own => ptr' = ptr) /\ (~ptr.own => ~ptr'.own)
  BY <1>2, <1>7, InvParts, NullIsNoHandle
<1>11. \A k \in Plain \cup Inner : k # n => (InteractionBit[k] \in y.has <=> InteractionBit[k] \in x.has)
  BY <1>4, <1>5
<1>12. InteractionBit[n] \in y.has
  BY <1>4
<1>13. x.sub[n] # NULL => x.sub[n] = h
  OBVIOUS
<1>14. SlotGiven(x, heap, y, heap', n, h)
  BY <1>4, <1>6, <1>7, <1>8, <1>10, <1>11, <1>12, <1>13 DEF SlotGiven
<1>15. PtrKept
  BY <1>10 DEF PtrKept
<1>16. SubOf(MessageOf(x, heap), n) = InfoView(n, heap'[h])
  <2>1. /\ x.sub[n] # NULL => SubOf(MessageOf(x, heap), n) = InfoView(n, heap[x.sub[n]])
        /\ x.sub[n] = NULL => SubOf(MessageOf(x, heap), n) = Empty
    BY <1>1, SubRead
  <2>2. CASE isNew
    <3>1. heap'[h] = NewInfo(n)
      BY <1>1, <1>2, <1>7, <2>2 DEF HeapShape
    <3> QED BY <1>1, <2>1, <2>2, <3>1, NewIsEmpty
  <2>3. CASE ~isNew
    BY <1>2, <2>1, <2>3
  <2> QED BY <2>2, <2>3
<1>17. SlotGiven(obj[o], heap, y, heap', n, h)
  BY <1>14
<1>18. /\ ObjectsInv' /\ Val[o] = MessageOf(obj[o], heap) /\ Loose' = Loose
       /\ Val' = [Val EXCEPT ![o] = SetField(Val[o], n, InfoView(n, heap'[h]))]
  BY ONLY ObjectsInv, o \in Objects, <1>1, <1>9, <1>12, <1>15, <1>17, SlotStep
<1>19. Val' = [Val EXCEPT ![o] = SetField(Val[o], n, SubOf(Val[o], n))]
  BY <1>16, <1>18
<1> QED BY <1>18, <1>19, ValueSteps

\* clear_ of an inner message, which keeps the object.
LEMMA ClearSubUnsets ==
    ASSUME ObjectsInv, NEW o \in Objects, NEW n \in Subs, ClearSub(o, n)
    PROVE  ObjectsInv' /\ Values!Unset(o, n)
<1> PICK x, h : x = obj[o] /\ h = x.sub[n]
  OBVIOUS
<1> PICK y : y = [x EXCEPT !.has = @ \ {InteractionBit[n]}]
  OBVIOUS
<1>1. Sound(x, heap) /\ n \in Inner /\ HeapShape(heap) /\ obj = [q \in Objects |-> obj[q]]
  BY InvParts, FieldsAreFields
<1>2. /\ heap' = IF h # NULL THEN [heap EXCEPT ![h] = InfoClear(n, @)] ELSE heap
      /\ obj' = [obj EXCEPT ![o].has = @ \ {InteractionBit[n]}] /\ ptr' = ptr
  BY DEF ClearSub
<1>3. /\ WellFormed(x) /\ x = [has |-> x.has, raw |-> x.raw, sub |-> x.sub, list |-> x.list]
      /\ x.sub \in [Inner -> Handles \cup {NULL}]
      /\ h # NULL => heap[h] \in Good(n)
  BY <1>1 DEF Sound, WellFormed
<1>4. /\ y = [has |-> y.has, raw |-> y.raw, sub |-> y.sub, list |-> y.list]
      /\ y.has = x.has \ {InteractionBit[n]} /\ y.raw = x.raw /\ y.list = x.list /\ y.sub = x.sub
  BY <1>3
<1>5. \A k \in Plain \cup Inner : k # n => InteractionBit[k] # InteractionBit[n]
  BY <1>1, InteractionBitsAreDistinct
<1>6. WellFormed(y)
  <2>1. \A k \in Plain : InteractionBit[k] \notin y.has => InteractionBit[k] \notin x.has
    BY <1>1, <1>4, <1>5, FieldsAreFields
  <2> QED BY <1>3, <1>4, <2>1 DEF WellFormed
<1>7. h \in Handles \cup {NULL} /\ y.sub = [x.sub EXCEPT ![n] = h]
  BY <1>1, <1>3, <1>4
<1>8. h # NULL => h \in Handles /\ heap'[h] = NewInfo(n) /\ NewInfo(n) \in Good(n)
  BY <1>1, <1>2, <1>3, <1>7, ClearedIsNew, NewIsGood DEF HeapShape
<1>9. HeapShape(heap') /\ \A g \in Handles : g # h => heap'[g] = heap[g]
  BY <1>1, <1>2 DEF HeapShape
<1>10. obj' = [obj EXCEPT ![o] = y]
  BY <1>1, <1>2
<1>11. \A k \in Plain \cup Inner : k # n => (InteractionBit[k] \in y.has <=> InteractionBit[k] \in x.has)
  BY <1>4, <1>5
<1>12. InteractionBit[n] \notin y.has
  BY <1>4
<1>13. SlotGiven(x, heap, y, heap', n, h)
  BY <1>6, <1>7, <1>8, <1>9, <1>11, <1>12 DEF SlotGiven
<1>14. PtrKept
  BY <1>2, InvParts DEF PtrKept
<1>15. SlotGiven(obj[o], heap, y, heap', n, h)
  BY <1>13
<1>16. ObjectsInv' /\ Loose' = Loose /\ Val' = [Val EXCEPT ![o] = Values!Absent(Val[o], n)]
  BY ONLY ObjectsInv, o \in Objects, <1>1, <1>10, <1>12, <1>14, <1>15, SlotStep
<1> QED BY <1>16, ValueSteps

-----------------------------------------------------------------------------
\* A write through the pointer, to an inner object that is owned or set.
LEMMA SetThroughSets ==
    ASSUME ObjectsInv, SetThrough
    PROVE  ObjectsInv' /\ (Values!SetLoose \/ \E o \in Objects, n \in Subs : Values!SetInner(o, n))
<1> PICK h, n : h = ptr.h /\ n = ptr.n
  OBVIOUS
<1> PICK k \in InfoFields : \E v \in Samples(InfoRead(n)[k]) :
        heap' = [heap EXCEPT ![h] = SetRaw(@, InfoBit(n)[k], k, v)]
  BY DEF SetThrough
<1> PICK v \in Samples(InfoRead(n)[k]) : heap' = [heap EXCEPT ![h] = SetRaw(@, InfoBit(n)[k], k, v)]
  OBVIOUS
<1> PICK i : i = SetRaw(heap[h], InfoBit(n)[k], k, v)
  OBVIOUS
<1>1. /\ obj = [q \in Objects |-> obj[q]] /\ HeapShape(heap) /\ \A q \in Objects : Sound(obj[q], heap)
      /\ Apart /\ LooseIsSound /\ NoLeak
  BY DEF ObjectsInv
<1>2. /\ h \in Handles /\ n \in Subs /\ n \in Inner /\ h # NULL /\ obj' = obj /\ ptr' = ptr
      /\ ptr.own \/ \E o \in Objects : obj[o].sub[n] = h /\ HasField(o, n)
  BY <1>1, FieldsAreFields DEF SetThrough, LooseIsSound
<1>3. HeapShape(heap') /\ heap'[h] = i /\ \A g \in Handles : g # h => heap'[g] = heap[g]
  BY <1>1, <1>2 DEF HeapShape
<1>4. k \in DOMAIN InfoRead(n)
  BY <1>2, InfosAssumption
<1>5. CASE ptr.own
  <2>1. heap[h] \in Good(n) /\ \A q \in Objects : h \notin Slots(obj[q])
    BY <1>1, <1>5 DEF LooseIsSound
  <2>2. i \in Good(n)
    BY <1>2, <1>4, <2>1, SetIsGood
  <2>3. ASSUME NEW q \in Objects PROVE Sound(obj[q], heap')
    <3>1. \A g \in Slots(obj[q]) : g \in Handles /\ g # h
      BY <1>1, <2>1, SlotsAreLive
    <3>2. Sound(obj[q], heap) /\ \A g \in Slots(obj[q]) : heap'[g] = heap[g]
      BY <1>1, <1>3, <3>1
    <3> QED BY ONLY <3>2, SoundElsewhere
  <2>4. LooseIsSound'
    BY <1>1, <1>2, <1>3, <2>1, <2>2 DEF LooseIsSound
  <2>5. NoLeak'
    BY <1>1, <1>2, <1>3, <1>5 DEF NoLeak
  <2>6. Apart'
    BY <1>1, <1>2 DEF Apart
  <2>7. ObjectsInv'
    BY <1>1, <1>2, <1>3, <2>3, <2>4, <2>5, <2>6 DEF ObjectsInv
  <2>8. Val' = Val
    <3>1. ASSUME NEW q \in Objects PROVE MessageOf(obj[q], heap') = MessageOf(obj[q], heap)
      <4>1. \A g \in Slots(obj[q]) : g \in Handles /\ g # h
        BY <1>1, <2>1, SlotsAreLive
      <4>2. Sound(obj[q], heap) /\ \A g \in Slots(obj[q]) : heap'[g] = heap[g]
        BY <1>1, <1>3, <4>1
      <4> QED BY ONLY <4>2, MessageElsewhere
    <3> QED BY <1>2, <3>1, ValIs
  <2>9. /\ Loose = [n |-> n, info |-> InfoView(n, heap[h])] /\ Loose # NoInfo
        /\ Loose' = [n |-> n, info |-> InfoView(n, i)]
    BY <1>1, <1>2, <1>3, <1>5, LooseIs DEF Loose
  <2>10. InfoView(n, i) = SetField(InfoView(n, heap[h]), k, v)
    BY <1>2, <1>4, <2>1, SetIsSetField
  <2>11. Loose.n = n /\ Loose' = [Loose EXCEPT !.info = SetField(@, k, v)]
    BY <2>9, <2>10
  <2>12. \E j \in InfoFields : \E w \in Samples(InfoRead(Loose.n)[j]) :
            Loose' = [Loose EXCEPT !.info = SetField(@, j, w)]
    BY <2>11
  <2>13. Values!SetLoose
    BY ONLY <2>8, <2>9, <2>12, LooseSteps
  <2> QED BY <2>7, <2>13
<1>6. CASE ~ptr.own
  <2> PICK o \in Objects : obj[o].sub[n] = h /\ HasField(o, n)
    BY <1>2, <1>6
  <2>1. Sound(obj[o], heap)
    BY <1>1
  <2> PICK x : x = obj[o]
    OBVIOUS
  <2>2. /\ WellFormed(x) /\ x.sub \in [Inner -> Handles \cup {NULL}] /\ heap[h] \in Good(n)
        /\ x.sub[n] = h /\ InteractionBit[n] \in x.has
    BY <1>2, <2>1 DEF Sound, HasField
  <2>3. i \in Good(n) /\ x.sub = [x.sub EXCEPT ![n] = h] /\ InfoView(n, i) = SetField(InfoView(n, heap[h]), k, v)
    BY <1>2, <1>4, <2>2, SetIsGood, SetIsSetField
  <2>4. SlotGiven(x, heap, x, heap', n, h)
    BY <1>2, <1>3, <2>2, <2>3 DEF SlotGiven
  <2>5. PtrKept
    BY <1>1, <1>2, <1>6 DEF PtrKept, LooseIsSound
  <2>6. obj' = [obj EXCEPT ![o] = x] /\ SlotGiven(obj[o], heap, x, heap', n, h)
    BY <1>1, <1>2, <2>4
  <2>7. /\ ObjectsInv' /\ Val[o] = MessageOf(obj[o], heap) /\ Loose' = Loose
        /\ Val' = [Val EXCEPT ![o] = SetField(Val[o], n, InfoView(n, heap'[h]))]
    <3>1. n \in Inner /\ InteractionBit[n] \in x.has
      BY <1>2, <2>2
    <3>2. obj' = [obj EXCEPT ![o] = x]
      BY <2>6
    <3>3. SlotGiven(obj[o], heap, x, heap', n, h)
      BY <2>6
    <3>4. Becomes(obj[o], heap, x, heap')
      BY ONLY <2>1, <3>1, <3>3, SlotBecomes
    <3>5. Changes(o, x)
      BY ONLY <2>5, <3>2, <3>4 DEF Changes
    <3>6. /\ ObjectsInv' /\ Val[o] = MessageOf(obj[o], heap) /\ Loose' = Loose
          /\ Val' = [Val EXCEPT ![o] = MessageOf(x, heap')]
      BY ONLY ObjectsInv, o \in Objects, <3>5, ChangeStep
    <3>7. \A m \in Inner : m # n /\ obj[o].sub[m] # NULL => obj[o].sub[m] # h
      BY <2>1, <2>2, <3>1, <1>2 DEF Sound
    <3>8. SlotChanges(obj[o], heap, x, heap', n, h)
      BY <3>3, <3>7 DEF SlotGiven, SlotChanges
    <3>9. MessageOf(x, heap') = SetField(MessageOf(obj[o], heap), n, InfoView(n, heap'[h]))
      BY ONLY <2>1, <3>1, <3>8, SlotMessage
    <3> QED BY <3>6, <3>9
  <2>8. Present(Val[o], n) /\ Val[o].f[n] = InfoView(n, heap[h])
    <3>1. InteractionBit[n] \in obj[o].has /\ obj[o].sub[n] = h
      BY <2>2
    <3> QED BY <1>2, <2>1, <2>7, <3>1, SubRead
  <2>9. InfoView(n, heap'[h]) = SetField(Val[o].f[n], k, v)
    BY <1>3, <2>3, <2>8
  <2>10. \E j \in InfoFields : \E w \in Samples(InfoRead(n)[j]) :
            Val' = [Val EXCEPT ![o] = SetField(Val[o], n, SetField(Val[o].f[n], j, w))]
    BY <2>7, <2>9
  <2>11. Values!SetInner(o, n)
    BY ONLY <2>7, <2>8, <2>10, ValueSteps
  <2> QED BY <1>2, <2>7, <2>11
<1> QED BY <1>5, <1>6

\* x without the inner message n.
Without(x, n) == [x EXCEPT !.has = @ \ {InteractionBit[n]}, !.sub[n] = NULL]

\* An object that has given away its inner object of field n.
LEMMA WithoutField ==
    ASSUME NEW x, WellFormed(x), NEW n \in Inner, NEW y, y = Without(x, n)
    PROVE  /\ WellFormed(y) /\ InteractionBit[n] \notin y.has /\ y.raw = x.raw /\ y.list = x.list
           /\ y.sub = [x.sub EXCEPT ![n] = NULL]
           /\ \A k \in Plain \cup Inner :
                 k # n => (InteractionBit[k] \in y.has <=> InteractionBit[k] \in x.has)
<1>1. /\ y = [has |-> y.has, raw |-> y.raw, sub |-> y.sub, list |-> y.list]
      /\ y.has = x.has \ {InteractionBit[n]} /\ y.raw = x.raw /\ y.list = x.list
      /\ y.sub = [x.sub EXCEPT ![n] = NULL]
  BY DEF WellFormed, Without
<1>2. \A k \in Plain \cup Inner : k # n => InteractionBit[k] # InteractionBit[n]
  BY InteractionBitsAreDistinct
<1>3. WellFormed(y)
  <2>1. \A k \in Plain : InteractionBit[k] \notin y.has => InteractionBit[k] \notin x.has
    BY <1>1, <1>2, FieldsAreFields
  <2> QED BY <1>1, <2>1 DEF WellFormed
<1> QED BY <1>1, <1>2, <1>3

\* x with the inner message n.
With(x, n, h) == [x EXCEPT !.has = @ \cup {InteractionBit[n]}, !.sub[n] = h]

\* An object that has been given h as its inner object of field n.
LEMMA WithField ==
    ASSUME NEW x, WellFormed(x), NEW n \in Inner, NEW h, NEW y, y = With(x, n, h)
    PROVE  /\ WellFormed(y) /\ InteractionBit[n] \in y.has /\ y.raw = x.raw /\ y.list = x.list
           /\ y.sub = [x.sub EXCEPT ![n] = h]
           /\ \A k \in Plain \cup Inner :
                 k # n => (InteractionBit[k] \in y.has <=> InteractionBit[k] \in x.has)
<1>1. /\ y = [has |-> y.has, raw |-> y.raw, sub |-> y.sub, list |-> y.list]
      /\ y.has = x.has \cup {InteractionBit[n]} /\ y.raw = x.raw /\ y.list = x.list
      /\ y.sub = [x.sub EXCEPT ![n] = h]
  BY DEF WellFormed, With
<1>2. InteractionBit[n] \in 0 .. 7 /\ \A k \in Plain \cup Inner : k # n => InteractionBit[k] # InteractionBit[n]
  BY InteractionBits, InteractionBitsAreDistinct
<1>3. WellFormed(y)
  <2>1. y.has \subseteq 0 .. 7
    BY <1>1, <1>2 DEF WellFormed
  <2>2. \A k \in Plain : InteractionBit[k] \notin y.has => InteractionBit[k] \notin x.has
    BY <1>1
  <2> QED BY <1>1, <2>1, <2>2 DEF WellFormed
<1> QED BY <1>1, <1>2, <1>3

\* The inner objects of y, which has another inner object in field n.
LEMMA SlotsWith ==
    ASSUME NEW x, NEW hp, Sound(x, hp), NEW n \in Inner, NEW h, NEW y, y.sub = [x.sub EXCEPT ![n] = h]
    PROVE  \A g : g \in Slots(y) <=> g # NULL /\ (g = h \/ (g \in Slots(x) /\ g # x.sub[n]))
<1>1. /\ x.sub \in [Inner -> Handles \cup {NULL}]
      /\ \A l, m \in Inner : x.sub[l] = x.sub[m] /\ x.sub[l] # NULL => l = m
  BY DEF Sound
<1>2. y.sub[n] = h /\ \A m \in Inner : m # n => y.sub[m] = x.sub[m]
  BY <1>1
<1>3. \A g : g \in Slots(y) <=> g # NULL /\ (g = h \/ \E m \in Inner : m # n /\ g = x.sub[m])
  BY <1>2 DEF Slots
<1>4. \A g : g # NULL => ((\E m \in Inner : m # n /\ g = x.sub[m]) <=> (g \in Slots(x) /\ g # x.sub[n]))
  BY <1>1 DEF Slots
<1> QED BY <1>3, <1>4

\* release_: the program owns what the field held.
LEMMA ReleaseReleases ==
    ASSUME ObjectsInv, NEW o \in Objects, NEW n \in Subs, Release(o, n)
    PROVE  ObjectsInv' /\ Values!Release(o, n)
<1> PICK x, h : x = obj[o] /\ h = x.sub[n]
  OBVIOUS
<1> PICK y : y = Without(x, n)
  OBVIOUS
<1>1. /\ obj = [q \in Objects |-> obj[q]] /\ HeapShape(heap) /\ \A q \in Objects : Sound(obj[q], heap)
      /\ Apart /\ LooseIsSound /\ NoLeak /\ Sound(x, heap) /\ n \in Inner
  BY FieldsAreFields DEF ObjectsInv
<1>2. /\ ~ptr.own /\ heap' = heap /\ ptr' = IF h = NULL THEN NoPtr ELSE [h |-> h, n |-> n, own |-> TRUE]
      /\ obj' = [obj EXCEPT ![o] = y]
  BY <1>1 DEF Release, Without
<1>3. /\ WellFormed(x) /\ x.sub \in [Inner -> Handles \cup {NULL}] /\ h \in Handles \cup {NULL}
      /\ h # NULL => heap[h] \in Good(n)
  BY <1>1 DEF Sound
<1>4. /\ WellFormed(y) /\ InteractionBit[n] \notin y.has /\ y.raw = x.raw /\ y.list = x.list
           /\ y.sub = [x.sub EXCEPT ![n] = NULL]
      /\ \A k \in Plain \cup Inner :
                 k # n => (InteractionBit[k] \in y.has <=> InteractionBit[k] \in x.has)
  BY <1>1, <1>3, WithoutField
<1>5. Sound(y, heap)
  BY <1>1, <1>4, OneSlot
<1>6. /\ \A g : g \in Slots(y) <=> g \in Slots(x) /\ g # h
      /\ h # NULL => h \in Slots(x)
  <2>1. NULL \notin Slots(x) /\ (h # NULL => h \in Slots(x))
    BY <1>1 DEF Slots
  <2> QED BY <1>1, <1>4, <2>1, SlotsWith
<1>7. /\ obj' = [q \in Objects |-> obj'[q]] /\ obj'[o] = y /\ \A q \in Objects : q # o => obj'[q] = obj[q]
  BY <1>1, <1>2
<1>8. \A q \in Objects : Sound(obj'[q], heap')
  BY <1>1, <1>2, <1>5, <1>7
<1>9. Apart'
  <2> SUFFICES ASSUME NEW p \in Objects, NEW q \in Objects, p # q PROVE Slots(obj'[p]) \cap Slots(obj'[q]) = {}
    BY DEF Apart
  <2>1. Slots(obj[p]) \cap Slots(obj[q]) = {}
    BY <1>1 DEF Apart
  <2>2. \A r \in Objects : Slots(obj'[r]) \subseteq Slots(obj[r])
    BY <1>6, <1>7
  <2> QED BY <2>1, <2>2
<1>v. Val' = [Val EXCEPT ![o] = Values!Absent(Val[o], n)]
  <2>1. ASSUME NEW q \in Objects, q # o PROVE MessageOf(obj'[q], heap') = MessageOf(obj[q], heap)
    BY <1>2, <1>7, <2>1
  <2>2. MessageOf(y, heap) = Values!Absent(MessageOf(x, heap), n)
    <3> PICK g : g = NULL
      OBVIOUS
    <3>1. SlotChanges(x, heap, y, heap, n, g)
      BY <1>4 DEF SlotChanges
    <3>2. Sound(x, heap) /\ n \in Inner /\ InteractionBit[n] \notin y.has
      BY <1>1, <1>4
    <3> QED BY ONLY <3>1, <3>2, SlotMessage
  <2> QED BY <1>2, <1>7, <2>1, <2>2, ValIs
<1>s. /\ Val[o] = MessageOf(obj[o], heap) /\ Loose = NoInfo
      /\ Present(Val[o], n) <=> InteractionBit[n] \in x.has
      /\ h # NULL => SubOf(Val[o], n) = InfoView(n, heap[h])
      /\ h = NULL => ~Present(Val[o], n)
  <2>1. Val[o] = MessageOf(obj[o], heap) /\ Loose = NoInfo
    BY <1>1, <1>2, ValIs, LooseIs
  <2>2. Sound(obj[o], heap) /\ n \in Inner
    BY <1>1
  <2> QED BY <2>1, <2>2, SubRead
<1>10. CASE h = NULL
  <2>1. ptr' = [h |-> NULL, n |-> NULL, own |-> FALSE]
    BY <1>2, <1>10 DEF NoPtr
  <2>2. LooseIsSound'
    BY <2>1 DEF LooseIsSound
  <2>3. NoLeak'
    <3>1. \A g \in Handles : g # h
      BY <1>10, NullIsNoHandle
    <3>2. \A q \in Objects, g \in Handles : g \in Slots(obj[q]) => g \in Slots(obj'[q])
      BY <1>6, <1>7, <3>1
    <3> QED BY <1>1, <1>2, <3>2 DEF NoLeak
  <2>4. ObjectsInv'
    BY <1>1, <1>2, <1>7, <1>8, <1>9, <2>2, <2>3 DEF ObjectsInv
  <2>5. Loose' = NoInfo
    BY <2>1 DEF Loose
  <2>6. Values!Release(o, n)
    BY <1>v, <1>s, <1>10, <2>5, LooseSteps
  <2> QED BY <2>4, <2>6
<1>11. CASE h # NULL
  <2>1. ptr' = [h |-> h, n |-> n, own |-> TRUE] /\ h \in Handles /\ heap[h] \in Good(n)
    BY <1>2, <1>3, <1>11
  <2>2. \A q \in Objects : h \notin Slots(obj'[q])
    <3> SUFFICES ASSUME NEW q \in Objects, q # o PROVE h \notin Slots(obj[q])
      BY <1>6, <1>7
    <3> QED BY <1>1, <1>6, <1>11 DEF Apart
  <2>3. LooseIsSound'
    BY <1>2, <1>11, <2>1, <2>2 DEF LooseIsSound
  <2>4. NoLeak'
    <3>1. \A q \in Objects, g \in Handles : g # h /\ g \in Slots(obj[q]) => g \in Slots(obj'[q])
      BY <1>6, <1>7
    <3> QED BY <1>1, <1>2, <2>1, <3>1 DEF NoLeak
  <2>5. ObjectsInv'
    BY <1>1, <1>2, <1>7, <1>8, <1>9, <2>3, <2>4 DEF ObjectsInv
  <2>6. Loose' = [n |-> n, info |-> SubOf(Val[o], n)]
    BY <1>2, <1>s, <1>11, <2>1 DEF Loose
  <2>7. Values!Release(o, n)
    BY ONLY <1>v, <1>s, <2>6, LooseSteps
  <2> QED BY <2>5, <2>7
<1> QED BY <1>10, <1>11

\* set_allocated_: the field owns what the program held, and what it
\* had is deleted.
LEMMA SetAllocatedInstalls ==
    ASSUME ObjectsInv, NEW o \in Objects, NEW n \in Subs, SetAllocated(o, n)
    PROVE  ObjectsInv' /\ Values!Install(o, n)
<1> PICK x, old : x = obj[o] /\ old = x.sub[n]
  OBVIOUS
<1>1. /\ obj = [q \in Objects |-> obj[q]] /\ HeapShape(heap) /\ \A q \in Objects : Sound(obj[q], heap)
      /\ Apart /\ LooseIsSound /\ NoLeak /\ Sound(x, heap) /\ n \in Inner
  BY FieldsAreFields DEF ObjectsInv
<1>2. heap' = IF old # NULL THEN [heap EXCEPT ![old] = Freed] ELSE heap
  BY DEF SetAllocated
<1>3. /\ WellFormed(x) /\ x.sub \in [Inner -> Handles \cup {NULL}] /\ old \in Handles \cup {NULL}
      /\ x = [has |-> x.has, raw |-> x.raw, sub |-> x.sub, list |-> x.list]
      /\ \A m \in Inner : m # n /\ x.sub[m] # NULL => x.sub[m] # old
      /\ ptr \in [h : Handles \cup {NULL}, n : Subs \cup {NULL}, own : BOOLEAN]
  BY <1>1 DEF Sound, LooseIsSound, WellFormed
<1>4. /\ HeapShape(heap') /\ \A g \in Handles : g # old => heap'[g] = heap[g]
      /\ old # NULL => heap'[old] = Freed
  BY <1>1, <1>2, <1>3 DEF HeapShape
<1>5. CASE ~ptr.own
  <2> PICK y : y = Without(x, n)
    OBVIOUS
  <2>1. obj' = [obj EXCEPT ![o].sub[n] = NULL, ![o].has = @ \ {InteractionBit[n]}] /\ ptr' = NoPtr
    BY <1>5 DEF SetAllocated
  <2>2. obj' = [obj EXCEPT ![o] = y]
    BY <1>1, <1>3, <2>1 DEF Without
  <2>3. /\ WellFormed(y) /\ InteractionBit[n] \notin y.has /\ y.raw = x.raw /\ y.list = x.list
           /\ y.sub = [x.sub EXCEPT ![n] = NULL]
        /\ \A k \in Plain \cup Inner :
                 k # n => (InteractionBit[k] \in y.has <=> InteractionBit[k] \in x.has)
    BY <1>1, <1>3, WithoutField
  <2>4. SlotGiven(x, heap, y, heap', n, NULL)
    BY <1>4, <2>3 DEF SlotGiven
  <2>5. PtrKept
    BY <1>5, <2>1 DEF PtrKept, NoPtr
  <2> PICK g : g = NULL
    OBVIOUS
  <2>6. SlotGiven(obj[o], heap, y, heap', n, g)
    BY <2>4
  <2>7. ObjectsInv' /\ Loose' = Loose /\ Val' = [Val EXCEPT ![o] = Values!Absent(Val[o], n)]
    BY ONLY ObjectsInv, o \in Objects, <1>1, <2>2, <2>3, <2>5, <2>6, SlotStep
  <2>8. Loose = NoInfo
    BY <1>1, <1>5, LooseIs
  <2>9. Values!Install(o, n)
    BY <2>7, <2>8, LooseSteps
  <2> QED BY <2>7, <2>9
<1>6. CASE ptr.own
  <2> PICK h : h = ptr.h
    OBVIOUS
  <2> PICK y : y = With(x, n, h)
    OBVIOUS
  <2>1. /\ ptr.n = n /\ h # NULL /\ h \in Handles /\ heap[h] \in Good(n) /\ \A q \in Objects : h \notin Slots(obj[q])
    BY <1>1, <1>3, <1>6 DEF SetAllocated, LooseIsSound
  <2>2. /\ obj' = [obj EXCEPT ![o].sub[n] = h, ![o].has = @ \cup {InteractionBit[n]}]
        /\ ptr' = [ptr EXCEPT !.own = FALSE]
    BY <1>6, <2>1 DEF SetAllocated
  <2>3. obj' = [obj EXCEPT ![o] = y]
    BY <1>1, <1>3, <2>2 DEF With
  <2>4. /\ WellFormed(y) /\ InteractionBit[n] \in y.has /\ y.raw = x.raw /\ y.list = x.list
           /\ y.sub = [x.sub EXCEPT ![n] = h]
        /\ \A k \in Plain \cup Inner :
                 k # n => (InteractionBit[k] \in y.has <=> InteractionBit[k] \in x.has)
    BY <1>1, <1>3, WithField
  <2>5. h # old /\ \A m \in Inner : x.sub[m] # NULL => x.sub[m] # h
    BY <1>1, <2>1 DEF Slots
  <2>6. Sound(y, heap')
    <3>1. \A m \in Inner : m # n /\ x.sub[m] # NULL => heap'[x.sub[m]] = heap[x.sub[m]]
      BY <1>3, <1>4
    <3>2. heap'[h] \in Good(n)
      BY <1>4, <2>1, <2>5
    <3> QED BY <1>1, <2>1, <2>4, <2>5, <3>1, <3>2, OneSlot
  <2>7. /\ obj' = [q \in Objects |-> obj'[q]] /\ obj'[o] = y /\ \A q \in Objects : q # o => obj'[q] = obj[q]
    BY <1>1, <2>3
  <2>8. \A g : g \in Slots(y) <=> g = h \/ (g \in Slots(x) /\ g # old)
    <3>1. NULL \notin Slots(x)
      BY DEF Slots
    <3> QED BY <1>1, <2>1, <2>4, <3>1, SlotsWith
  <2>9. ASSUME NEW q \in Objects, q # o, NEW g \in Slots(obj[q]) PROVE g \in Handles /\ g # old /\ g \notin Slots(y)
    <3>1. old # NULL => old \in Slots(x)
      BY <1>1 DEF Slots
    <3>2. g \in Handles /\ g \notin Slots(x) /\ g # h
      BY <1>1, <2>1, <2>9, SlotsAreLive DEF Apart
    <3> QED BY <2>8, <3>1, <3>2, NullIsNoHandle
  <2>10. \A q \in Objects : Sound(obj'[q], heap')
    <3> SUFFICES ASSUME NEW q \in Objects, q # o PROVE Sound(obj[q], heap')
      BY <2>6, <2>7
    <3> QED BY <1>1, <1>4, <2>9, SoundElsewhere
  <2>11. Apart'
    <3> SUFFICES ASSUME NEW p \in Objects, NEW q \in Objects, p # q PROVE Slots(obj'[p]) \cap Slots(obj'[q]) = {}
      BY DEF Apart
    <3>1. CASE p # o /\ q # o
      BY <1>1, <2>7, <3>1 DEF Apart
    <3>2. CASE p = o \/ q = o
      BY <2>7, <2>9, <3>2
    <3> QED BY <3>1, <3>2
  <2>12. /\ ptr' \in [h : Handles \cup {NULL}, n : Subs \cup {NULL}, own : BOOLEAN]
         /\ ptr'.own = FALSE /\ ptr'.n = n
    BY <1>3, <2>1, <2>2
  <2>13. LooseIsSound'
    BY <2>12 DEF LooseIsSound
  <2>14. NoLeak'
    <3> SUFFICES ASSUME NEW g \in Handles, heap'[g] # Freed PROVE \E q \in Objects : g \in Slots(obj'[q])
      BY DEF NoLeak
    <3>1. g # old /\ heap[g] # Freed
      BY <1>4, NullIsNoHandle
    <3>2. g = h \/ \E q \in Objects : g \in Slots(obj[q])
      BY <1>1, <3>1 DEF NoLeak
    <3>3. CASE g = h
      BY <2>7, <2>8, <3>3
    <3>4. ASSUME NEW q \in Objects, g \in Slots(obj[q]) PROVE g \in Slots(obj'[q])
      BY <2>7, <2>8, <3>1, <3>4
    <3> QED BY <3>2, <3>3, <3>4
  <2>15. ObjectsInv'
    BY <1>4, <2>7, <2>10, <2>11, <2>13, <2>14 DEF ObjectsInv
  <2>16. ASSUME NEW q \in Objects, q # o PROVE MessageOf(obj'[q], heap') = MessageOf(obj[q], heap)
    <3>1. Sound(obj[q], heap) /\ \A g \in Slots(obj[q]) : heap'[g] = heap[g]
      BY <1>1, <1>4, <2>9, <2>16
    <3>2. MessageOf(obj[q], heap') = MessageOf(obj[q], heap)
      BY ONLY <3>1, MessageElsewhere
    <3> QED BY <2>7, <2>16, <3>2
  <2>17. MessageOf(y, heap') = SetField(MessageOf(x, heap), n, InfoView(n, heap[h]))
    <3>1. heap'[h] = heap[h]
      BY <1>4, <2>1, <2>5
    <3>2. \A g \in Handles : g # h /\ g # x.sub[n] => heap'[g] = heap[g]
      BY <1>4
    <3>3. \A m \in Inner : m # n /\ x.sub[m] # NULL => x.sub[m] # h
      BY <2>5
    <3>4. MessageOf(y, heap') = SetField(MessageOf(x, heap), n, InfoView(n, heap'[h]))
      <4>1. SlotChanges(x, heap, y, heap', n, h)
        BY <2>4, <3>2, <3>3 DEF SlotChanges
      <4>2. Sound(x, heap) /\ n \in Inner /\ InteractionBit[n] \in y.has
        BY <1>1, <2>4
      <4> QED BY ONLY <4>1, <4>2, SlotMessage
    <3> QED BY <3>1, <3>4
  <2>18. Val' = [Val EXCEPT ![o] = SetField(Val[o], n, InfoView(n, heap[h]))]
    BY <2>7, <2>16, <2>17, ValIs
  <2>19. Loose # NoInfo /\ Loose.n = n /\ Loose.info = InfoView(n, heap[h])
    BY <1>1, <1>6, <2>1, LooseIs
  <2>20. Loose' = NoInfo
    BY <2>12 DEF Loose
  <2>21. Val' = [Val EXCEPT ![o] = SetField(Val[o], n, Loose.info)]
    BY <2>18, <2>19
  <2>22. Values!Install(o, n)
    BY ONLY <2>19, <2>20, <2>21, LooseSteps
  <2> QED BY <2>15, <2>22
<1> QED BY <1>5, <1>6

\* Swap exchanges the inner objects with the fields.
LEMMA SwapSwaps ==
    ASSUME ObjectsInv, NEW o \in Objects, NEW q \in Objects, Swap(o, q)
    PROVE  ObjectsInv' /\ Values!Swap(o, q)
<1>1. /\ obj = [p \in Objects |-> obj[p]] /\ HeapShape(heap) /\ \A p \in Objects : Sound(obj[p], heap)
      /\ Apart /\ LooseIsSound /\ NoLeak
  BY DEF ObjectsInv
<1>2. /\ obj' = [obj EXCEPT ![o] = obj[q], ![q] = obj[o]] /\ heap' = heap /\ ptr' = ptr
  BY DEF Swap
<1> PICK s : s = [p \in Objects |-> IF p = o THEN q ELSE IF p = q THEN o ELSE p]
  OBVIOUS
<1>3. \A p \in Objects : s[p] \in Objects /\ s[s[p]] = p /\ obj'[p] = obj[s[p]]
  BY <1>1, <1>2
<1>4. obj' = [p \in Objects |-> obj'[p]]
  BY <1>1, <1>2
<1>5. Apart'
  <2> SUFFICES ASSUME NEW p \in Objects, NEW r \in Objects, p # r PROVE Slots(obj[s[p]]) \cap Slots(obj[s[r]]) = {}
    BY <1>3 DEF Apart
  <2> QED BY <1>1, <1>3 DEF Apart
<1>6. LooseIsSound'
  <2>1. \A h : (\A p \in Objects : h \notin Slots(obj[p])) => \A p \in Objects : h \notin Slots(obj'[p])
    BY <1>3
  <2> QED BY <1>1, <1>2, <2>1 DEF LooseIsSound
<1>7. NoLeak'
  <2>1. \A h : (\E p \in Objects : h \in Slots(obj[p])) => \E p \in Objects : h \in Slots(obj'[p])
    BY <1>3
  <2> QED BY <1>1, <1>2, <2>1 DEF NoLeak
<1>8. ObjectsInv'
  BY <1>1, <1>2, <1>3, <1>4, <1>5, <1>6, <1>7 DEF ObjectsInv
<1>9. Val' = [Val EXCEPT ![o] = Val[q], ![q] = Val[o]]
  <2>1. Val' = [p \in Objects |-> MessageOf(obj'[p], heap)] /\ Val = [p \in Objects |-> MessageOf(obj[p], heap)]
    BY <1>2, ValIs
  <2>2. /\ obj'[q] = obj[o]
        /\ q # o => obj'[o] = obj[q]
        /\ \A p \in Objects : p # o /\ p # q => obj'[p] = obj[p]
    BY <1>1, <1>2
  <2>3. \A p \in Objects : Val'[p] = IF p = q THEN Val[o] ELSE IF p = o THEN Val[q] ELSE Val[p]
    <3> SUFFICES ASSUME NEW p \in Objects PROVE Val'[p] = IF p = q THEN Val[o] ELSE IF p = o THEN Val[q] ELSE Val[p]
      OBVIOUS
    <3>1. /\ Val'[p] = MessageOf(obj'[p], heap) /\ Val[p] = MessageOf(obj[p], heap)
          /\ Val[o] = MessageOf(obj[o], heap) /\ Val[q] = MessageOf(obj[q], heap)
      BY <2>1
    <3>2. CASE p = q
      BY <2>2, <3>1, <3>2
    <3>3. CASE p # q /\ p = o
      BY <2>2, <3>1, <3>3
    <3>4. CASE p # q /\ p # o
      BY <2>2, <3>1, <3>4
    <3> QED BY <3>2, <3>3, <3>4
  <2>4. Val' = [p \in Objects |-> Val'[p]] /\ Val = [p \in Objects |-> Val[p]]
    BY <2>1
  <2> QED BY <2>3, <2>4
<1>10. Loose' = Loose
  BY <1>2 DEF Loose
<1>11. Values!Swap(o, q)
  BY <1>9, <1>10, PairSteps
<1> QED BY <1>8, <1>11

-----------------------------------------------------------------------------
\* Clear makes an object new but keeps its inner objects, which are as new.
LEMMA ClearedIsAsNew ==
    ASSUME NEW x, NEW hp, Sound(x, hp), HeapShape(hp),
           NEW y, y = ClearedObject(x), NEW hq, hq = ClearedHeap(hp, x)
    PROVE  /\ Sound(y, hq) /\ HeapShape(hq) /\ y.sub = x.sub /\ y.has = {}
           /\ y.list = [k \in {10, 11} |-> <<>>] /\ Has(y) = {}
           /\ \A h \in Handles : h \notin Slots(x) => hq[h] = hp[h]
<1>1. /\ WellFormed(x) /\ x.sub \in [Inner -> Handles \cup {NULL}]
      /\ \A n \in Inner : x.sub[n] # NULL => hp[x.sub[n]] \in Good(n)
      /\ \A n \in Inner : InteractionBit[n] \in x.has => x.sub[n] # NULL
      /\ \A n \in Inner : x.sub[n] # NULL /\ InteractionBit[n] \notin x.has => hp[x.sub[n]] = NewInfo(n)
      /\ \A m, n \in Inner : x.sub[m] = x.sub[n] /\ x.sub[m] # NULL => m = n
  BY DEF Sound
<1> PICK numbers, strings : /\ numbers = IF x.has \cap {5, 6, 7} # {} THEN {1, 4, 7} ELSE {}
                            /\ strings = IF 0 \in x.has THEN {9} ELSE {}
  OBVIOUS
<1>2. /\ y = [has |-> y.has, raw |-> y.raw, sub |-> y.sub, list |-> y.list]
      /\ y.has = {} /\ y.sub = x.sub /\ y.list = [k \in {10, 11} |-> <<>>]
      /\ y.raw = [k \in Plain |-> IF k \in numbers \cup strings
                                  THEN Default(InteractionRead[k]) ELSE x.raw[k]]
  BY <1>1 DEF ClearedObject, Plain, WellFormed
<1>3. \A k \in Plain : InteractionBit[k] \notin x.has => x.raw[k] = Default(InteractionRead[k])
  BY <1>1 DEF WellFormed
<1>4. \A k \in Plain : y.raw[k] = Default(InteractionRead[k])
  <2>1. /\ InteractionBit[1] = 5 /\ InteractionBit[4] = 6 /\ InteractionBit[7] = 7 /\ InteractionBit[9] = 0
    BY BitNumbers
  <2>2. \A k \in Plain : k \notin numbers \cup strings => InteractionBit[k] \notin x.has
    BY <2>1 DEF Plain
  <2> QED BY <1>2, <1>3, <2>2
<1>5. WellFormed(y)
  <2>1. y.raw = [k \in Plain |-> y.raw[k]]
    BY <1>2
  <2>2. y.list \in [{10, 11} -> Seq(Elements)]
    BY <1>2
  <2> QED BY <1>2, <1>4, <2>1, <2>2 DEF WellFormed
<1>6. hq = [h \in Handles |->
              IF \E n \in Inner : x.sub[n] = h /\ InteractionBit[n] \in x.has
              THEN InfoClear(CHOOSE n \in Inner : x.sub[n] = h, hp[h]) ELSE hp[h]]
  BY DEF ClearedHeap, Inner
<1>7. HeapShape(hq)
  BY <1>6 DEF HeapShape
<1>8. ASSUME NEW n \in Inner, x.sub[n] # NULL PROVE hq[x.sub[n]] = NewInfo(n)
  <2> PICK h : h = x.sub[n]
    OBVIOUS
  <2>1. h \in Handles /\ hp[h] \in Good(n) /\ \A m \in Inner : x.sub[m] = h => m = n
    BY <1>1, <1>8
  <2>2. CASE InteractionBit[n] \in x.has
    <3>1. (CHOOSE m \in Inner : x.sub[m] = h) = n
      BY <2>1
    <3>2. hq[h] = InfoClear(n, hp[h])
      BY <1>6, <2>1, <2>2, <3>1
    <3> QED BY <2>1, <3>2, ClearedIsNew
  <2>3. CASE InteractionBit[n] \notin x.has
    <3>1. hq[h] = hp[h]
      BY <1>6, <2>1, <2>3
    <3> QED BY <1>1, <1>8, <2>3, <3>1
  <2> QED BY <2>2, <2>3
<1>9. Sound(y, hq)
  <2>1. \A n \in Inner : x.sub[n] # NULL => hq[x.sub[n]] \in Good(n)
    BY <1>8, NewIsGood
  <2> QED BY <1>1, <1>2, <1>5, <1>8, <2>1 DEF Sound
<1>10. ASSUME NEW h \in Handles, h \notin Slots(x) PROVE hq[h] = hp[h]
  <2>1. \A n \in Inner : x.sub[n] # h
    BY <1>10, NullIsNoHandle DEF Slots
  <2> QED BY <1>6, <2>1
<1>11. Has(y) = {}
  BY <1>2 DEF Has
<1> QED BY <1>2, <1>7, <1>9, <1>10, <1>11

\* Clear of an object, whether its inner objects are set or kept.
LEMMA ClearClears ==
    ASSUME ObjectsInv, NEW o \in Objects, Clear(o)
    PROVE  ObjectsInv' /\ Values!Clear(o)
<1> PICK y : y = ClearedObject(obj[o])
  OBVIOUS
<1>1. Sound(obj[o], heap) /\ HeapShape(heap) /\ obj = [q \in Objects |-> obj[q]]
  BY InvParts
<1>2. obj' = [obj EXCEPT ![o] = y] /\ heap' = ClearedHeap(heap, obj[o]) /\ ptr' = ptr
  BY <1>1 DEF Clear
<1>3. /\ Sound(y, heap') /\ HeapShape(heap') /\ y.sub = obj[o].sub /\ Has(y) = {}
      /\ \A h \in Handles : h \notin Slots(obj[o]) => heap'[h] = heap[h]
  BY <1>1, <1>2, ClearedIsAsNew
<1>4. Slots(y) = Slots(obj[o])
  BY <1>3 DEF Slots
<1>5. Becomes(obj[o], heap, y, heap')
  BY <1>3, <1>4 DEF Becomes
<1>6. PtrKept
  BY <1>2, InvParts DEF PtrKept
<1>7. Changes(o, y)
  BY <1>2, <1>5, <1>6 DEF Changes
<1>8. MessageOf(y, heap') = Empty
  BY <1>3, MessageEmpty
<1>9. ObjectsInv' /\ Loose' = Loose /\ Val' = [Val EXCEPT ![o] = MessageOf(y, heap')]
  BY <1>7, ChangeStep
<1> QED BY <1>8, <1>9, ValueSteps

\* z on heap hz stands for the message of x with that of y merged into it.
MergeOf(x, hp, y, z, hz) ==
  /\ Has(z) = Has(x) \cup Has(y)
  /\ \A k \in Has(x) : k \notin Has(y) => FieldOf(z, hz, k) = FieldOf(x, hp, k)
  /\ \A k \in Has(y) : k \in Plain => FieldOf(z, hz, k) = FieldOf(y, hp, k)
  /\ \A k \in Has(y) : k \in Inner =>
        FieldOf(z, hz, k) = MergeInfo(interaction.class[k], SubOf(MessageOf(x, hp), k), FieldOf(y, hp, k))
  /\ \A k \in Has(y) : k \in {10, 11} => FieldOf(z, hz, k) = x.list[k] \o FieldOf(y, hp, k)

\* MergeFrom reaches all fields, each in the way of its kind.
LEMMA InteractionMerges ==
    /\ interaction.merged = Plain \cup Inner \cup {10, 11}
    /\ \A k \in Plain : interaction.read[k] # "repeated" /\ interaction.read[k] # "message"
    /\ \A k \in Inner : interaction.read[k] = "message"
    /\ \A k \in {10, 11} : interaction.read[k] = "repeated"
<1>1. interaction.read = InteractionRead /\ interaction.merged = ToSet(InteractionMerged) \cup {10, 11}
  BY DEF interaction, Interaction
<1>2. ToSet(InteractionMerged) = {9, 2, 3, 5, 6, 1, 4, 7}
  BY DEF ToSet, InteractionMerged
<1>3. interaction.merged = Plain \cup Inner \cup {10, 11}
  BY <1>1, <1>2 DEF Plain, Inner
<1>4. \A k \in Plain : InteractionRead[k] # "repeated" /\ InteractionRead[k] # "message"
  BY DEF InteractionRead, Plain
<1>5. \A k \in Inner : InteractionRead[k] = "message"
  BY DEF InteractionRead, Inner
<1>6. \A k \in {10, 11} : InteractionRead[k] = "repeated"
  BY DEF InteractionRead
<1> QED BY <1>1, <1>3, <1>4, <1>5, <1>6

\* Merging field by field is merging the messages.
LEMMA MessageMerge ==
    ASSUME NEW x, NEW hp, NEW y, NEW z, NEW hz, MergeOf(x, hp, y, z, hz)
    PROVE  MessageOf(z, hz) = Merge(interaction, MessageOf(x, hp), MessageOf(y, hp))
<1> PICK a, b : a = MessageOf(x, hp) /\ b = MessageOf(y, hp)
  OBVIOUS
<1> DEFINE taken == interaction.merged \cap DOMAIN b.f
           merged(n) == CASE interaction.read[n] = "repeated" -> ListOf(a, n) \o b.f[n]
                          [] interaction.read[n] = "message" -> MergeInfo(interaction.class[n], SubOf(a, n), b.f[n])
                          [] OTHER -> b.f[n]
<1>1. Merge(interaction, a, b)
         = [f |-> [n \in DOMAIN a.f \cup taken |-> IF n \in taken THEN merged(n) ELSE a.f[n]],
            unknown |-> a.unknown \o b.unknown]
  BY DEF Merge
<1>2. /\ a.f = [n \in Has(x) |-> FieldOf(x, hp, n)] /\ b.f = [n \in Has(y) |-> FieldOf(y, hp, n)]
      /\ a.unknown = <<>> /\ b.unknown = <<>>
  BY MessageParts
<1>3. taken = Has(y)
  BY <1>2, InteractionMerges DEF Has
<1>4. \A n \in Has(y) : n \in Plain \/ n \in Inner \/ n \in {10, 11}
  BY DEF Has
<1>5. ASSUME NEW n \in Has(y) PROVE merged(n) = FieldOf(z, hz, n)
  <2>1. b.f[n] = FieldOf(y, hp, n)
    BY <1>2
  <2>2. CASE n \in Plain
    BY <2>1, <2>2, InteractionMerges DEF MergeOf
  <2>3. CASE n \in Inner
    BY <2>1, <2>3, InteractionMerges DEF MergeOf
  <2>4. CASE n \in {10, 11}
    <3>1. ListOf(a, n) = x.list[n]
      BY <2>4, ListRead
    <3>2. n \notin Plain /\ n \notin Inner /\ interaction.read[n] = "repeated"
      BY <2>4, FieldsAreFields, InteractionMerges
    <3>3. FieldOf(z, hz, n) = x.list[n] \o FieldOf(y, hp, n)
      BY <2>4 DEF MergeOf
    <3> QED BY <2>1, <3>1, <3>2, <3>3
  <2> QED BY <1>4, <2>2, <2>3, <2>4
<1> HIDE DEF merged, taken
<1>6. [n \in DOMAIN a.f \cup taken |-> IF n \in taken THEN merged(n) ELSE a.f[n]]
         = [n \in Has(z) |-> FieldOf(z, hz, n)]
  BY <1>2, <1>3, <1>5 DEF MergeOf
<1>7. <<>> \o <<>> = <<>>
  OBVIOUS
<1> QED BY <1>1, <1>2, <1>6, <1>7 DEF MessageOf

\* Merging y into x: x keeps what it holds, and holds a new inner object for
\* each inner message that only y has.
LEMMA MergedIsSound ==
    ASSUME NEW x, NEW y, NEW hp, Sound(x, hp), Sound(y, hp), HeapShape(hp),
           Placings(hp, Fresh(x, y)) # {}, NEW r, r = Merged(x, hp, y)
    PROVE  /\ Becomes(x, hp, r.x, r.hp) /\ Slots(x) \subseteq Slots(r.x)
           /\ MergeOf(x, hp, y, r.x, r.hp)
<1> DEFINE taken == Flagged(y, InteractionMerged, 7)
           inner == Taken(y)
           fresh == Fresh(x, y)
           new == NewHandles(hp, fresh)
           sub == [n \in Inner |-> IF n \in fresh THEN new[n] ELSE x.sub[n]]
           base(n) == IF n \in fresh THEN NewInfo(n) ELSE hp[x.sub[n]]
           raw == [k \in Plain |-> IF k \in taken THEN y.raw[k] ELSE x.raw[k]]
           list == [k \in {10, 11} |-> x.list[k] \o y.list[k]]
           at(h) == CHOOSE n \in inner : sub[n] = h
           X == [has |-> x.has \cup y.has, raw |-> raw, sub |-> sub, list |-> list]
           H == [h \in Handles |->
                   IF \E n \in inner : sub[n] = h
                   THEN InfoMergeFrom(at(h), base(at(h)), hp[y.sub[at(h)]])
                   ELSE hp[h]]
<1>a. r = [x |-> X, hp |-> H]
  BY DEF Merged, Inner, Plain
<1>b. r.x = X /\ r.hp = H
  <2> HIDE DEF X, H
  <2> QED BY <1>a
<1>c. /\ sub = [n \in Inner |-> IF n \in fresh THEN new[n] ELSE x.sub[n]]
      /\ raw = [k \in Plain |-> IF k \in taken THEN y.raw[k] ELSE x.raw[k]]
      /\ list = [k \in {10, 11} |-> x.list[k] \o y.list[k]]
      /\ \A n : base(n) = IF n \in fresh THEN NewInfo(n) ELSE hp[x.sub[n]]
  OBVIOUS
<1> HIDE DEF taken, inner, fresh, new, sub, base, raw, list
<1>1. /\ WellFormed(x) /\ x.sub \in [Inner -> Handles \cup {NULL}]
      /\ \A n \in Inner : x.sub[n] # NULL => hp[x.sub[n]] \in Good(n) /\ hp[x.sub[n]] # Freed
      /\ \A n \in Inner : InteractionBit[n] \in x.has => x.sub[n] # NULL
      /\ \A n \in Inner : x.sub[n] # NULL /\ InteractionBit[n] \notin x.has => hp[x.sub[n]] = NewInfo(n)
      /\ \A m, n \in Inner : x.sub[m] = x.sub[n] /\ x.sub[m] # NULL => m = n
  BY GoodParts DEF Sound
<1>2. /\ WellFormed(y)
      /\ \A n \in Inner : InteractionBit[n] \in y.has => hp[y.sub[n]] \in Good(n)
  BY DEF Sound
<1>3. /\ x.has \subseteq 0 .. 7 /\ y.has \subseteq 0 .. 7
      /\ \A k \in Plain : InteractionBit[k] \notin x.has => x.raw[k] = Default(InteractionRead[k])
      /\ x.list \in [{10, 11} -> Seq(Elements)] /\ y.list \in [{10, 11} -> Seq(Elements)]
  BY <1>1, <1>2 DEF WellFormed
<1>4. /\ taken = {k \in Plain \cup Inner : InteractionBit[k] \in y.has}
      /\ inner = {n \in Inner : InteractionBit[n] \in y.has}
      /\ fresh = {n \in inner : x.sub[n] = NULL}
  BY <1>3, TakenAreSet DEF Fresh, taken, inner, fresh
<1>5. /\ new \in [fresh -> Handles] /\ \A n \in fresh : hp[new[n]] = Freed
      /\ \A m, n \in fresh : new[m] = new[n] => m = n
  BY NewHandlesAreFree DEF new, fresh
<1>7. /\ sub \in [Inner -> Handles \cup {NULL}]
      /\ \A n \in fresh : n \in Inner /\ sub[n] = new[n] /\ hp[sub[n]] = Freed /\ sub[n] # NULL
      /\ \A n \in Inner : n \notin fresh => sub[n] = x.sub[n]
  BY <1>c, <1>1, <1>4, <1>5, NullIsNoHandle
<1>8. \A m, n \in Inner : sub[m] = sub[n] /\ sub[m] # NULL => m = n
  BY <1>1, <1>5, <1>7
<1>9. \A n \in inner : n \in Inner /\ sub[n] # NULL /\ sub[n] \in Handles /\ base(n) \in Good(n)
  BY <1>c, <1>1, <1>4, <1>7, NewIsGood
<1>10. ASSUME NEW n \in inner
       PROVE  /\ r.hp[sub[n]] \in Good(n) /\ hp[y.sub[n]] \in Good(n)
              /\ r.hp[sub[n]] = InfoMergeFrom(n, base(n), hp[y.sub[n]])
  <2>1. at(sub[n]) = n
    BY <1>8, <1>9
  <2> HIDE DEF at
  <2>2. H[sub[n]] = InfoMergeFrom(n, base(n), hp[y.sub[n]])
    BY <1>9, <2>1
  <2>3. hp[y.sub[n]] \in Good(n)
    BY <1>2, <1>4
  <2> QED BY <1>b, <1>9, <2>2, <2>3, MergedIsGood
<1>11. ASSUME NEW n \in Inner, n \notin inner, sub[n] # NULL
       PROVE  sub[n] = x.sub[n] /\ r.hp[sub[n]] = hp[x.sub[n]]
  <2>1. sub[n] = x.sub[n] /\ sub[n] \in Handles
    BY <1>4, <1>7, <1>11
  <2>2. \A m \in inner : sub[m] # sub[n]
    BY <1>8, <1>9, <1>11
  <2> HIDE DEF at
  <2>3. H[sub[n]] = hp[sub[n]]
    BY <2>1, <2>2
  <2> QED BY <1>b, <2>1, <2>3
<1>12. WellFormed(X)
  <2>1. /\ X = [has |-> X.has, raw |-> X.raw, sub |-> X.sub, list |-> X.list]
        /\ X.has = x.has \cup y.has /\ X.raw = raw /\ X.list = list
    OBVIOUS
  <2> HIDE DEF X
  <2>2. raw = [k \in Plain |-> raw[k]] /\ list \in [{10, 11} -> Seq(Elements)]
    BY <1>c, <1>3
  <2>3. \A k \in Plain : InteractionBit[k] \notin x.has \cup y.has => raw[k] = Default(InteractionRead[k])
    BY <1>c, <1>3, <1>4
  <2>4. X.has \subseteq 0 .. 7
    BY <1>3, <2>1
  <2> QED BY <2>1, <2>2, <2>3, <2>4 DEF WellFormed
<1>d. /\ WellFormed(r.x) /\ r.x.sub = sub /\ r.x.has = x.has \cup y.has
      /\ r.x.raw = raw /\ r.x.list = list
  BY <1>b, <1>12
<1>13. Sound(r.x, r.hp)
  <2>1. \A n \in Inner : sub[n] # NULL => r.hp[sub[n]] \in Good(n)
    BY <1>1, <1>10, <1>11
  <2>2. \A n \in Inner : InteractionBit[n] \in x.has \cup y.has => sub[n] # NULL
    BY <1>1, <1>4, <1>7, <1>9
  <2>3. \A n \in Inner : sub[n] # NULL /\ InteractionBit[n] \notin x.has \cup y.has => r.hp[sub[n]] = NewInfo(n)
    BY <1>1, <1>4, <1>11
  <2> QED BY <1>7, <1>8, <1>d, <2>1, <2>2, <2>3 DEF Sound
<1>14. HeapShape(r.hp)
  BY <1>b DEF HeapShape
<1>15. Slots(x) \subseteq Slots(r.x)
  <2>1. \A n \in Inner : x.sub[n] # NULL => sub[n] = x.sub[n]
    BY <1>4, <1>7
  <2> QED BY <1>d, <2>1 DEF Slots
<1>16. \A h \in Slots(r.x) : h \in Slots(x) \/ hp[h] = Freed
  BY <1>7, <1>d DEF Slots
<1>17. ASSUME NEW h \in Handles, h \notin Slots(r.x) PROVE r.hp[h] = hp[h]
  <2>1. \A n \in inner : sub[n] # h
    BY <1>9, <1>d, <1>17 DEF Slots
  <2> HIDE DEF at
  <2> QED BY <1>b, <1>17, <2>1
<1>18. MergeOf(x, hp, y, r.x, r.hp)
  <2>1. Has(r.x) = Has(x) \cup Has(y)
    <3>1. \A n \in {10, 11} : list[n] # <<>> <=> x.list[n] # <<>> \/ y.list[n] # <<>>
      BY <1>c, <1>3
    <3> QED BY <1>d, <3>1 DEF Has
  <2>2. ASSUME NEW k \in Plain
        PROVE  /\ k \in Has(y) => FieldOf(r.x, r.hp, k) = FieldOf(y, hp, k)
               /\ k \notin Has(y) => FieldOf(r.x, r.hp, k) = FieldOf(x, hp, k)
    <3>1. k \in Has(y) <=> k \in taken
      BY <1>4, FieldsAreFields DEF Has
    <3>2. r.x.raw[k] = IF k \in taken THEN y.raw[k] ELSE x.raw[k]
      BY <1>c, <1>d
    <3> QED BY <3>1, <3>2 DEF FieldOf
  <2>3. ASSUME NEW k \in {10, 11}
        PROVE  /\ FieldOf(r.x, r.hp, k) = x.list[k] \o FieldOf(y, hp, k)
               /\ k \notin Has(y) => FieldOf(r.x, r.hp, k) = FieldOf(x, hp, k)
    <3>0. k \notin Plain /\ k \notin Inner
      BY FieldsAreFields
    <3>1. r.x.list[k] = x.list[k] \o y.list[k]
      BY <1>c, <1>d
    <3>2. k \notin Has(y) => y.list[k] = <<>>
      BY DEF Has
    <3>3. x.list[k] \in Seq(Elements) /\ x.list[k] \o <<>> = x.list[k]
      BY <1>3
    <3> QED BY <3>0, <3>1, <3>2, <3>3 DEF FieldOf
  <2>4. ASSUME NEW k \in Inner
        PROVE  /\ k \in Has(y) => FieldOf(r.x, r.hp, k)
                                     = MergeInfo(interaction.class[k], SubOf(MessageOf(x, hp), k), FieldOf(y, hp, k))
               /\ k \in Has(x) /\ k \notin Has(y) => FieldOf(r.x, r.hp, k) = FieldOf(x, hp, k)
    <3>1. /\ k \in Has(y) <=> k \in inner
          /\ k \in Has(x) => InteractionBit[k] \in x.has
      BY <1>4, FieldsAreFields DEF Has
    <3>2. /\ FieldOf(r.x, r.hp, k) = InfoView(k, r.hp[sub[k]])
          /\ FieldOf(y, hp, k) = InfoView(k, hp[y.sub[k]])
          /\ FieldOf(x, hp, k) = InfoView(k, hp[x.sub[k]])
      BY <1>d, FieldsAreFields DEF FieldOf
    <3>3. CASE k \in inner
      <4> PICK e, g : e = base(k) /\ g = hp[y.sub[k]]
        OBVIOUS
      <4>1. e \in Good(k) /\ g \in Good(k) /\ r.hp[sub[k]] = InfoMergeFrom(k, e, g)
        BY <1>9, <1>10, <3>3
      <4>2. InfoView(k, InfoMergeFrom(k, e, g)) = MergeInfo(interaction.class[k], InfoView(k, e), InfoView(k, g))
        BY ONLY k \in Inner, <4>1, MergedIsMerge
      <4>3. InfoView(k, e) = SubOf(MessageOf(x, hp), k)
        <5>1. /\ x.sub[k] # NULL => SubOf(MessageOf(x, hp), k) = InfoView(k, hp[x.sub[k]])
              /\ x.sub[k] = NULL => SubOf(MessageOf(x, hp), k) = Empty
          BY SubRead
        <5>2. k \in fresh <=> x.sub[k] = NULL
          BY <1>4, <3>3
        <5>3. e = IF k \in fresh THEN NewInfo(k) ELSE hp[x.sub[k]]
          BY <1>c
        <5> QED BY <5>1, <5>2, <5>3, NewIsEmpty
      <4> QED BY <3>1, <3>2, <3>3, <4>1, <4>2, <4>3
    <3>4. CASE k \notin inner
      <4>1. k \in Has(x) => sub[k] # NULL /\ sub[k] = x.sub[k]
        BY <1>1, <1>4, <1>7, <3>1, <3>4
      <4>2. k \in Has(x) => r.hp[sub[k]] = hp[x.sub[k]]
        BY <1>11, <3>4, <4>1
      <4> QED BY <3>1, <3>2, <3>4, <4>2
    <3> QED BY <3>3, <3>4
  <2>5. \A k \in Has(x) : k \in Plain \/ k \in Inner \/ k \in {10, 11}
    BY DEF Has
  <2>6. \A k \in Has(x) : k \notin Has(y) => FieldOf(r.x, r.hp, k) = FieldOf(x, hp, k)
    BY <2>2, <2>3, <2>4, <2>5
  <2> QED BY <2>1, <2>2, <2>3, <2>4, <2>6 DEF MergeOf
<1> QED BY <1>13, <1>14, <1>15, <1>16, <1>17, <1>18 DEF Becomes

\* MergeFrom of another object, as the code requires.
LEMMA MergeFromMerges ==
    ASSUME ObjectsInv, NEW o \in Objects, NEW q \in Objects, MergeFrom(o, q)
    PROVE  ObjectsInv' /\ Values!MergeFrom(o, q)
<1> PICK r : r = Merged(obj[o], heap, obj[q])
  OBVIOUS
<1>1. Sound(obj[o], heap) /\ Sound(obj[q], heap) /\ HeapShape(heap)
  BY InvParts
<1>2. /\ Placings(heap, Fresh(obj[o], obj[q])) # {}
      /\ obj' = [obj EXCEPT ![o] = r.x] /\ heap' = r.hp /\ ptr' = ptr
  BY DEF MergeFrom
<1>3. Becomes(obj[o], heap, r.x, r.hp) /\ MergeOf(obj[o], heap, obj[q], r.x, r.hp)
  BY <1>1, <1>2, MergedIsSound
<1>4. PtrKept
  BY <1>2, InvParts DEF PtrKept
<1> PICK y : y = r.x
  OBVIOUS
<1>5. Changes(o, y)
  BY <1>2, <1>3, <1>4 DEF Changes
<1>6. MessageOf(y, heap') = Merge(interaction, MessageOf(obj[o], heap), MessageOf(obj[q], heap))
  <2>1. MergeOf(obj[o], heap, obj[q], y, heap')
    BY <1>2, <1>3
  <2> QED BY ONLY <2>1, MessageMerge
<1>7. /\ ObjectsInv' /\ Loose' = Loose
      /\ Val[o] = MessageOf(obj[o], heap) /\ Val[q] = MessageOf(obj[q], heap)
      /\ Val' = [Val EXCEPT ![o] = MessageOf(y, heap')]
  BY ONLY ObjectsInv, o \in Objects, q \in Objects, <1>5, ChangeStep, ValIs
<1>8. Val' = [Val EXCEPT ![o] = Merge(interaction, Val[o], Val[q])]
  BY ONLY <1>6, <1>7
<1> QED BY ONLY <1>7, <1>8, PairSteps

\* Merging into an object without fields is copying.
LEMMA MergedIsCopied ==
    ASSUME NEW x, NEW hp, NEW y, Sound(y, hp), NEW z, NEW hz, MergeOf(x, hp, y, z, hz), Has(x) = {}
    PROVE  MessageOf(z, hz) = MessageOf(y, hp)
<1>1. /\ Has(z) = Has(y)
      /\ \A k \in Has(y) : k \in Plain => FieldOf(z, hz, k) = FieldOf(y, hp, k)
      /\ \A k \in Has(y) : k \in Inner =>
            FieldOf(z, hz, k) = MergeInfo(interaction.class[k], SubOf(MessageOf(x, hp), k), FieldOf(y, hp, k))
      /\ \A k \in Has(y) : k \in {10, 11} => FieldOf(z, hz, k) = x.list[k] \o FieldOf(y, hp, k)
  BY DEF MergeOf
<1>2. \A k \in {10, 11} : x.list[k] = <<>>
  BY DEF Has
<1>3. \A k : SubOf(MessageOf(x, hp), k) = Empty
  <2> PICK m : m = MessageOf(x, hp)
    OBVIOUS
  <2>1. \A k : ~Present(m, k)
    BY MessageParts
  <2> QED BY <2>1 DEF SubOf
<1>4. ASSUME NEW k \in Has(y) PROVE FieldOf(z, hz, k) = FieldOf(y, hp, k)
  <2>1. CASE k \in Plain
    BY <1>1, <2>1
  <2>2. CASE k \in Inner
    <3>1. InteractionBit[k] \in y.has
      BY <2>2, FieldsAreFields DEF Has
    <3> PICK g : g = hp[y.sub[k]]
      OBVIOUS
    <3>2. g \in Good(k) /\ FieldOf(y, hp, k) = InfoView(k, g)
      BY <2>2, <3>1, FieldsAreFields DEF Sound, FieldOf
    <3>3. MergeInfo(interaction.class[k], Empty, InfoView(k, g)) = InfoView(k, g)
      BY ONLY <2>2, <3>2, MergedIntoEmpty
    <3> QED BY <1>1, <1>3, <2>2, <3>2, <3>3
  <2>3. CASE k \in {10, 11}
    <3>1. FieldOf(y, hp, k) = y.list[k]
      BY <2>3, FieldsAreFields DEF FieldOf
    <3>2. y.list[k] \in Seq(Elements)
      BY <2>3 DEF Sound, WellFormed
    <3>3. <<>> \o y.list[k] = y.list[k]
      BY <3>2
    <3> QED BY <1>1, <1>2, <2>3, <3>1, <3>3
  <2> QED BY <2>1, <2>2, <2>3 DEF Has
<1> QED BY <1>1, <1>4, MessageSame

\* CopyFrom of another object: it clears and merges.
LEMMA CopyFromCopies ==
    ASSUME ObjectsInv, NEW o \in Objects, NEW q \in Objects, o # q, CopyFrom(o, q)
    PROVE  ObjectsInv' /\ Values!CopyFrom(o, q)
<1> PICK x, hp : x = ClearedObject(obj[o]) /\ hp = ClearedHeap(heap, obj[o])
  OBVIOUS
<1> PICK r : r = Merged(x, hp, obj[q])
  OBVIOUS
<1>1. Sound(obj[o], heap) /\ Sound(obj[q], heap) /\ HeapShape(heap) /\ Apart
  BY InvParts DEF ObjectsInv
<1>2. /\ Placings(hp, Fresh(x, obj[q])) # {}
      /\ obj' = [obj EXCEPT ![o] = r.x] /\ heap' = r.hp /\ ptr' = ptr
  BY DEF CopyFrom
<1>3. /\ Sound(x, hp) /\ HeapShape(hp) /\ x.sub = obj[o].sub /\ Has(x) = {}
      /\ \A h \in Handles : h \notin Slots(obj[o]) => hp[h] = heap[h]
  BY <1>1, ClearedIsAsNew
<1>4. Slots(x) = Slots(obj[o])
  BY <1>3 DEF Slots
<1>5. Sound(obj[q], hp) /\ MessageOf(obj[q], hp) = MessageOf(obj[q], heap)
  <2>1. \A h \in Slots(obj[q]) : hp[h] = heap[h]
    <3> SUFFICES ASSUME NEW h \in Slots(obj[q]) PROVE hp[h] = heap[h]
      OBVIOUS
    <3>1. h \in Handles /\ h \notin Slots(obj[o])
      BY <1>1, SlotsAreLive DEF Apart
    <3> QED BY <1>3, <3>1
  <2> QED BY <1>1, <2>1, SoundElsewhere, MessageElsewhere
<1>6. /\ Becomes(x, hp, r.x, heap') /\ Slots(x) \subseteq Slots(r.x)
      /\ MergeOf(x, hp, obj[q], r.x, heap')
  BY <1>2, <1>3, <1>5, MergedIsSound
<1>7. Becomes(obj[o], heap, r.x, heap')
  <2>1. /\ Sound(r.x, heap') /\ HeapShape(heap')
        /\ \A h \in Slots(r.x) : h \in Slots(x) \/ hp[h] = Freed
        /\ \A h \in Handles : h \notin Slots(x) /\ h \notin Slots(r.x) => heap'[h] = hp[h]
    BY <1>6 DEF Becomes
  <2>2. \A h \in Slots(r.x) : h \in Handles
    BY <2>1, SlotsAreLive
  <2>3. \A h \in Slots(r.x) : h \in Slots(obj[o]) \/ heap[h] = Freed
    BY <1>3, <1>4, <2>1, <2>2
  <2>4. \A h \in Handles : h \notin Slots(obj[o]) /\ h \notin Slots(r.x) => heap'[h] = heap[h]
    BY <1>3, <1>4, <2>1
  <2> QED BY <1>4, <1>6, <2>1, <2>3, <2>4 DEF Becomes
<1>8. PtrKept
  BY <1>2, InvParts DEF PtrKept
<1> PICK y : y = r.x
  OBVIOUS
<1>9. Changes(o, y)
  BY <1>2, <1>7, <1>8 DEF Changes
<1>10. MessageOf(y, heap') = MessageOf(obj[q], hp)
  <2>1. MergeOf(x, hp, obj[q], y, heap') /\ Sound(obj[q], hp) /\ Has(x) = {}
    BY <1>3, <1>5, <1>6
  <2> QED BY ONLY <2>1, MergedIsCopied
<1>11. /\ ObjectsInv' /\ Loose' = Loose /\ Val[q] = MessageOf(obj[q], heap)
       /\ Val' = [Val EXCEPT ![o] = MessageOf(y, heap')]
  BY ONLY ObjectsInv, o \in Objects, q \in Objects, <1>9, ChangeStep, ValIs
<1>12. Val' = [Val EXCEPT ![o] = Val[q]]
  BY ONLY <1>5, <1>10, <1>11
<1> QED BY ONLY <1>11, <1>12, PairSteps

\* The copy constructor, in place of an object that is deleted.
LEMMA CopyConstructCopies ==
    ASSUME ObjectsInv, NEW o \in Objects, NEW q \in Objects, CopyConstruct(o, q)
    PROVE  ObjectsInv' /\ Values!CopyFrom(o, q)
<1> DEFINE x == obj[o]
           from == obj[q]
           dead == {x.sub[n] : n \in Inner}
           hp == [h \in Handles |-> IF h \in dead THEN Freed ELSE heap[h]]
           inner == {n \in Inner : HasField(q, n)}
           new == NewHandles(hp, inner)
           raw == [k \in Plain |-> IF k = 9 /\ ~HasField(q, 9) THEN <<>> ELSE from.raw[k]]
           sub == [n \in Inner |-> IF n \in inner THEN new[n] ELSE NULL]
           at(h) == CHOOSE n \in inner : new[n] = h
           y == [has |-> from.has, raw |-> raw, sub |-> sub, list |-> from.list]
           H == [h \in Handles |->
                   IF \E n \in inner : new[n] = h THEN InfoCopy(at(h), heap[from.sub[at(h)]]) ELSE hp[h]]
<1>a. /\ Placings(hp, inner) # {} /\ obj' = [obj EXCEPT ![o] = y] /\ heap' = H
      /\ ptr' = IF ptr.h \in dead THEN NoPtr ELSE ptr
  BY DEF CopyConstruct, Inner, Plain
<1>b. /\ hp = [h \in Handles |-> IF h \in dead THEN Freed ELSE heap[h]]
      /\ inner = {n \in Inner : InteractionBit[n] \in from.has}
      /\ raw = [k \in Plain |-> IF k = 9 /\ InteractionBit[9] \notin from.has THEN <<>> ELSE from.raw[k]]
      /\ sub = [n \in Inner |-> IF n \in inner THEN new[n] ELSE NULL]
  BY DEF HasField
<1> HIDE DEF hp, inner, new, raw, sub
<1>1. Sound(x, heap) /\ Sound(from, heap) /\ HeapShape(heap) /\ LooseIsSound
  BY InvParts DEF ObjectsInv
<1>2. /\ WellFormed(from) /\ from.has \subseteq 0 .. 7
      /\ \A n \in Inner : InteractionBit[n] \in from.has => heap[from.sub[n]] \in Good(n)
      /\ \A k \in Plain : InteractionBit[k] \notin from.has => from.raw[k] = Default(InteractionRead[k])
      /\ from.raw = [k \in Plain |-> from.raw[k]]
      /\ from.list \in [{10, 11} -> Seq(Elements)]
  BY <1>1 DEF Sound, WellFormed
<1>3. /\ new \in [inner -> Handles] /\ \A n \in inner : hp[new[n]] = Freed
      /\ \A m, n \in inner : new[m] = new[n] => m = n
  BY <1>a, NewHandlesAreFree DEF new
<1>4. /\ sub \in [Inner -> Handles \cup {NULL}]
      /\ \A n \in inner : n \in Inner /\ sub[n] = new[n] /\ sub[n] \in Handles /\ sub[n] # NULL
      /\ \A n \in Inner : n \notin inner => sub[n] = NULL
  BY <1>b, <1>3, NullIsNoHandle
<1>5. ASSUME NEW n \in inner
      PROVE  /\ heap'[new[n]] \in Good(n) /\ heap[from.sub[n]] \in Good(n)
             /\ heap'[new[n]] = InfoCopy(n, heap[from.sub[n]])
  <2>1. at(new[n]) = n
    BY <1>3
  <2> HIDE DEF at
  <2>2. H[new[n]] = InfoCopy(n, heap[from.sub[n]])
    BY <1>3, <2>1
  <2>3. n \in Inner /\ heap[from.sub[n]] \in Good(n)
    BY <1>2, <1>b
  <2> QED BY <1>a, <2>2, <2>3, CopiedIsGood
<1>6. WellFormed(y)
  <2>1. /\ y = [has |-> y.has, raw |-> y.raw, sub |-> y.sub, list |-> y.list]
        /\ y.has = from.has /\ y.raw = raw /\ y.list = from.list
    OBVIOUS
  <2> HIDE DEF y
  <2>2. \A k \in Plain : InteractionBit[k] \notin from.has => raw[k] = Default(InteractionRead[k])
    <3>1. Default(InteractionRead[9]) = <<>>
      BY DEF InteractionRead, Default
    <3> QED BY <1>2, <1>b, <3>1
  <2>3. raw = [k \in Plain |-> raw[k]]
    BY <1>b
  <2> QED BY <1>2, <2>1, <2>2, <2>3 DEF WellFormed
<1>7. Sound(y, heap')
  <2>1. y.sub = sub /\ y.has = from.has
    OBVIOUS
  <2> HIDE DEF y, H
  <2>2. \A n \in Inner : sub[n] # NULL => n \in inner /\ heap'[sub[n]] \in Good(n) /\ InteractionBit[n] \in from.has
    BY <1>4, <1>5, <1>b
  <2>3. \A n \in Inner : InteractionBit[n] \in from.has => sub[n] # NULL
    BY <1>4, <1>b
  <2>4. \A m, n \in Inner : sub[m] = sub[n] /\ sub[m] # NULL => m = n
    BY <1>3, <1>4
  <2> QED BY <1>4, <1>6, <2>1, <2>2, <2>3, <2>4 DEF Sound
<1>8. Slots(y) = {new[n] : n \in inner}
  <2>1. y.sub = sub
    OBVIOUS
  <2> HIDE DEF y
  <2> QED BY <1>4, <2>1 DEF Slots
<1>9. /\ \A g \in Handles : g \in dead <=> g \in Slots(x)
      /\ \A g \in Slots(x) : g \in Handles
  <2>1. \A g \in Handles : g \in dead <=> g \in Slots(x)
    BY NullIsNoHandle DEF Slots
  <2> QED BY <1>1, <2>1, SlotsAreLive
<1>10. Becomes(x, heap, y, heap')
  <2>1. HeapShape(heap')
    BY <1>a DEF HeapShape
  <2> HIDE DEF x, y, dead
  <2>2. \A h \in Slots(y) : h \in Slots(x) \/ heap[h] = Freed
    BY <1>3, <1>8, <1>9, <1>b
  <2>3. \A h \in Handles : h \notin Slots(y) => heap'[h] = hp[h]
    <3> HIDE DEF at
    <3> QED BY <1>a, <1>8
  <2> HIDE DEF H
  <2>4. \A h \in Handles : h \notin Slots(x) /\ h \notin Slots(y) => heap'[h] = heap[h]
    BY <1>9, <1>b, <2>3
  <2>5. \A h \in Slots(x) : h \notin Slots(y) => heap'[h] = Freed
    BY <1>9, <1>b, <2>3
  <2> QED BY <1>7, <2>1, <2>2, <2>4, <2>5 DEF Becomes
<1>11. PtrKept
  <2>1. ptr.own => ptr.h \in Handles /\ ptr.h \notin Slots(x)
    BY <1>1 DEF LooseIsSound
  <2>2. ptr.own => ptr' = ptr
    BY <1>a, <1>9, <2>1
  <2>3. /\ ptr \in [h : Handles \cup {NULL}, n : Subs \cup {NULL}, own : BOOLEAN]
        /\ NoPtr \in [h : Handles \cup {NULL}, n : Subs \cup {NULL}, own : BOOLEAN]
        /\ NoPtr.h = NULL /\ NoPtr.own = FALSE /\ (ptr.h # NULL => ptr.n \in Subs)
    BY <1>1 DEF LooseIsSound, NoPtr
  <2>4. ptr' = ptr \/ ptr' = NoPtr
    BY <1>a
  <2> QED BY <2>2, <2>3, <2>4 DEF PtrKept
<1>12. MessageOf(y, heap') = MessageOf(from, heap)
  <2>1. y.sub = sub /\ y.has = from.has /\ y.raw = raw /\ y.list = from.list
    OBVIOUS
  <2>2. \A k \in Has(from) : k \in Plain \cup Inner => InteractionBit[k] \in from.has
    BY FieldsAreFields DEF Has
  <2> HIDE DEF x, y, H, from, dead, at
  <2>3. Has(y) = Has(from)
    BY <2>1 DEF Has
  <2>4. ASSUME NEW k \in Has(from) PROVE FieldOf(y, heap', k) = FieldOf(from, heap, k)
    <3>1. CASE k \in Plain
      <4>1. raw[k] = from.raw[k]
        BY <1>b, <2>2, <3>1
      <4> QED BY <2>1, <3>1, <4>1 DEF FieldOf
    <3>2. CASE k \notin Plain /\ k \in Inner
      <4>1. k \in inner
        BY <1>b, <2>2, <3>2
      <4> PICK g : g = heap[from.sub[k]]
        OBVIOUS
      <4>2. y.sub[k] = new[k] /\ heap'[new[k]] = InfoCopy(k, g) /\ g \in Good(k)
        BY <1>4, <1>5, <2>1, <4>1
      <4>3. InfoView(k, InfoCopy(k, g)) = InfoView(k, g)
        BY ONLY <3>2, <4>2, CopiedIsSame
      <4> QED BY <3>2, <4>2, <4>3 DEF FieldOf
    <3>3. CASE k \notin Plain /\ k \notin Inner
      BY <2>1, <3>3 DEF FieldOf
    <3> QED BY <3>1, <3>2, <3>3
  <2> QED BY ONLY <2>3, <2>4, MessageSame
<1> PICK z : z = y
  OBVIOUS
<1>13. obj' = [obj EXCEPT ![o] = z] /\ Becomes(obj[o], heap, z, heap') /\ MessageOf(z, heap') = MessageOf(obj[q], heap)
  BY <1>a, <1>10, <1>12
<1>14. Changes(o, z)
  BY ONLY <1>11, <1>13 DEF Changes
<1>15. /\ ObjectsInv' /\ Loose' = Loose /\ Val[q] = MessageOf(obj[q], heap)
       /\ Val' = [Val EXCEPT ![o] = MessageOf(z, heap')]
  BY ONLY ObjectsInv, o \in Objects, q \in Objects, <1>14, ChangeStep, ValIs
<1>16. Val' = [Val EXCEPT ![o] = Val[q]]
  BY ONLY <1>13, <1>15
<1> QED BY ONLY <1>15, <1>16, PairSteps

-----------------------------------------------------------------------------
\* The invariant holds of new objects.
LEMMA ObjectsAreNew == Init => ObjectsInv
<1> SUFFICES ASSUME Init PROVE ObjectsInv
  OBVIOUS
<1>1. \A o \in Objects : obj[o] = NewObject
  BY DEF Init
<1> PICK y : y = NewObject
  OBVIOUS
<1>2. /\ y = [has |-> y.has, raw |-> y.raw, sub |-> y.sub, list |-> y.list]
      /\ y.has = {} /\ y.raw = [k \in Plain |-> Default(InteractionRead[k])]
      /\ y.sub = [n \in Inner |-> NULL] /\ y.list = [k \in {10, 11} |-> <<>>]
  BY DEF NewObject, Inner, Plain
<1>3. WellFormed(y)
  BY <1>2 DEF WellFormed
<1>4. Sound(y, heap) /\ Slots(y) = {}
  BY <1>2, <1>3 DEF Sound, Slots
<1>5. HeapShape(heap) /\ (\A h \in Handles : heap[h] = Freed) /\ obj = [o \in Objects |-> obj[o]]
  BY DEF Init, HeapShape
<1>6. LooseIsSound
  BY DEF Init, NoPtr, LooseIsSound
<1> QED BY <1>1, <1>4, <1>5, <1>6 DEF ObjectsInv, Apart, NoLeak

\* A step of the objects is a step of their values, or changes none.
LEMMA StepIsStep ==
    ASSUME ObjectsInv, [Next]_vars
    PROVE  ObjectsInv' /\ (Values!Next \/ (Val' = Val /\ Loose' = Loose))
<1>1. ASSUME UNCHANGED vars PROVE ObjectsInv' /\ Val' = Val /\ Loose' = Loose
  <2>1. ObjectsInv'
    BY <1>1 DEF vars, ObjectsInv, Apart, LooseIsSound, NoLeak
  <2>2. Val' = Val
    BY <1>1, ValIs DEF vars
  <2> QED BY <1>1, <2>1, <2>2 DEF vars, Loose
<1>2. ASSUME NEW o \in Objects, NEW n \in Scalars, SetScalar(o, n) \/ ClearScalar(o, n)
      PROVE  ObjectsInv' /\ Values!Next
  BY <1>2, SetScalarSets, ClearScalarUnsets DEF Values!Next
<1>3. ASSUME NEW o \in Objects, NEW n \in Subs, Mutable(o, n) \/ ClearSub(o, n)
      PROVE  ObjectsInv' /\ Values!Next
  BY <1>3, MutableMakes, ClearSubUnsets DEF Values!Next
<1>4. ASSUME NEW o \in Objects, NEW n \in Subs, Release(o, n) \/ SetAllocated(o, n)
      PROVE  ObjectsInv' /\ Values!Next
  BY <1>4, ReleaseReleases, SetAllocatedInstalls DEF Values!Next
<1>5. ASSUME NEW o \in Objects, NEW n \in Lists, AddToList(o, n) \/ ClearList(o, n)
      PROVE  ObjectsInv' /\ Values!Next
  BY <1>5, AddToListAdds, ClearListUnsets DEF Values!Next
<1>6. ASSUME NEW o \in Objects, NEW q \in Objects,
             MergeFrom(o, q) \/ CopyFrom(o, q) \/ Swap(o, q) \/ CopyConstruct(o, q)
      PROVE  ObjectsInv' /\ (Values!Next \/ (Val' = Val /\ Loose' = Loose))
  <2>1. CASE CopyFrom(o, q)
    <3>1. CASE o = q
      BY <1>1, <2>1, <3>1 DEF CopyFrom
    <3>2. CASE o # q
      BY <2>1, <3>2, CopyFromCopies DEF Values!Next
    <3> QED BY <3>1, <3>2
  <2>2. CASE MergeFrom(o, q)
    BY <2>2, MergeFromMerges DEF Values!Next
  <2>3. CASE Swap(o, q)
    BY <2>3, SwapSwaps DEF Values!Next
  <2>4. CASE CopyConstruct(o, q)
    BY <2>4, CopyConstructCopies DEF Values!Next
  <2> QED BY <1>6, <2>1, <2>2, <2>3, <2>4
<1>7. ASSUME SetThrough PROVE ObjectsInv' /\ Values!Next
  BY <1>7, SetThroughSets DEF Values!Next
<1>8. ASSUME NEW o \in Objects, Clear(o) PROVE ObjectsInv' /\ Values!Next
  BY <1>8, ClearClears DEF Values!Next
<1> QED BY <1>1, <1>2, <1>3, <1>4, <1>5, <1>6, <1>7, <1>8 DEF Next

\* Every operation keeps it.
LEMMA StepKeepsObjects == ObjectsInv /\ [Next]_vars => ObjectsInv'
BY StepIsStep

\* It holds after any operations.
LEMMA ObjectsAreSound == Spec => []ObjectsInv
BY ObjectsAreNew, StepKeepsObjects, PTL DEF Spec

-----------------------------------------------------------------------------
\* It says that each inner object has one owner.
LEMMA OwnerOfEach == ObjectsInv => OneOwner
<1> SUFFICES ASSUME ObjectsInv PROVE OneOwner
  OBVIOUS
<1>1. /\ \A o \in Objects : Sound(obj[o], heap)
      /\ Apart /\ LooseIsSound /\ NoLeak
  BY DEF ObjectsInv
<1>2. ASSUME NEW o \in Objects, NEW n \in {2, 3, 5, 6}, HasField(o, n) PROVE obj[o].sub[n] # NULL
  BY <1>1, <1>2 DEF Sound, HasField, Inner
<1>3. ASSUME NEW h \in Handles
      PROVE  Cardinality(Owners(h)) = IF heap[h] = Freed THEN 0 ELSE 1
  <2>1. h # NULL
    BY NullIsNoHandle
  <2> PICK F : F = {s \in Objects \X Inner : obj[s[1]].sub[s[2]] = h}
    OBVIOUS
  <2> PICK P : P = IF ptr.own /\ ptr.h = h THEN {<<ptr.h, 0>>} ELSE {}
    OBVIOUS
  <2>2. Owners(h) = F \cup P
    BY DEF Owners, Inner
  <2>3. ASSUME NEW s \in F
        PROVE  /\ s = <<s[1], s[2]>> /\ s[1] \in Objects /\ s[2] \in Inner /\ obj[s[1]].sub[s[2]] = h
               /\ h \in Slots(obj[s[1]])
    BY <2>1 DEF Slots
  <2>4. ASSUME NEW s \in F, NEW t \in F PROVE s = t
    <3>1. s[1] = t[1]
      BY <1>1, <2>3 DEF Apart
    <3>2. Sound(obj[s[1]], heap)
      BY <1>1, <2>3
    <3>3. s[2] = t[2]
      BY <2>1, <2>3, <3>1, <3>2 DEF Sound
    <3> QED BY <2>3, <3>1, <3>3
  <2>5. CASE heap[h] = Freed
    <3>1. F = {}
      <4> SUFFICES ASSUME NEW s \in F PROVE FALSE
        OBVIOUS
      <4> QED BY <1>1, <2>3, <2>5, SlotsAreLive
    <3>2. P = {}
      <4> SUFFICES ASSUME ptr.own, ptr.h = h PROVE FALSE
        OBVIOUS
      <4>1. heap[h] \in Good(ptr.n) /\ ptr.n \in Inner
        BY <1>1, <2>1, FieldsAreFields DEF LooseIsSound
      <4> QED BY <2>5, <4>1, GoodParts
    <3> QED BY <2>2, <2>5, <3>1, <3>2, FS_EmptySet
  <2>6. CASE heap[h] # Freed
    <3>1. CASE ptr.own /\ ptr.h = h
      <4>1. F = {}
        BY <1>1, <2>3, <3>1 DEF LooseIsSound
      <4>2. Owners(h) = {<<ptr.h, 0>>}
        BY <2>2, <3>1, <4>1
      <4> QED BY <2>6, <4>2, FS_Singleton
    <3>2. CASE ~(ptr.own /\ ptr.h = h)
      <4>1. PICK o \in Objects : h \in Slots(obj[o])
        BY <1>1, <2>6, <3>2 DEF NoLeak
      <4>2. PICK n \in Inner : obj[o].sub[n] = h
        BY <4>1 DEF Slots
      <4>3. <<o, n>> \in F
        BY <4>2
      <4>4. Owners(h) = {<<o, n>>}
        BY <2>2, <2>4, <3>2, <4>3
      <4> QED BY <2>6, <4>4, FS_Singleton
    <3> QED BY <3>1, <3>2
  <2> QED BY <2>5, <2>6
<1> QED BY <1>2, <1>3 DEF OneOwner

\* Whatever the program does with objects of class interaction, each inner
\* object on the heap has exactly one owner, which will delete it, and no
\* field points to a deleted one: no leak, no double delete, no shared part.
THEOREM OwnersAreUnique == Spec => []OneOwner
BY ObjectsAreSound, OwnerOfEach, PTL

\* It says that what is absent reads as its default.
LEMMA AbsentIsNew == ObjectsInv => AbsentReadsDefault
<1> SUFFICES ASSUME ObjectsInv PROVE AbsentReadsDefault
  OBVIOUS
<1>1. ASSUME NEW o \in Objects, NEW k \in {1, 4, 7, 9}, ~HasField(o, k)
      PROVE  obj[o].raw[k] = Default(InteractionRead[k])
  BY <1>1, InvParts DEF Sound, WellFormed, HasField, Plain
<1>2. ASSUME NEW o \in Objects, NEW n \in {2, 3, 5, 6}, obj[o].sub[n] # NULL
      PROVE  /\ heap[obj[o].sub[n]] \in Good(n)
             /\ ~HasField(o, n) => heap[obj[o].sub[n]] = NewInfo(n)
  BY <1>2, InvParts DEF Sound, HasField, Inner
<1>3. ASSUME NEW o \in Objects, NEW n \in {2, 3, 5, 6}, obj[o].sub[n] # NULL, NEW k \in DOMAIN InfoRead(n),
             InfoBit(n)[k] \notin heap[obj[o].sub[n]].has
      PROVE  heap[obj[o].sub[n]].raw[k] = Default(InfoRead(n)[k])
  BY <1>2, <1>3, GoodParts DEF Inner
<1> QED BY <1>1, <1>2, <1>3 DEF AbsentReadsDefault

\* A getter that looks at no has-bit never brings back old data: what is
\* absent reads as its default after any sequence of operations.
THEOREM AbsentIsDefault == Spec => []AbsentReadsDefault
BY ObjectsAreSound, AbsentIsNew, PTL

-----------------------------------------------------------------------------
\* New objects are new values.
LEMMA ValuesAreNew == Init => Values!Init
<1> SUFFICES ASSUME Init PROVE Values!Init
  OBVIOUS
<1> PICK x : x = NewObject
  OBVIOUS
<1>1. x.has = {} /\ x.list = [k \in {10, 11} |-> <<>>]
  BY DEF NewObject
<1>2. MessageOf(x, heap) = Empty
  BY <1>1, MessageEmpty DEF Has
<1>3. Val = [o \in Objects |-> Empty]
  BY <1>2, ValIs DEF Init
<1>4. Loose = NoInfo
  BY DEF Init, NoPtr, Loose
<1> QED BY <1>3, <1>4, SameCodec DEF Values!Init, Val, Loose

\* The objects of the heap are as good as values of their own: every method
\* does to the message its object stands for what the method is for, and to
\* no other, whatever is kept, shared, released and given back underneath.
THEOREM ObjectsAreValues == Spec => ImplementsValues
<1>1. ObjectsInv /\ [Next]_vars => [Values!Next]_<<Val, Loose>>
  BY StepIsStep
<1>2. ObjectsInv /\ [Next]_vars
         => [Values!Next]_<<[o \in Objects |-> View(obj[o])],
                            IF ptr.own THEN [n |-> ptr.n, info |-> InfoView(ptr.n, heap[ptr.h])] ELSE NoInfo>>
  BY <1>1 DEF Val, Loose
<1> QED BY ValuesAreNew, ObjectsAreSound, <1>2, PTL DEF Spec, ImplementsValues, Values!Spec

-----------------------------------------------------------------------------
\* What set_ is called with is a value of the field.
LEMMA SamplesAreValues ==
  ASSUME NEW kind \in ScalarKinds
  PROVE  Samples(kind) \subseteq ScalarValues(kind)
<1>1. CASE kind = "string"
  <2>1. <<>> \in Seq(Nat) /\ <<1>> \in Seq(Nat)
    OBVIOUS
  <2> QED BY <1>1, <2>1 DEF Samples, ScalarValues
<1>2. CASE kind # "string"
  BY <1>2 DEF Samples, ScalarValues, ScalarKinds
<1> QED BY <1>1, <1>2

\* The fields the program uses, and their kinds.
LEMMA FieldsInUse ==
  /\ Scalars \subseteq {1, 4, 7, 9} /\ Subs \subseteq {2, 3, 5, 6} /\ Lists \subseteq {10, 11}
  /\ {1, 4, 7, 9} \subseteq InteractionFields /\ {2, 3, 5, 6} \subseteq InteractionFields
  /\ {10, 11} \subseteq InteractionFields
  /\ \A n \in {1, 4, 7, 9} : InteractionRead[n] \in ScalarKinds
  /\ \A n \in Subs \cup Lists, k \in InfoFields :
        /\ k \in DOMAIN interaction.class[n].read
        /\ interaction.class[n].read[k] \in ScalarKinds
<1>1. /\ {1, 4, 7, 9} \subseteq InteractionFields /\ {2, 3, 5, 6} \subseteq InteractionFields
      /\ {10, 11} \subseteq InteractionFields
  BY DEF InteractionFields
<1>2. \A n \in {1, 4, 7, 9} : InteractionRead[n] \in ScalarKinds
  BY InteractionParts DEF ScalarKinds
<1>3. ASSUME NEW n \in Subs \cup Lists, NEW k \in InfoFields
      PROVE  k \in DOMAIN interaction.class[n].read /\ interaction.class[n].read[k] \in ScalarKinds
  <2> PICK c, d : c = interaction /\ d = interaction.class[n]
    OBVIOUS
  <2>1. k \in DOMAIN d.read
    BY InfosAssumption DEF InfoRead
  <2>2. n \in {2, 3, 5, 6} \/ n \in {10, 11}
    BY FieldsAssumption
  <2>3. OuterClass(c) /\ c.read = InteractionRead
    BY BothClasses
  <2>4. n \in DOMAIN c.read /\ c.read[n] \in {"message", "repeated"}
    BY ONLY <1>1, <2>2, <2>3, InteractionParts
  <2>5. InnerClass(c.class[n])
    BY ONLY <2>3, <2>4 DEF OuterClass, ScalarKinds
  <2>6. InnerClass(d)
    BY ONLY <2>5, c = interaction, d = interaction.class[n]
  <2> QED BY ONLY <2>1, <2>6, d = interaction.class[n] DEF InnerClass
<1> QED BY <1>1, <1>2, <1>3, FieldsAssumption

\* All there is in the objects and in what the program owns was understood.
ValuesKnown ==
  /\ \A o \in Objects : KnownWhole(Val[o])
  /\ Loose # NoInfo => Loose.n \in Subs /\ KnownInfo(interaction.class[Loose.n], Loose.info)

\* One value changes.
LEMMA OneValueKnown ==
  ASSUME ValuesKnown, NEW o, NEW m, o \in Objects => KnownWhole(m), Val' = [Val EXCEPT ![o] = m]
  PROVE  \A q \in Objects : KnownWhole(Val'[q])
<1> PICK v : v = Val'
  OBVIOUS
<1>1. DOMAIN Val = Objects
  BY DEF Val
<1>2. \A q \in Objects : v[q] = IF q = o THEN m ELSE Val[q]
  BY <1>1
<1>3. \A q \in Objects : KnownWhole(v[q])
  BY <1>2 DEF ValuesKnown
<1> QED BY <1>3

\* The steps of one object.
LEMMA ChangeKnown ==
  ASSUME ValuesKnown, NEW o \in Objects, NEW n,
         \/ n \in Scalars /\ Values!Set(o, n)
         \/ n \in Scalars \cup Subs \cup Lists /\ Values!Unset(o, n)
         \/ n \in Subs /\ (Values!Mutable(o, n) \/ Values!SetInner(o, n))
         \/ n \in Lists /\ Values!Add(o, n)
         \/ Values!Clear(o)
  PROVE  \E m : KnownWhole(m) /\ Val' = [Val EXCEPT ![o] = m] /\ Loose' = Loose
<1> PICK x : x = Val[o]
  OBVIOUS
<1>1. KnownWhole(x)
  BY DEF ValuesKnown
<1>2. CASE n \in Scalars /\ Values!Set(o, n)
  <2>1. Loose' = Loose /\ \E v \in Samples(InteractionRead[n]) : Val' = [Val EXCEPT ![o] = SetField(x, n, v)]
    BY <1>2, SameCodec DEF Values!Set, Values!Become, Val, Loose
  <2>2. PICK v \in Samples(InteractionRead[n]) : Val' = [Val EXCEPT ![o] = SetField(x, n, v)]
    BY <2>1
  <2>3. n \in {1, 4, 7, 9} /\ n \in InteractionFields /\ v \in ScalarValues(InteractionRead[n])
    BY <1>2, <2>2, FieldsInUse, SamplesAreValues
  <2>4. IsKnown(n, v)
    BY ONLY <2>3, KindsOfFields DEF IsKnown
  <2>5. KnownWhole(SetField(x, n, v))
    BY ONLY <1>1, <2>3, <2>4, SetKnown
  <2> QED BY <2>1, <2>2, <2>5
<1>3. CASE Values!Unset(o, n)
  <2>1. Loose' = Loose /\ Val' = [Val EXCEPT ![o] = Values!Absent(x, n)]
    BY <1>3 DEF Values!Unset, Values!Become, Val, Loose
  <2>2. KnownWhole(Values!Absent(x, n))
    BY ONLY <1>1, UnsetKnown DEF Values!Absent
  <2> QED BY <2>1, <2>2
<1>4. CASE n \in Subs /\ Values!Mutable(o, n)
  <2>1. Loose' = Loose /\ Val' = [Val EXCEPT ![o] = SetField(x, n, SubOf(x, n))]
    BY <1>4, SameCodec DEF Values!Mutable, Values!Become, Val, Loose
  <2>2. n \in {2, 3, 5, 6} /\ n \in InteractionFields
    BY <1>4, FieldsInUse
  <2>3. KnownInfo(interaction.class[n], SubOf(x, n))
    BY ONLY <1>1, <2>2, FieldKnown
  <2>4. IsKnown(n, SubOf(x, n))
    BY ONLY <2>2, <2>3 DEF IsKnown
  <2>5. KnownWhole(SetField(x, n, SubOf(x, n)))
    BY ONLY <1>1, <2>2, <2>4, SetKnown
  <2> QED BY <2>1, <2>5
<1>5. CASE n \in Subs /\ Values!SetInner(o, n)
  <2>1. /\ Loose' = Loose /\ Values!Present(x, n)
        /\ \E k \in InfoFields : \E v \in Values!Samples(Values!InfoClass(n).read[k]) :
              Val' = [Val EXCEPT ![o] = Values!SetField(x, n, Values!SetField(x.f[n], k, v))]
    BY <1>5 DEF Values!SetInner, Values!Become, Val, Loose
  <2>2. PICK k \in InfoFields : \E v \in Values!Samples(Values!InfoClass(n).read[k]) :
              Val' = [Val EXCEPT ![o] = Values!SetField(x, n, Values!SetField(x.f[n], k, v))]
    BY <2>1
  <2>3. PICK v \in Values!Samples(Values!InfoClass(n).read[k]) :
              Val' = [Val EXCEPT ![o] = Values!SetField(x, n, Values!SetField(x.f[n], k, v))]
    BY <2>2
  <2>10. /\ Values!Samples(Values!InfoClass(n).read[k]) = Samples(InfoRead(n)[k])
         /\ Values!SetField(x, n, Values!SetField(x.f[n], k, v)) = SetField(x, n, SetField(x.f[n], k, v))
         /\ Values!Present(x, n) => Present(x, n)
    BY ONLY SameCodec
  <2>11. Present(x, n) /\ v \in Samples(InfoRead(n)[k])
    BY <2>1, <2>10
  <2> PICK c, y : c = interaction.class[n] /\ y = x.f[n]
    OBVIOUS
  <2>4. n \in {2, 3, 5, 6} /\ n \in InteractionFields /\ k \in DOMAIN c.read /\ c.read[k] \in ScalarKinds
    BY <1>5, FieldsInUse
  <2>5. v \in ScalarValues(c.read[k])
    <3>1. InfoRead(n)[k] = c.read[k]
      BY DEF InfoRead
    <3> QED BY <2>4, <2>11, <3>1, SamplesAreValues
  <2>6. KnownInfo(c, y)
    <3>1. IsKnown(n, x.f[n])
      BY ONLY <1>1, <2>11, FieldKnown
    <3> QED BY ONLY <2>4, <3>1, c = interaction.class[n], y = x.f[n] DEF IsKnown
  <2>7. KnownInfo(c, SetField(y, k, v))
    BY ONLY <2>4, <2>5, <2>6, SetKnownInfo
  <2>8. IsKnown(n, SetField(y, k, v))
    BY ONLY <2>4, <2>7, c = interaction.class[n] DEF IsKnown
  <2>9. KnownWhole(SetField(x, n, SetField(y, k, v)))
    BY ONLY <1>1, <2>4, <2>8, SetKnown
  <2> QED BY <2>1, <2>3, <2>9, <2>10
<1>6. CASE n \in Lists /\ Values!Add(o, n)
  <2>1. /\ Loose' = Loose
        /\ \E k \in InfoFields : \E v \in Values!Samples(Values!InfoClass(n).read[k]) :
              Val' = [Val EXCEPT ![o] = Values!SetField(x, n,
                         Append(Values!ListOf(x, n), Values!SetField(Values!Empty, k, v)))]
    BY <1>6 DEF Values!Add, Values!Become, Val, Loose
  <2>2. PICK k \in InfoFields : \E v \in Values!Samples(Values!InfoClass(n).read[k]) :
              Val' = [Val EXCEPT ![o] = Values!SetField(x, n,
                         Append(Values!ListOf(x, n), Values!SetField(Values!Empty, k, v)))]
    BY <2>1
  <2>3. PICK v \in Values!Samples(Values!InfoClass(n).read[k]) :
              Val' = [Val EXCEPT ![o] = Values!SetField(x, n,
                         Append(Values!ListOf(x, n), Values!SetField(Values!Empty, k, v)))]
    BY <2>2
  <2>10. /\ Values!Samples(Values!InfoClass(n).read[k]) = Samples(InfoRead(n)[k])
         /\ Values!SetField(Values!Empty, k, v) = SetField(Empty, k, v) /\ Values!ListOf(x, n) = ListOf(x, n)
         /\ \A l : Values!SetField(x, n, l) = SetField(x, n, l)
    BY ONLY SameCodec
  <2>11. v \in Samples(InfoRead(n)[k])
    BY <2>10
  <2> PICK c, p, y : c = interaction.class[n] /\ p = ListOf(x, n) /\ y = SetField(Empty, k, v)
    OBVIOUS
  <2>4. n \in {10, 11} /\ n \in InteractionFields /\ k \in DOMAIN c.read /\ c.read[k] \in ScalarKinds
    BY <1>6, FieldsInUse
  <2>5. v \in ScalarValues(c.read[k])
    <3>1. InfoRead(n)[k] = c.read[k]
      BY DEF InfoRead
    <3> QED BY <2>4, <2>11, <3>1, SamplesAreValues
  <2>6. KnownInfo(c, y)
    <3>1. KnownInfo(c, Empty)
      BY ONLY EmptyIsKnown
    <3>2. KnownInfo(c, SetField(Empty, k, v))
      BY ONLY <2>4, <2>5, <3>1, SetKnownInfo
    <3> QED BY ONLY <3>2, y = SetField(Empty, k, v)
  <2>7. (\E S : p \in Seq(S)) /\ \A i \in 1 .. Len(p) : KnownInfo(c, p[i])
    BY ONLY <1>1, <2>4, c = interaction.class[n], p = ListOf(x, n), FieldKnown
  <2>8. IsKnown(n, Append(p, y))
    BY ONLY <2>4, <2>6, <2>7, c = interaction.class[n], AppendKnown
  <2>9. KnownWhole(SetField(x, n, Append(p, y)))
    BY ONLY <1>1, <2>4, <2>8, SetKnown
  <2> QED BY <2>1, <2>3, <2>9, <2>10
<1>7. CASE Values!Clear(o)
  <2>1. Loose' = Loose /\ Val' = [Val EXCEPT ![o] = Empty]
    BY <1>7, SameCodec DEF Values!Clear, Values!Become, Val, Loose
  <2> QED BY <2>1, EmptyIsKnown
<1> QED BY <1>2, <1>3, <1>4, <1>5, <1>6, <1>7

\* The steps with what the program owns.
LEMMA LooseKnown ==
  ASSUME ValuesKnown, NEW o \in Objects, NEW n \in Subs, Values!Release(o, n) \/ Values!Install(o, n)
  PROVE  /\ \E m : KnownWhole(m) /\ Val' = [Val EXCEPT ![o] = m]
         /\ Loose' # NoInfo => Loose'.n \in Subs /\ KnownInfo(interaction.class[Loose'.n], Loose'.info)
<1> PICK x : x = Val[o]
  OBVIOUS
<1>1. KnownWhole(x) /\ n \in {2, 3, 5, 6} /\ n \in InteractionFields
  BY FieldsInUse DEF ValuesKnown
<1>2. KnownWhole(Values!Absent(x, n))
  BY ONLY <1>1, UnsetKnown DEF Values!Absent
<1>3. CASE Values!Release(o, n)
  <2>1. /\ Loose' = [n |-> n, info |-> SubOf(x, n)] \/ Loose' = NoInfo
        /\ Val' = [Val EXCEPT ![o] = Values!Absent(x, n)]
    BY <1>3, SameCodec DEF Values!Release, Values!Become, Val, Loose
  <2>2. KnownInfo(interaction.class[n], SubOf(x, n))
    BY ONLY <1>1, FieldKnown
  <2>3. \E m : KnownWhole(m) /\ Val' = [Val EXCEPT ![o] = m]
    BY <1>2, <2>1
  <2> PICK l, y : l = Loose' /\ y = SubOf(x, n)
    OBVIOUS
  <2>4. l # NoInfo => l.n = n /\ l.info = y
    BY ONLY <2>1, l = Loose', y = SubOf(x, n)
  <2>5. l # NoInfo => l.n \in Subs /\ KnownInfo(interaction.class[l.n], l.info)
    BY ONLY <2>2, <2>4, n \in Subs, y = SubOf(x, n)
  <2> QED BY ONLY <2>3, <2>5, l = Loose'
<1>4. CASE Values!Install(o, n)
  <2>1. /\ Loose' = NoInfo /\ (Loose # NoInfo => Loose.n = n)
        /\ Val' = [Val EXCEPT ![o] = IF Loose = NoInfo THEN Values!Absent(x, n) ELSE SetField(x, n, Loose.info)]
    BY <1>4, SameCodec DEF Values!Install, Values!Become, Val, Loose
  <2>2. CASE Loose = NoInfo
    BY <1>2, <2>1, <2>2
  <2>3. CASE Loose # NoInfo
    <3>1. KnownInfo(interaction.class[n], Loose.info)
      BY <2>1, <2>3 DEF ValuesKnown
    <3>2. IsKnown(n, Loose.info)
      BY ONLY <1>1, <3>1 DEF IsKnown
    <3>3. KnownWhole(SetField(x, n, Loose.info))
      BY ONLY <1>1, <3>2, SetKnown
    <3> QED BY <2>1, <2>3, <3>3
  <2> QED BY <2>2, <2>3
<1> QED BY <1>3, <1>4

\* A step keeps that.
LEMMA StepKeepsKnown ==
  ASSUME ValuesKnown, Values!Next \/ (Val' = Val /\ Loose' = Loose)
  PROVE  ValuesKnown'
<1>0. ValuesKnown' = (/\ \A q \in Objects : KnownWhole(Val'[q])
                      /\ Loose' # NoInfo => Loose'.n \in Subs /\ KnownInfo(interaction.class[Loose'.n], Loose'.info))
  BY DEF ValuesKnown
<1>1. CASE Val' = Val /\ Loose' = Loose
  BY <1>0, <1>1 DEF ValuesKnown
<1>2. ASSUME NEW o \in Objects, NEW m, KnownWhole(m), Val' = [Val EXCEPT ![o] = m], Loose' = Loose PROVE ValuesKnown'
  BY <1>0, <1>2, OneValueKnown DEF ValuesKnown
<1>3. ASSUME NEW o \in Objects, NEW n,
             \/ n \in Scalars /\ Values!Set(o, n)
             \/ n \in Scalars \cup Subs \cup Lists /\ Values!Unset(o, n)
             \/ n \in Subs /\ (Values!Mutable(o, n) \/ Values!SetInner(o, n))
             \/ n \in Lists /\ Values!Add(o, n)
             \/ Values!Clear(o)
      PROVE  ValuesKnown'
  BY <1>2, <1>3, ChangeKnown
<1>4. ASSUME NEW o \in Objects, NEW n \in Subs, Values!Release(o, n) \/ Values!Install(o, n) PROVE ValuesKnown'
  BY <1>0, <1>4, LooseKnown, OneValueKnown
<1>5. CASE Values!SetLoose
  <2>1. /\ Val' = Val /\ Loose # NoInfo
        /\ \E k \in InfoFields : \E v \in Samples(InfoRead(Loose.n)[k]) :
              Loose' = [Loose EXCEPT !.info = SetField(Loose.info, k, v)]
    BY <1>5, SameCodec DEF Values!SetLoose, Val, Loose
  <2>2. PICK k \in InfoFields : \E v \in Samples(InfoRead(Loose.n)[k]) :
              Loose' = [Loose EXCEPT !.info = SetField(Loose.info, k, v)]
    BY <2>1
  <2>3. PICK v \in Samples(InfoRead(Loose.n)[k]) : Loose' = [Loose EXCEPT !.info = SetField(Loose.info, k, v)]
    BY <2>2
  <2> PICK c, n : n = Loose.n /\ c = interaction.class[n]
    OBVIOUS
  <2>4. n \in Subs /\ KnownInfo(c, Loose.info) /\ k \in DOMAIN c.read /\ c.read[k] \in ScalarKinds
    BY <2>1, FieldsInUse DEF ValuesKnown
  <2>5. v \in ScalarValues(c.read[k])
    <3>1. InfoRead(n)[k] = c.read[k]
      BY DEF InfoRead
    <3> QED BY <2>3, <2>4, <3>1, SamplesAreValues
  <2>6. KnownInfo(c, SetField(Loose.info, k, v))
    BY ONLY <2>4, <2>5, SetKnownInfo
  <2>7. Loose = [n |-> Loose.n, info |-> Loose.info]
    BY <2>1 DEF Loose
  <2>8. Loose'.n = n /\ Loose'.info = SetField(Loose.info, k, v)
    BY <2>3, <2>7
  <2>9. \A q \in Objects : KnownWhole(Val'[q])
    BY <2>1 DEF ValuesKnown
  <2> QED BY <1>0, <2>4, <2>6, <2>8, <2>9
<1>6. ASSUME NEW o \in Objects, NEW q \in Objects, Values!MergeFrom(o, q) \/ Values!CopyFrom(o, q) PROVE ValuesKnown'
  <2> PICK x, y : x = Val[o] /\ y = Val[q]
    OBVIOUS
  <2>1. KnownWhole(x) /\ KnownWhole(y)
    BY DEF ValuesKnown
  <2>2. CASE Values!MergeFrom(o, q)
    <3>1. Values!Merge(Values!interaction, x, y) = Merge(interaction, x, y)
      BY ONLY SameClasses, SameCodec
    <3>2. Loose' = Loose /\ Val' = [Val EXCEPT ![o] = Values!Merge(Values!interaction, x, y)]
      BY <2>2 DEF Values!MergeFrom, Values!Become, Val, Loose
    <3>3. KnownWhole(Merge(interaction, x, y))
      BY ONLY <2>1, MergeKnown
    <3> QED BY <1>2, <3>1, <3>2, <3>3
  <2>3. CASE Values!CopyFrom(o, q)
    <3>1. Loose' = Loose /\ Val' = [Val EXCEPT ![o] = y]
      BY <2>3 DEF Values!CopyFrom, Values!Become, Val, Loose
    <3> QED BY <1>2, <2>1, <3>1
  <2> QED BY <1>6, <2>2, <2>3
<1>7. ASSUME NEW o \in Objects, NEW q \in Objects, Values!Swap(o, q) PROVE ValuesKnown'
  <2> PICK x, y, v, w : x = Val[o] /\ y = Val[q] /\ v = Val /\ w = Val'
    OBVIOUS
  <2>1. KnownWhole(x) /\ KnownWhole(y)
    BY DEF ValuesKnown
  <2>2. Loose' = Loose /\ w = [v EXCEPT ![o] = y, ![q] = x] /\ DOMAIN v = Objects
    BY <1>7 DEF Values!Swap, Val, Loose
  <2>3. \A r \in Objects : w[r] = IF r = q THEN x ELSE IF r = o THEN y ELSE v[r]
    BY ONLY <2>2, o \in Objects, q \in Objects
  <2>4. \A r \in Objects : KnownWhole(v[r])
    BY DEF ValuesKnown
  <2>5. \A r \in Objects : KnownWhole(w[r])
    BY ONLY <2>1, <2>3, <2>4
  <2> QED BY <1>0, <2>2, <2>5 DEF ValuesKnown
<1>8. CASE Values!Next
  BY <1>3, <1>4, <1>5, <1>6, <1>7, <1>8 DEF Values!Next
<1> QED BY <1>1, <1>8

\* It holds of new objects, and after any operations.
LEMMA ObjectsAreKnown == Spec => [](ObjectsInv /\ ValuesKnown)
<1>1. Init => ObjectsInv /\ ValuesKnown
  <2> SUFFICES ASSUME Init PROVE ObjectsInv /\ ValuesKnown
    OBVIOUS
  <2>1. ObjectsInv /\ Values!Init
    BY ObjectsAreNew, ValuesAreNew
  <2>2. Val = [o \in Objects |-> Empty] /\ Loose = NoInfo
    BY <2>1, SameCodec DEF Values!Init, Val, Loose
  <2>3. \A o \in Objects : Val[o] = Empty
    BY ONLY <2>2
  <2> QED BY <2>1, <2>2, <2>3, EmptyIsKnown DEF ValuesKnown
<1>2. ObjectsInv /\ ValuesKnown /\ [Next]_vars => ObjectsInv' /\ ValuesKnown'
  BY StepIsStep, StepKeepsKnown
<1> QED BY <1>1, <1>2, PTL DEF Spec

\* What is written of an object, and that it is of a message all of which is known.
LEMMA WrittenIs ==
  ASSUME ValuesKnown, NEW w \in Written
  PROVE  KnownWhole(w.m) /\ w.s = Serialize(interaction, w.m)
<1>1. PICK o \in Objects : w = [m |-> View(obj[o]), s |-> Serialize(interaction, View(obj[o]))]
  BY DEF Written
<1>2. KnownWhole(View(obj[o]))
  BY DEF ValuesKnown, Val
<1> QED BY <1>1, <1>2

\* Such messages come back.
LEMMA KnownReturns == ValuesKnown => RoundTrips
<1> SUFFICES ASSUME ValuesKnown PROVE RoundTrips
  OBVIOUS
<1> PICK d : d = Interaction(TerminalInfoOfProto)
  OBVIOUS
<1>1. ASSUME NEW w \in Written
      PROVE  /\ Len(w.s) = ByteSize(interaction, w.m)
             /\ Read(interaction, Empty, w.s) = [ok |-> TRUE, m |-> w.m]
             /\ Read(d, Empty, w.s).ok
             /\ Serialize(d, Read(d, Empty, w.s).m) = w.s
  <2> PICK x, s : x = w.m /\ s = w.s
    OBVIOUS
  <2>1. KnownWhole(x) /\ s = Serialize(interaction, x)
    BY WrittenIs
  <2>2. /\ Len(s) = ByteSize(interaction, x)
        /\ Read(interaction, Empty, s) = [ok |-> TRUE, m |-> x]
        /\ Read(d, Empty, s).ok
        /\ Serialize(d, Read(d, Empty, s).m) = s
    BY ONLY <2>1, d = Interaction(TerminalInfoOfProto), MessageReturns
  <2> QED BY ONLY <2>2, x = w.m, s = w.s
<1>2. \A w \in Written : \A s \in {Serialize(d, Read(d, Empty, w.s).m)} :
         Read(interaction, Empty, s) = [ok |-> TRUE, m |-> w.m]
  BY <1>1
<1> QED BY ONLY <1>1, <1>2, d = Interaction(TerminalInfoOfProto) DEF RoundTrips

\* Every message the program can build is written in as many bytes as
\* ByteSizeLong promises and read back as it was, and a program that does
\* not know term_config passes it on.
THEOREM MessagesComeBack == Spec => []RoundTrips
BY ObjectsAreKnown, KnownReturns, PTL

\* And two of them one after the other are merged.
LEMMA KnownConcatenates == ValuesKnown => ConcatenationMerges
<1> SUFFICES ASSUME ValuesKnown, NEW x \in Written, NEW y \in Written
             PROVE  Read(interaction, Empty, x.s \o y.s) = [ok |-> TRUE, m |-> Merge(interaction, x.m, y.m)]
  BY DEF ConcatenationMerges
<1> PICK a, b : a = x.m /\ b = y.m
  OBVIOUS
<1>1. KnownWhole(a) /\ x.s = Serialize(interaction, a) /\ KnownWhole(b) /\ y.s = Serialize(interaction, b)
  BY WrittenIs
<1>2. IsWhole(interaction, a) /\ IsWhole(interaction, b) /\ OuterClass(interaction)
  BY ONLY <1>1, KnownIsWhole, BothClasses
<1>3. Read(interaction, Empty, Serialize(interaction, a) \o Serialize(interaction, b))
         = [ok |-> TRUE, m |-> Merge(interaction, a, b)]
  BY ONLY <1>2, WholeReads
<1> QED BY ONLY <1>1, <1>3, a = x.m, b = y.m

\* The bytes of any two messages the program can build, one after the
\* other, are read as what MergeFrom makes of the two.
THEOREM ConcatenationIsMerge == Spec => []ConcatenationMerges
BY ObjectsAreKnown, KnownConcatenates, PTL

-----------------------------------------------------------------------------
(* The programs that write and read ./log. *)

\* The bytes s are the first bytes of d.
Beginning(s, d) == s \in Seq(Nat) /\ Len(s) <= Len(d) /\ \A i \in 1 .. Len(s) : s[i] = d[i]

LogTypes ==
  /\ message \in [Writers -> Messages] /\ chunk \in Nat \ {0}
  /\ file \in Seq(Nat) /\ buf \in Seq(Nat) /\ off \in [Writers -> Nat]
  /\ wpc \in [Writers -> {"start", "writing", "exit 0", "exit -1", "killed"}]
  /\ rpc \in {"start", "reading", "listed", "exit -1"}
  /\ overlapped \subseteq {"writer", "reader"} /\ full \in BOOLEAN

\* Before its start a writer has no offset, and none lies behind its bytes.
OffsetsAreWithin == \A w \in Writers :
  /\ off[w] <= Len(Data(w))
  /\ wpc[w] = "start" => off[w] = 0

\* The file has been made by the writer that opened it last.
LatestIsWriter ==
  /\ exists => latest \in Writers /\ wpc[latest] # "start"
  /\ latest # Nobody => exists
  /\ rpc = "start" => buf = <<>>
  /\ rpc = "reading" => exists
  /\ rpc = "listed" => source \in Writers /\ wpc[source] # "start"

\* As long as no writer opened the file over another's work, the latest writer
\* is the only one, and the file holds what it has written.
OneWriter ==
  "writer" \notin overlapped =>
    /\ \A w \in Writers : wpc[w] = "writing" => w = latest
    /\ exists => /\ Beginning(file, Data(latest))
                 /\ wpc[latest] = "writing" => Len(file) = off[latest]
                 /\ wpc[latest] = "exit 0" /\ ~full => Len(file) = Len(Data(latest))
    /\ rpc = "reading" => Beginning(buf, file)
    /\ rpc = "listed" => CutShort(shown, message[source])

\* If all write the same bytes in one piece, the file holds nothing else.
OnePiece == \A v, w \in Writers : Data(v) = Data(w) /\ Len(Data(w)) <= chunk

AllTheSame ==
  OnePiece =>
    /\ \A w \in Writers : /\ wpc[w] = "writing" => off[w] = 0
                          /\ Beginning(file, Data(w)) /\ Beginning(buf, Data(w))
    /\ rpc = "listed" => CutShort(shown, message[source])

\* A reader that met no writer has read a file that nobody was writing to.
ReaderAlone ==
  overlapped = {} =>
    /\ rpc = "reading" => \A w \in Writers : wpc[w] # "writing"
    /\ rpc = "listed" => /\ wpc[source] # "writing"
                         /\ wpc[source] = "exit 0" /\ ~full => shown = message[source]

LogInv == LogTypes /\ OffsetsAreWithin /\ LatestIsWriter /\ OneWriter /\ AllTheSame /\ ReaderAlone

\* An inner message put together by setters is one of known fields.
LEMMA InfoOfIsKnown ==
    ASSUME NEW c, NEW v, IsInfoOf(c, v)
    PROVE  KnownInfo(c, v)
<1>1. /\ v = [f |-> v.f, unknown |-> <<>>] /\ v.f = [n \in DOMAIN v.f |-> v.f[n]]
      /\ DOMAIN v.f \subseteq DOMAIN c.read /\ \A n \in DOMAIN v.f : v.f[n] \in ScalarValues(c.read[n])
  BY DEF IsInfoOf, IsOf
<1>2. v.unknown = <<>>
  BY ONLY <1>1
<1>3. <<>> \in Seq(WireEntries) /\ \A i \in 1 .. Len(<<>>) : FALSE
  BY ONLY EmptySeq
<1>4. v = [f |-> v.f, unknown |-> v.unknown]
  BY ONLY <1>1, <1>2
<1>5. IsInfo(c, v)
  BY ONLY <1>1, <1>2, <1>3, <1>4 DEF IsInfo
<1> QED BY ONLY <1>2, <1>5 DEF KnownInfo

\* What a writer may be built with is a message of known fields.
LEMMA BuiltIsKnown ==
    ASSUME NEW m \in Messages
    PROVE  KnownWhole(m) /\ IsInitialized(interaction, m)
<1>1. DOMAIN interaction.read = InteractionFields /\ interaction.read = InteractionRead
  BY InteractionParts DEF interaction
<1>2. /\ m = [f |-> m.f, unknown |-> <<>>] /\ m.f = [n \in DOMAIN m.f |-> m.f[n]]
      /\ DOMAIN m.f \subseteq InteractionFields
  BY <1>1, MessagesAssumption DEF IsOf
<1>3. ASSUME NEW n \in DOMAIN m.f PROVE IsKnown(n, m.f[n])
  <2> PICK v, c : v = m.f[n] /\ c = interaction.class[n]
    OBVIOUS
  <2>1. CASE n \in {2, 3, 5, 6}
    <3>1. IsInfoOf(c, v)
      BY <2>1, MessagesAssumption
    <3>2. KnownInfo(c, v)
      BY ONLY <3>1, InfoOfIsKnown
    <3> QED BY <2>1, <3>2 DEF IsKnown
  <2>2. CASE n \in {10, 11}
    <3>1. n \notin {2, 3, 5, 6}
      BY ONLY <2>2
    <3>2. v # <<>> /\ v \in Seq(ToSet(v)) /\ \A i \in 1 .. Len(v) : IsInfoOf(c, v[i])
      BY <2>2, <3>1, MessagesAssumption
    <3>3. \A i \in 1 .. Len(v) : KnownInfo(c, v[i])
      BY ONLY <3>2, InfoOfIsKnown
    <3>4. Len(v) # 0
      BY ONLY <3>2, EmptySeq
    <3>5. \E S : v \in Seq(S)
      BY ONLY <3>2
    <3> QED BY <2>2, <3>1, <3>3, <3>4, <3>5 DEF IsKnown
  <2>3. CASE n \notin {2, 3, 5, 6} /\ n \notin {10, 11}
    <3>1. v \in ScalarValues(interaction.read[n])
      BY <2>3, MessagesAssumption
    <3> QED BY <1>1, <2>3, <3>1 DEF IsKnown
  <2> QED BY <2>1, <2>2, <2>3
<1>4. IsInitialized(interaction, m)
  BY MessagesAssumption
<1> QED BY ONLY <1>2, <1>3, <1>4 DEF KnownWhole

\* The fields are written in the order of their numbers.
LEMMA WrittenAscends == Ascending(interaction.written)
<1> PICK w : w = interaction.written
  OBVIOUS
<1>1. w = <<1, 2, 3, 4, 5, 6, 7, 9, 10, 11>>
  <2>1. Interaction(TerminalInfo).written = InteractionWritten
    BY ONLY InteractionParts
  <2>2. w = InteractionWritten
    BY ONLY <2>1, w = interaction.written DEF interaction
  <2> QED BY ONLY <2>2 DEF InteractionWritten
<1>2. Len(w) = 10 /\ \A i \in 1 .. 10 : w[i] = IF i <= 7 THEN i ELSE i + 1
  BY ONLY <1>1
<1>3. ASSUME NEW i \in 1 .. 10, NEW j \in 1 .. 10, i < j PROVE w[i] < w[j]
  <2>1. w[i] = (IF i <= 7 THEN i ELSE i + 1) /\ w[j] = (IF j <= 7 THEN j ELSE j + 1)
    BY ONLY <1>2, i \in 1 .. 10, j \in 1 .. 10
  <2> QED BY ONLY <1>3, <2>1, i \in 1 .. 10, j \in 1 .. 10
<1>4. \A i, j \in 1 .. Len(w) : i < j => w[i] < w[j]
  BY ONLY <1>2, <1>3
<1> QED BY ONLY <1>4, w = interaction.written DEF Ascending

\* The bytes of a message are read back as the message, and the beginning of
\* them is refused or read as the message cut short.
LEMMA BytesOfMessage ==
    ASSUME NEW m \in Messages, NEW s, s = Bytes[m]
    PROVE  /\ s \in Seq(Nat) /\ Parse(interaction, s) = [ok |-> TRUE, m |-> m]
           /\ \A k \in 0 .. Len(s) : Parse(interaction, SubSeq(s, 1, k)).ok
                                        => CutShort(Parse(interaction, SubSeq(s, 1, k)).m, m)
<1>1. KnownWhole(m) /\ IsInitialized(interaction, m) /\ s = Serialize(interaction, m)
  BY BuiltIsKnown DEF Bytes
<1>2. IsWhole(interaction, m) /\ OuterClass(interaction) /\ SizedClass(interaction)
  BY ONLY <1>1, KnownIsWhole, BothClasses
<1>3. s \in Seq(Nat)
  BY ONLY <1>1, <1>2, WholeSizes
<1>4. Read(interaction, Empty, s) = [ok |-> TRUE, m |-> m]
  BY ONLY <1>1, <1>2, WholeReads
<1>5. Parse(interaction, s) = [ok |-> TRUE, m |-> m]
  <2> PICK r : r = Read(interaction, Empty, s)
    OBVIOUS
  <2>1. r.ok = TRUE /\ r.m = m
    BY ONLY <1>4, r = Read(interaction, Empty, s)
  <2>2. Parse(interaction, s) = [ok |-> r.ok /\ IsInitialized(interaction, r.m), m |-> r.m]
    BY ONLY r = Read(interaction, Empty, s) DEF Parse
  <2>3. (r.ok /\ IsInitialized(interaction, r.m)) = TRUE
    BY ONLY <1>1, <2>1
  <2> QED BY ONLY <2>1, <2>2, <2>3
<1>6. m.unknown = <<>>
  BY ONLY <1>1 DEF KnownWhole
<1>7. ASSUME NEW k \in 0 .. Len(s), NEW p, p = SubSeq(s, 1, k), Parse(interaction, p).ok
      PROVE  CutShort(Parse(interaction, p).m, m)
  <2> PICK r : r = Read(interaction, Empty, p)
    OBVIOUS
  <2>1. r.ok => CutBack(interaction, r.m, m)
    BY ONLY <1>1, <1>2, <1>6, k \in 0 .. Len(s), p = SubSeq(s, 1, k), r = Read(interaction, Empty, p), WrittenAscends, CutIsRead
  <2>2. r.ok /\ Parse(interaction, p).m = r.m
    BY <1>7 DEF Parse
  <2> QED BY ONLY <2>1, <2>2 DEF CutBack, CutShort
<1> QED BY ONLY <1>3, <1>5, <1>7

\* The bytes of a writer, and what the reader makes of the beginning of them.
LEMMA DataIs ==
    ASSUME LogTypes, NEW w \in Writers
    PROVE  /\ Data(w) \in Seq(Nat) /\ message[w] \in Messages
           /\ \A s : Beginning(s, Data(w)) /\ Parse(interaction, s).ok
                        => CutShort(Parse(interaction, s).m, message[w])
           /\ \A s : Beginning(s, Data(w)) /\ Len(s) = Len(Data(w))
                        => Parse(interaction, s) = [ok |-> TRUE, m |-> message[w]]
<1>1. message[w] \in Messages
  BY DEF LogTypes
<1> PICK d : d = Data(w)
  OBVIOUS
<1>2. d \in Seq(Nat) /\ d = Bytes[message[w]]
  <2>1. d = Bytes[message[w]]
    BY DEF Data
  <2> QED BY ONLY <1>1, <2>1, BytesOfMessage
<1>3. ASSUME NEW s, Beginning(s, d)
      PROVE  s = SubSeq(d, 1, Len(s)) /\ Len(s) \in 0 .. Len(d)
  BY <1>2, <1>3 DEF Beginning
<1>4. ASSUME NEW s, Beginning(s, d), Len(s) = Len(d)
      PROVE  s = d
  BY <1>2, <1>4, SMTT(30) DEF Beginning
<1>5. ASSUME NEW s, Beginning(s, d), Parse(interaction, s).ok
      PROVE  CutShort(Parse(interaction, s).m, message[w])
  <2> PICK k \in 0 .. Len(d) : s = SubSeq(d, 1, k)
    BY <1>3, <1>5
  <2>1. Parse(interaction, SubSeq(d, 1, k)).ok => CutShort(Parse(interaction, SubSeq(d, 1, k)).m, message[w])
    BY ONLY <1>1, <1>2, k \in 0 .. Len(d), BytesOfMessage
  <2> QED BY <1>5, <2>1
<1>6. Parse(interaction, d) = [ok |-> TRUE, m |-> message[w]]
  BY ONLY <1>1, <1>2, BytesOfMessage
<1> QED BY <1>1, <1>2, <1>4, <1>5, <1>6

\* The k bytes of d behind the first a.
LEMMA PartOf ==
    ASSUME NEW d \in Seq(Nat), NEW a \in Nat, NEW k \in Nat, a + k <= Len(d)
    PROVE  /\ SubSeq(d, a + 1, a + k) \in Seq(Nat) /\ Len(SubSeq(d, a + 1, a + k)) = k
           /\ \A i \in 1 .. k : SubSeq(d, a + 1, a + k)[i] = d[a + i]
  OBVIOUS

\* The first k bytes of a sequence.
LEMMA FirstOf ==
    ASSUME NEW d \in Seq(Nat), NEW k \in Nat, k <= Len(d)
    PROVE  /\ SubSeq(d, 1, k) \in Seq(Nat) /\ Len(SubSeq(d, 1, k)) = k
           /\ \A i \in 1 .. k : SubSeq(d, 1, k)[i] = d[i]
  OBVIOUS

\* Sequences with the same bytes are the same.
LEMMA SameBytes ==
    ASSUME NEW k \in Nat, NEW s \in Seq(Nat), NEW t \in Seq(Nat), Len(s) = k, Len(t) = k,
           \A i \in 1 .. k : s[i] = t[i]
    PROVE  s = t
  OBVIOUS

\* A piece is part of the bytes of its writer, from its offset on.
LEMMA PieceIs ==
    ASSUME LogTypes, OffsetsAreWithin, NEW w \in Writers
    PROVE  /\ Len(Piece(w)) \in Nat /\ off[w] \in Nat /\ off[w] + Len(Piece(w)) <= Len(Data(w))
           /\ IsLastPiece(w) <=> off[w] + Len(Piece(w)) = Len(Data(w))
           /\ off[w] = 0 /\ Len(Data(w)) <= chunk => IsLastPiece(w)
           /\ Piece(w) = SubSeq(Data(w), off[w] + 1, off[w] + Len(Piece(w)))
           /\ \A k \in 0 .. Len(Piece(w)) :
                 SubSeq(Piece(w), 1, k) = SubSeq(Data(w), off[w] + 1, off[w] + k)
<1> PICK d, at, n : d = Data(w) /\ at = off[w]
                    /\ n = IF off[w] + chunk < Len(Data(w)) THEN off[w] + chunk ELSE Len(Data(w))
  OBVIOUS
<1>1. d \in Seq(Nat) /\ at \in Nat /\ at <= Len(d) /\ chunk \in Nat \ {0}
  BY DataIs DEF OffsetsAreWithin, LogTypes
<1>2. n \in Nat /\ at <= n /\ n <= Len(d) /\ (at = 0 /\ Len(d) <= chunk => n = Len(d))
  BY <1>1
<1>3. Piece(w) = SubSeq(d, at + 1, n)
  BY DEF Piece
<1>4. n - at \in Nat /\ at + (n - at) = n /\ Len(d) \in Nat
  BY ONLY <1>1, <1>2
<1> PICK p : p = SubSeq(d, at + 1, n)
  OBVIOUS
<1>12. p \in Seq(Nat) /\ Len(p) = n - at /\ \A i \in 1 .. (n - at) : p[i] = d[at + i]
  <2>1. at + (n - at) <= Len(d)
    BY <1>2, <1>4
  <2> PICK j \in Nat : j = n - at
    BY <1>4
  <2>2. /\ SubSeq(d, at + 1, at + j) \in Seq(Nat) /\ Len(SubSeq(d, at + 1, at + j)) = j
        /\ \A i \in 1 .. j : SubSeq(d, at + 1, at + j)[i] = d[at + i]
    BY ONLY <1>1, <2>1, j \in Nat, j = n - at, PartOf
  <2>3. at + j = n
    BY <1>4
  <2> QED BY ONLY <2>2, <2>3, j = n - at, p = SubSeq(d, at + 1, n)
<1>5. ASSUME NEW k \in 0 .. (n - at)
      PROVE  SubSeq(p, 1, k) = SubSeq(d, at + 1, at + k)
  <2>1. k \in Nat /\ k <= n - at /\ at + k <= Len(d)
    BY ONLY <1>1, <1>2, <1>4, k \in 0 .. (n - at)
  <2>2. /\ SubSeq(d, at + 1, at + k) \in Seq(Nat) /\ Len(SubSeq(d, at + 1, at + k)) = k
        /\ \A i \in 1 .. k : SubSeq(d, at + 1, at + k)[i] = d[at + i]
    BY ONLY <1>1, <2>1, PartOf
  <2>3. /\ SubSeq(p, 1, k) \in Seq(Nat) /\ Len(SubSeq(p, 1, k)) = k
        /\ \A i \in 1 .. k : SubSeq(p, 1, k)[i] = p[i]
    BY ONLY <1>12, <2>1, FirstOf
  <2>4. \A i \in 1 .. k : i \in 1 .. (n - at)
    BY ONLY <1>4, <2>1
  <2>5. \A i \in 1 .. k : SubSeq(p, 1, k)[i] = SubSeq(d, at + 1, at + k)[i]
    BY ONLY <1>12, <2>2, <2>3, <2>4
  <2> QED BY ONLY <2>1, <2>2, <2>3, <2>5, SameBytes
<1>7. IsLastPiece(w) <=> at + Len(Piece(w)) = Len(d)
  BY DEF IsLastPiece
<1>8. Piece(w) = p /\ Len(Piece(w)) = n - at /\ n - at \in Nat
  BY <1>3, <1>4, <1>12
<1>9. at = 0 /\ Len(d) <= chunk => at + Len(Piece(w)) = Len(d)
  BY <1>1, <1>2, <1>8
<1>10. at + Len(Piece(w)) = n
  BY <1>4, <1>8
<1>11. \A k \in 0 .. Len(Piece(w)) : SubSeq(Piece(w), 1, k) = SubSeq(d, at + 1, at + k)
  BY <1>5, <1>8
<1> QED BY <1>1, <1>2, <1>3, <1>7, <1>8, <1>9, <1>10, <1>11

\* Numbered bytes are a sequence.
LEMMA BytesAreSeq ==
    ASSUME NEW n \in Nat, NEW f \in [1 .. n -> Nat]
    PROVE  f \in Seq(Nat) /\ Len(f) = n
  OBVIOUS

\* A write leaves a sequence of bytes.
LEMMA StoredIsSeq ==
    ASSUME file \in Seq(Nat), NEW at \in Nat, NEW s \in Seq(Nat)
    PROVE  /\ Stored(at, s) \in Seq(Nat)
           /\ Len(Stored(at, s)) = IF at + Len(s) > Len(file) THEN at + Len(s) ELSE Len(file)
<1> PICK n : n = IF at + Len(s) > Len(file) THEN at + Len(s) ELSE Len(file)
  OBVIOUS
<1>1. n \in Nat
  OBVIOUS
<1>2. Stored(at, s) = [i \in 1 .. n |-> Stored(at, s)[i]]
  BY DEF Stored
<1>3. ASSUME NEW i \in 1 .. n
      PROVE  Stored(at, s)[i] \in Nat
  <2>1. Stored(at, s)[i] = CASE i > at /\ i <= at + Len(s) -> s[i - at]
                             [] i <= at /\ i > Len(file) -> 0
                             [] OTHER -> file[i]
    BY <1>1 DEF Stored
  <2>2. CASE i > at /\ i <= at + Len(s)
    <3>1. i - at \in 1 .. Len(s)
      BY <1>1, <2>2
    <3> QED BY <2>1, <2>2, <3>1
  <2>3. CASE i <= at /\ i > Len(file)
    BY <2>1, <2>3
  <2>4. CASE ~(i > at /\ i <= at + Len(s)) /\ ~(i <= at /\ i > Len(file))
    <3>1. i \in 1 .. Len(file)
      BY <1>1, <2>4
    <3> QED BY <2>1, <2>4, <3>1
  <2> QED BY <2>2, <2>3, <2>4
<1>4. Stored(at, s) \in [1 .. n -> Nat]
  BY <1>2, <1>3
<1>5. \A f \in [1 .. n -> Nat] : f \in Seq(Nat) /\ Len(f) = n
  BY ONLY <1>1, BytesAreSeq
<1> QED BY ONLY <1>4, <1>5, n = IF at + Len(s) > Len(file) THEN at + Len(s) ELSE Len(file)

\* Bytes of d that are stored behind or over bytes of d make it a longer beginning.
LEMMA StoredIsBeginning ==
    ASSUME NEW d \in Seq(Nat), Beginning(file, d), NEW at \in Nat, NEW k \in Nat,
           at <= Len(file), at + k <= Len(d)
    PROVE  /\ Beginning(Stored(at, SubSeq(d, at + 1, at + k)), d)
           /\ Len(Stored(at, SubSeq(d, at + 1, at + k)))
                 = IF at + k > Len(file) THEN at + k ELSE Len(file)
<1> PICK s : s = SubSeq(d, at + 1, at + k)
  OBVIOUS
<1>1. s \in Seq(Nat) /\ Len(s) = k /\ \A i \in 1 .. k : s[i] = d[at + i]
  BY PartOf
<1>2. file \in Seq(Nat) /\ Len(file) <= Len(d) /\ \A i \in 1 .. Len(file) : file[i] = d[i]
  BY DEF Beginning
<1> PICK n : n = IF at + k > Len(file) THEN at + k ELSE Len(file)
  OBVIOUS
<1>3. Stored(at, s) \in Seq(Nat) /\ Len(Stored(at, s)) = n /\ n <= Len(d) /\ n \in Nat
  <2>1. /\ Stored(at, s) \in Seq(Nat)
        /\ Len(Stored(at, s)) = IF at + Len(s) > Len(file) THEN at + Len(s) ELSE Len(file)
    BY <1>1, <1>2, StoredIsSeq
  <2>2. Len(file) \in Nat /\ Len(d) \in Nat
    BY <1>2
  <2> QED BY <1>1, <1>2, <2>1, <2>2
<1>4. ASSUME NEW i \in 1 .. n
      PROVE  Stored(at, s)[i] = d[i]
  <2>1. Stored(at, s)[i] = CASE i > at /\ i <= at + k -> s[i - at]
                             [] i <= at /\ i > Len(file) -> 0
                             [] OTHER -> file[i]
    BY <1>1, <1>3 DEF Stored
  <2>2. CASE i > at /\ i <= at + k
    <3>1. i - at \in 1 .. k /\ at + (i - at) = i
      BY <1>3, <2>2
    <3>2. Stored(at, s)[i] = s[i - at]
      BY ONLY <2>1, <2>2
    <3>3. s[i - at] = d[at + (i - at)]
      BY <1>1, <3>1
    <3> QED BY <3>1, <3>2, <3>3
  <2>3. CASE ~(i > at /\ i <= at + k)
    <3>1. ~(i <= at /\ i > Len(file)) /\ i \in 1 .. Len(file)
      <4>1. Len(file) \in Nat /\ i \in Nat /\ i >= 1 /\ i <= n
        BY <1>2, <1>3
      <4> QED BY <2>3, <4>1
    <3> QED BY <1>2, <2>1, <2>3, <3>1
  <2> QED BY <2>2, <2>3
<1> QED BY <1>1, <1>3, <1>4 DEF Beginning

\* A write of some bytes at the offset of their writer.
LEMMA WriteIs ==
    ASSUME LogInv, NEW w \in Writers, wpc[w] = "writing", NEW k \in Nat, off[w] + k <= Len(Data(w)),
           NEW new, new = Stored(off[w], SubSeq(Data(w), off[w] + 1, off[w] + k))
    PROVE  /\ new \in Seq(Nat)
           /\ "writer" \notin overlapped /\ exists =>
                 /\ w = latest /\ Beginning(new, Data(latest)) /\ Len(new) = off[w] + k
                 /\ rpc = "reading" => Beginning(buf, new)
           /\ OnePiece => \A v \in Writers : Beginning(new, Data(v))
<1>1. /\ file \in Seq(Nat) /\ off[w] \in Nat /\ Data(w) \in Seq(Nat)
      /\ SubSeq(Data(w), off[w] + 1, off[w] + k) \in Seq(Nat)
  <2>1. file \in Seq(Nat) /\ off[w] \in Nat /\ LogTypes
    BY DEF LogInv, LogTypes
  <2>2. Data(w) \in Seq(Nat)
    BY <2>1, DataIs
  <2>3. \A d \in Seq(Nat) : \A at \in Nat : at + k <= Len(d) => SubSeq(d, at + 1, at + k) \in Seq(Nat)
    OBVIOUS
  <2> QED BY <2>1, <2>2, <2>3
<1>2. new \in Seq(Nat)
  BY <1>1, StoredIsSeq
<1>3. ASSUME "writer" \notin overlapped, exists
      PROVE  /\ w = latest /\ Beginning(new, Data(latest)) /\ Len(new) = off[w] + k
             /\ rpc = "reading" => Beginning(buf, new)
  <2>1. w = latest /\ Beginning(file, Data(w)) /\ Len(file) = off[w] /\ (rpc = "reading" => Beginning(buf, file))
    BY <1>3 DEF LogInv, OneWriter
  <2>2. /\ Beginning(new, Data(w))
        /\ Len(new) = IF off[w] + k > Len(file) THEN off[w] + k ELSE Len(file)
    <3>1. off[w] <= Len(file)
      BY <1>1, <2>1
    <3> QED BY <1>1, <2>1, <3>1, StoredIsBeginning
  <2>3. Len(new) = off[w] + k
    BY <1>1, <2>1, <2>2
  <2>4. Beginning(buf, file) => Beginning(buf, new)
    <3>1. /\ Len(file) \in Nat /\ Len(new) \in Nat /\ Len(file) <= Len(new)
          /\ \A i \in 1 .. Len(file) : file[i] = new[i]
      <4>1. Len(file) \in Nat /\ Len(new) = Len(file) + k
        BY <1>1, <2>1, <2>3
      <4>2. \A i \in 1 .. Len(file) : i \in 1 .. Len(new)
        BY <4>1
      <4>3. /\ \A i \in 1 .. Len(file) : file[i] = Data(w)[i]
            /\ \A i \in 1 .. Len(new) : new[i] = Data(w)[i]
        BY <2>1, <2>2 DEF Beginning
      <4> QED BY <4>1, <4>2, <4>3
    <3> HAVE Beginning(buf, file)
    <3>2. buf \in Seq(Nat) /\ Len(buf) <= Len(file) /\ \A i \in 1 .. Len(buf) : buf[i] = file[i]
      BY DEF Beginning
    <3>3. Len(buf) <= Len(new) /\ \A i \in 1 .. Len(buf) : i \in 1 .. Len(file)
      BY <3>1, <3>2
    <3> QED BY <3>1, <3>2, <3>3 DEF Beginning
  <2> QED BY <2>1, <2>2, <2>3, <2>4
<1>4. ASSUME OnePiece, NEW v \in Writers
      PROVE  Beginning(new, Data(v))
  <2>1. Data(v) = Data(w) /\ off[w] = 0 /\ Beginning(file, Data(w))
    BY <1>4 DEF LogInv, AllTheSame, OnePiece
  <2>2. off[w] <= Len(file)
    BY <1>1, <2>1
  <2> QED BY <1>1, <2>1, <2>2, StoredIsBeginning
<1> QED BY <1>2, <1>3, <1>4

\* The messages and the size of the buffers do not change.
LEMMA DataStays ==
    ASSUME UNCHANGED <<message, chunk>>
    PROVE  /\ \A w : Data(w)' = Data(w)
           /\ OnePiece' <=> OnePiece
<1>1. ASSUME NEW w
      PROVE  Data(w)' = Data(w)
  BY DEF Data, Bytes
<1>2. OnePiece' <=> OnePiece
  BY DEF OnePiece, Data, Bytes
<1> QED BY <1>1, <1>2

\* A writer opens the file and empties it.
LEMMA OpenLogKeepsInv ==
    ASSUME LogInv, NEW w \in Writers, OpenLog(w), UNCHANGED <<message, chunk>>
    PROVE  LogInv'
<1>1. /\ wpc[w] = "start" /\ wpc' = [wpc EXCEPT ![w] = "writing"]
      /\ file' = <<>> /\ exists' = TRUE /\ latest' = w
      /\ overlapped' = overlapped \cup IF Writing # {} \/ rpc = "reading" THEN {"writer"} ELSE {}
      /\ off' = off /\ rpc' = rpc /\ buf' = buf /\ shown' = shown /\ full' = full /\ source' = source
      /\ message' = message /\ chunk' = chunk
  BY DEF OpenLog
<1>2. LogTypes /\ OffsetsAreWithin /\ LatestIsWriter /\ OneWriter /\ AllTheSame /\ ReaderAlone
  BY DEF LogInv
<1>3. /\ wpc \in [Writers -> {"start", "writing", "exit 0", "exit -1", "killed"}]
      /\ wpc'[w] = "writing" /\ \A v \in Writers : v # w => wpc'[v] = wpc[v]
  BY <1>1, <1>2 DEF LogTypes
<1>4. LogTypes'
  <2>1. file' \in Seq(Nat) /\ wpc' \in [Writers -> {"start", "writing", "exit 0", "exit -1", "killed"}]
    <3>1. <<>> \in Seq(Nat)
      OBVIOUS
    <3>2. wpc' \in [Writers -> {"start", "writing", "exit 0", "exit -1", "killed"}]
      BY ONLY <1>1, <1>3
    <3> QED BY <1>1, <3>1, <3>2
  <2>2. overlapped' \subseteq {"writer", "reader"}
    BY <1>1, <1>2 DEF LogTypes
  <2> QED BY <1>1, <1>2, <2>1, <2>2 DEF LogTypes
<1>5. \A v \in Writers : Beginning(<<>>, Data(v)) /\ off[w] = 0
  <2>1. \A v \in Writers : Data(v) \in Seq(Nat)
    BY <1>2, DataIs
  <2> QED BY <1>1, <1>2, <2>1 DEF Beginning, OffsetsAreWithin
<1>6. OffsetsAreWithin'
  BY <1>1, <1>2, <1>3, DataStays DEF OffsetsAreWithin
<1>7. LatestIsWriter'
  BY <1>1, <1>2, <1>3 DEF LatestIsWriter
<1>8. OneWriter'
  <2> SUFFICES ASSUME "writer" \notin overlapped'
               PROVE  /\ \A v \in Writers : wpc'[v] = "writing" => v = latest'
                      /\ Beginning(file', Data(latest)') /\ Len(file') = off'[latest']
                      /\ wpc'[latest'] # "exit 0"
                      /\ rpc' # "reading"
                      /\ rpc' = "listed" => CutShort(shown', message'[source'])
    BY DEF OneWriter
  <2>1. Writing = {} /\ rpc # "reading" /\ "writer" \notin overlapped
    BY <1>1
  <2>2. \A v \in Writers : wpc'[v] = "writing" => v = latest'
    BY <1>1, <1>3, <2>1 DEF Writing
  <2>3. Data(latest)' = Data(w)
    BY <1>1 DEF Data, Bytes
  <2>4. rpc = "listed" => CutShort(shown, message[source])
    BY <1>2, <2>1 DEF OneWriter
  <2> QED BY <1>1, <1>3, <1>5, <2>1, <2>2, <2>3, <2>4
<1>9. AllTheSame'
  BY <1>1, <1>2, <1>3, <1>5, DataStays DEF AllTheSame
<1>10. ReaderAlone'
  <2>1. overlapped' = {} => rpc # "reading" /\ overlapped = {}
    BY <1>1
  <2>2. rpc = "listed" => source # w
    BY <1>1, <1>2 DEF LatestIsWriter
  <2> QED BY <1>1, <1>2, <1>3, <2>1, <2>2 DEF ReaderAlone, LatestIsWriter
<1> QED BY <1>4, <1>6, <1>7, <1>8, <1>9, <1>10 DEF LogInv

\* Offsets stay numbers.
LEMMA SumIsNat == \A a, b \in Nat : a + b \in Nat
  OBVIOUS

\* A write, whole or cut off by a full disk, after which the writer goes on or is done.
LEMMA WriteKeepsInv ==
    ASSUME LogInv, UNCHANGED <<message, chunk>>, NEW w \in Writers, wpc[w] = "writing",
           NEW k \in Nat, off[w] + k <= Len(Data(w)),
           file' = Stored(off[w], SubSeq(Data(w), off[w] + 1, off[w] + k)),
           off' = off \/ off' = [off EXCEPT ![w] = @ + k],
           full' \in BOOLEAN, full => full',
           NEW s \in {"writing", "exit 0", "exit -1"}, wpc' = [wpc EXCEPT ![w] = s],
           s = "writing" => off'[w] = off[w] + k /\ ~OnePiece,
           s = "exit 0" => full' \/ off[w] + k = Len(Data(w)),
           UNCHANGED <<exists, rpc, buf, shown, latest, source, overlapped>>
    PROVE  LogInv'
<1>1. LogTypes /\ OffsetsAreWithin /\ LatestIsWriter /\ OneWriter /\ AllTheSame /\ ReaderAlone
  BY DEF LogInv
<1>2. /\ wpc \in [Writers -> {"start", "writing", "exit 0", "exit -1", "killed"}]
      /\ wpc'[w] = s /\ \A v \in Writers : v # w => wpc'[v] = wpc[v]
      /\ off \in [Writers -> Nat] /\ off' \in [Writers -> Nat]
      /\ off'[w] = off[w] \/ off'[w] = off[w] + k
      /\ \A v \in Writers : v # w => off'[v] = off[v]
  <2>1. /\ wpc \in [Writers -> {"start", "writing", "exit 0", "exit -1", "killed"}]
        /\ off \in [Writers -> Nat]
    BY <1>1 DEF LogTypes
  <2>2. wpc'[w] = s /\ \A v \in Writers : v # w => wpc'[v] = wpc[v]
    BY <2>1
  <2>3. off[w] \in Nat /\ k \in Nat
    BY <2>1
  <2>4. off[w] + k \in Nat
    BY ONLY <2>3, SumIsNat, Zenon
  <2>5. /\ off' \in [Writers -> Nat] /\ (off'[w] = off[w] \/ off'[w] = off[w] + k)
        /\ \A v \in Writers : v # w => off'[v] = off[v]
    BY <2>1, <2>4
  <2> QED BY ONLY <2>1, <2>2, <2>5
<1>3. /\ file' \in Seq(Nat)
      /\ "writer" \notin overlapped /\ exists =>
            /\ w = latest /\ Beginning(file', Data(latest)) /\ Len(file') = off[w] + k
            /\ rpc = "reading" => Beginning(buf, file')
      /\ OnePiece => \A v \in Writers : Beginning(file', Data(v))
  BY WriteIs
<1>4. LogTypes'
  <2>1. wpc' \in [Writers -> {"start", "writing", "exit 0", "exit -1", "killed"}]
    BY <1>2
  <2> QED BY <1>1, <1>2, <1>3, <2>1 DEF LogTypes
<1>5. OffsetsAreWithin'
  <2>1. \A v \in Writers : off'[v] <= Len(Data(v))
    BY <1>1, <1>2 DEF OffsetsAreWithin
  <2> QED BY <1>1, <1>2, <2>1, DataStays DEF OffsetsAreWithin
<1>6. LatestIsWriter'
  BY <1>1, <1>2 DEF LatestIsWriter
<1>7. OneWriter'
  <2> SUFFICES ASSUME "writer" \notin overlapped
               PROVE  /\ \A v \in Writers : wpc'[v] = "writing" => v = latest
                      /\ exists => /\ Beginning(file', Data(latest))
                                   /\ wpc'[latest] = "writing" => Len(file') = off'[latest]
                                   /\ wpc'[latest] = "exit 0" /\ ~full' => Len(file') = Len(Data(latest))
                      /\ rpc = "reading" => Beginning(buf, file')
                      /\ rpc = "listed" => CutShort(shown, message[source])
    BY DataStays DEF OneWriter
  <2>1. w = latest /\ \A v \in Writers : wpc[v] = "writing" => v = latest
    BY <1>1 DEF OneWriter
  <2>2. rpc = "listed" => CutShort(shown, message[source])
    BY <1>1 DEF OneWriter
  <2>3. rpc = "reading" => exists
    BY <1>1 DEF LatestIsWriter
  <2> QED BY <1>2, <1>3, <2>1, <2>2, <2>3
<1>8. AllTheSame'
  <2> SUFFICES ASSUME OnePiece
               PROVE  /\ \A v \in Writers : /\ wpc'[v] = "writing" => off'[v] = 0
                                            /\ Beginning(file', Data(v)) /\ Beginning(buf, Data(v))
                      /\ rpc = "listed" => CutShort(shown, message[source])
    BY DataStays DEF AllTheSame
  <2> QED BY <1>1, <1>2, <1>3 DEF AllTheSame
<1>9. ReaderAlone'
  BY <1>1, <1>2 DEF ReaderAlone, LatestIsWriter
<1> QED BY <1>4, <1>5, <1>6, <1>7, <1>8, <1>9 DEF LogInv

\* A piece is written; after the last the writer has returned 0.
LEMMA WritePieceKeepsInv ==
    ASSUME LogInv, NEW w \in Writers, WritePiece(w), UNCHANGED <<message, chunk>>
    PROVE  LogInv'
<1>1. /\ wpc[w] = "writing" /\ file' = Stored(off[w], Piece(w))
      /\ off' = [off EXCEPT ![w] = @ + Len(Piece(w))]
      /\ wpc' = IF IsLastPiece(w) THEN [wpc EXCEPT ![w] = "exit 0"] ELSE wpc
      /\ UNCHANGED <<exists, rpc, buf, shown, full, latest, source, overlapped>>
  BY DEF WritePiece
<1>2. LogTypes /\ OffsetsAreWithin /\ AllTheSame
  BY DEF LogInv
<1> PICK k : k = Len(Piece(w))
  OBVIOUS
<1>3. /\ k \in Nat /\ off[w] + k <= Len(Data(w)) /\ Piece(w) = SubSeq(Data(w), off[w] + 1, off[w] + k)
      /\ IsLastPiece(w) <=> off[w] + k = Len(Data(w))
      /\ off[w] = 0 /\ Len(Data(w)) <= chunk => IsLastPiece(w)
  BY <1>2, PieceIs
<1>4. OnePiece => IsLastPiece(w)
  BY <1>1, <1>2, <1>3 DEF OnePiece, AllTheSame
<1>5. full \in BOOLEAN /\ off'[w] = off[w] + k /\ wpc = [wpc EXCEPT ![w] = "writing"]
  <2>1. /\ wpc \in [Writers -> {"start", "writing", "exit 0", "exit -1", "killed"}]
        /\ off \in [Writers -> Nat] /\ full \in BOOLEAN
    BY <1>2 DEF LogTypes
  <2> QED BY <1>1, <2>1
<1> PICK s : s = IF IsLastPiece(w) THEN "exit 0" ELSE "writing"
  OBVIOUS
<1>6. s \in {"writing", "exit 0", "exit -1"} /\ wpc' = [wpc EXCEPT ![w] = s]
  BY <1>1, <1>5
<1> QED BY <1>1, <1>3, <1>4, <1>5, <1>6, WriteKeepsInv

\* The disk takes a part of the piece; the writer is done, whatever it returns.
LEMMA DiskFullKeepsInv ==
    ASSUME LogInv, NEW w \in Writers, DiskFull(w), UNCHANGED <<message, chunk>>
    PROVE  LogInv'
<1>1. /\ wpc[w] = "writing" /\ full' = TRUE
      /\ wpc' = [wpc EXCEPT ![w] = IF IsLastPiece(w) THEN "exit 0" ELSE "exit -1"]
      /\ UNCHANGED <<exists, off, rpc, buf, shown, latest, source, overlapped>>
  BY DEF DiskFull
<1> PICK k \in 0 .. (Len(Piece(w)) - 1) : file' = Stored(off[w], SubSeq(Piece(w), 1, k))
  BY DEF DiskFull
<1>2. LogTypes /\ OffsetsAreWithin
  BY DEF LogInv
<1>3. /\ Len(Piece(w)) \in Nat /\ off[w] \in Nat /\ off[w] + Len(Piece(w)) <= Len(Data(w))
      /\ \A j \in 0 .. Len(Piece(w)) : SubSeq(Piece(w), 1, j) = SubSeq(Data(w), off[w] + 1, off[w] + j)
  BY <1>2, PieceIs
<1>4. Len(Data(w)) \in Nat
  BY <1>2, DataIs
<1>5. k \in Nat /\ k \in 0 .. Len(Piece(w)) /\ off[w] + k <= Len(Data(w))
  BY <1>3, <1>4
<1>6. file' = Stored(off[w], SubSeq(Data(w), off[w] + 1, off[w] + k))
  BY <1>3, <1>5
<1> PICK s : s = IF IsLastPiece(w) THEN "exit 0" ELSE "exit -1"
  OBVIOUS
<1>7. s \in {"writing", "exit 0", "exit -1"} /\ wpc' = [wpc EXCEPT ![w] = s] /\ s # "writing"
  BY <1>1
<1>8. full' \in BOOLEAN /\ full' /\ off' = off
  BY <1>1
<1> QED BY <1>1, <1>5, <1>6, <1>7, <1>8, WriteKeepsInv

\* A writer is killed.
LEMMA KillKeepsInv ==
    ASSUME LogInv, NEW w \in Writers, Kill(w), UNCHANGED <<message, chunk>>
    PROVE  LogInv'
<1>1. /\ wpc[w] = "writing" /\ wpc' = [wpc EXCEPT ![w] = "killed"]
      /\ UNCHANGED <<file, exists, off, rpc, buf, shown, full, latest, source, overlapped>>
  BY DEF Kill
<1>2. LogTypes /\ OffsetsAreWithin /\ LatestIsWriter /\ OneWriter /\ AllTheSame /\ ReaderAlone
  BY DEF LogInv
<1>3. /\ wpc \in [Writers -> {"start", "writing", "exit 0", "exit -1", "killed"}]
      /\ wpc'[w] = "killed" /\ \A v \in Writers : v # w => wpc'[v] = wpc[v]
  BY <1>1, <1>2 DEF LogTypes
<1>4. LogTypes'
  BY <1>1, <1>2, <1>3 DEF LogTypes
<1>5. OffsetsAreWithin'
  BY <1>1, <1>2, <1>3, DataStays DEF OffsetsAreWithin
<1>6. LatestIsWriter'
  BY <1>1, <1>2, <1>3 DEF LatestIsWriter
<1>7. OneWriter'
  BY <1>1, <1>2, <1>3, DataStays DEF OneWriter, LatestIsWriter
<1>8. AllTheSame'
  BY <1>1, <1>2, <1>3, DataStays DEF AllTheSame
<1>9. ReaderAlone'
  BY <1>1, <1>2, <1>3 DEF ReaderAlone, LatestIsWriter
<1> QED BY <1>4, <1>5, <1>6, <1>7, <1>8, <1>9 DEF LogInv

\* A writer cannot open the file.
LEMMA OpenLogFailsKeepsInv ==
    ASSUME LogInv, NEW w \in Writers, OpenLogFails(w), UNCHANGED <<message, chunk>>
    PROVE  LogInv'
<1>1. /\ wpc[w] = "start" /\ wpc' = [wpc EXCEPT ![w] = "exit -1"]
      /\ UNCHANGED <<file, exists, off, rpc, buf, shown, full, latest, source, overlapped>>
  BY DEF OpenLogFails
<1>2. LogTypes /\ OffsetsAreWithin /\ LatestIsWriter /\ OneWriter /\ AllTheSame /\ ReaderAlone
  BY DEF LogInv
<1>3. /\ wpc \in [Writers -> {"start", "writing", "exit 0", "exit -1", "killed"}]
      /\ wpc'[w] = "exit -1" /\ \A v \in Writers : v # w => wpc'[v] = wpc[v]
  BY <1>1, <1>2 DEF LogTypes
<1>4. LogTypes'
  BY <1>1, <1>2, <1>3 DEF LogTypes
<1>5. OffsetsAreWithin'
  BY <1>1, <1>2, <1>3, DataStays DEF OffsetsAreWithin
<1>6. LatestIsWriter'
  BY <1>1, <1>2, <1>3 DEF LatestIsWriter
<1>7. OneWriter'
  BY <1>1, <1>2, <1>3, DataStays DEF OneWriter, LatestIsWriter
<1>8. AllTheSame'
  BY <1>1, <1>2, <1>3, DataStays DEF AllTheSame
<1>9. ReaderAlone'
  BY <1>1, <1>2, <1>3 DEF ReaderAlone, LatestIsWriter
<1> QED BY <1>4, <1>5, <1>6, <1>7, <1>8, <1>9 DEF LogInv

\* The reader opens the file, if there is one.
LEMMA OpenInputKeepsInv ==
    ASSUME LogInv, OpenInput, UNCHANGED <<message, chunk>>
    PROVE  LogInv'
<1>1. /\ rpc = "start" /\ rpc' \in {"reading", "exit -1"} /\ (rpc' = "reading" => exists)
      /\ overlapped' = overlapped \cup IF Writing # {} THEN {"reader"} ELSE {}
      /\ UNCHANGED <<file, exists, wpc, off, buf, shown, full, latest, source>>
  BY DEF OpenInput
<1>2. LogTypes /\ OffsetsAreWithin /\ LatestIsWriter /\ OneWriter /\ AllTheSame /\ ReaderAlone
  BY DEF LogInv
<1>3. LogTypes'
  BY <1>1, <1>2 DEF LogTypes
<1>4. OffsetsAreWithin'
  BY <1>1, <1>2, DataStays DEF OffsetsAreWithin
<1>5. LatestIsWriter'
  BY <1>1, <1>2 DEF LatestIsWriter
<1>6. Beginning(buf, file)
  <2>1. buf = <<>> /\ file \in Seq(Nat)
    BY <1>1, <1>2 DEF LatestIsWriter, LogTypes
  <2> QED BY <2>1 DEF Beginning
<1>7. OneWriter'
  BY <1>1, <1>2, <1>6, DataStays DEF OneWriter
<1>8. AllTheSame'
  BY <1>1, <1>2, DataStays DEF AllTheSame
<1>9. ReaderAlone'
  BY <1>1, <1>2 DEF ReaderAlone, Writing
<1> QED BY <1>3, <1>4, <1>5, <1>7, <1>8, <1>9 DEF LogInv

\* Two sequences of bytes, one behind the other.
LEMMA Joined ==
    ASSUME NEW s \in Seq(Nat), NEW t \in Seq(Nat)
    PROVE  /\ s \o t \in Seq(Nat) /\ Len(s \o t) = Len(s) + Len(t)
           /\ \A i \in 1 .. (Len(s) + Len(t)) : (s \o t)[i] = IF i <= Len(s) THEN s[i] ELSE t[i - Len(s)]
  OBVIOUS

\* The reader reads a piece.
LEMMA ReadOnKeepsInv ==
    ASSUME LogInv, ReadPiece, Len(file) > Len(buf), UNCHANGED <<message, chunk>>
    PROVE  LogInv'
<1> PICK upto : upto = IF Len(buf) + chunk < Len(file) THEN Len(buf) + chunk ELSE Len(file)
  OBVIOUS
<1>1. /\ rpc = "reading" /\ buf' = buf \o SubSeq(file, Len(buf) + 1, upto)
      /\ UNCHANGED <<file, exists, wpc, off, rpc, shown, full, latest, source, overlapped>>
  BY DEF ReadPiece
<1>2. LogTypes /\ OffsetsAreWithin /\ LatestIsWriter /\ OneWriter /\ AllTheSame /\ ReaderAlone
  BY DEF LogInv
<1>3. file \in Seq(Nat) /\ buf \in Seq(Nat) /\ chunk \in Nat \ {0}
  BY <1>2 DEF LogTypes
<1>4. upto \in Nat /\ Len(buf) \in Nat /\ Len(file) \in Nat /\ Len(buf) <= upto /\ upto <= Len(file)
  BY <1>3
<1>14. upto - Len(buf) \in Nat
  BY ONLY <1>4
<1> PICK k \in Nat : k = upto - Len(buf)
  BY <1>14
<1> PICK more : more = SubSeq(file, Len(buf) + 1, upto)
  OBVIOUS
<1>5. more \in Seq(Nat) /\ Len(more) = k /\ \A i \in 1 .. k : more[i] = file[Len(buf) + i]
  <2>1. Len(buf) + k = upto
    BY <1>4
  <2>2. Len(buf) + k <= Len(file)
    BY <1>4, <2>1
  <2>3. more = SubSeq(file, Len(buf) + 1, Len(buf) + k)
    BY <2>1
  <2>4. /\ SubSeq(file, Len(buf) + 1, Len(buf) + k) \in Seq(Nat)
        /\ Len(SubSeq(file, Len(buf) + 1, Len(buf) + k)) = k
        /\ \A i \in 1 .. k : SubSeq(file, Len(buf) + 1, Len(buf) + k)[i] = file[Len(buf) + i]
    BY ONLY <1>3, <1>4, k \in Nat, <2>2, PartOf
  <2> QED BY ONLY <2>3, <2>4
<1>6. /\ buf' \in Seq(Nat) /\ Len(buf') = upto
      /\ \A i \in 1 .. upto : buf'[i] = IF i <= Len(buf) THEN buf[i] ELSE file[i]
  <2>1. buf' = buf \o more
    BY <1>1
  <2>2. /\ buf \o more \in Seq(Nat) /\ Len(buf \o more) = Len(buf) + k
        /\ \A i \in 1 .. (Len(buf) + k) : (buf \o more)[i] = IF i <= Len(buf) THEN buf[i] ELSE more[i - Len(buf)]
    BY ONLY <1>3, <1>5, Joined
  <2>3. Len(buf) + k = upto
    BY <1>4
  <2>4. ASSUME NEW i \in 1 .. upto, ~(i <= Len(buf))
        PROVE  more[i - Len(buf)] = file[i]
    <3>1. i - Len(buf) \in 1 .. k /\ Len(buf) + (i - Len(buf)) = i
      BY ONLY <1>4, <2>3, <2>4, k \in Nat, i \in 1 .. upto
    <3>2. more[i - Len(buf)] = file[Len(buf) + (i - Len(buf))]
      BY ONLY <1>5, <3>1
    <3> QED BY <3>1, <3>2
  <2> QED BY ONLY <2>1, <2>2, <2>3, <2>4
<1>7. ASSUME NEW d \in Seq(Nat), Beginning(buf, d), Beginning(file, d)
      PROVE  Beginning(buf', d)
  <2>1. /\ Len(file) <= Len(d) /\ \A i \in 1 .. Len(file) : file[i] = d[i]
        /\ Len(buf) <= Len(d) /\ \A i \in 1 .. Len(buf) : buf[i] = d[i] /\ Len(d) \in Nat
    BY <1>7 DEF Beginning
  <2>2. \A i \in 1 .. upto : i \in 1 .. Len(file) /\ (i <= Len(buf) => i \in 1 .. Len(buf))
    BY <1>4
  <2>3. \A i \in 1 .. upto : buf'[i] = d[i]
    BY <1>6, <2>1, <2>2
  <2>4. upto <= Len(d)
    BY <1>4, <1>7, <2>1
  <2> QED BY <1>6, <2>3, <2>4 DEF Beginning
<1>8. LogTypes'
  BY <1>1, <1>2, <1>6 DEF LogTypes
<1>9. OffsetsAreWithin'
  BY <1>1, <1>2, DataStays DEF OffsetsAreWithin
<1>10. LatestIsWriter'
  BY <1>1, <1>2 DEF LatestIsWriter
<1>11. OneWriter'
  <2>1. "writer" \notin overlapped => Beginning(buf', file)
    <3>1. Beginning(file, file)
      BY <1>3, <1>4 DEF Beginning
    <3> QED BY <1>1, <1>2, <1>3, <1>7, <3>1 DEF OneWriter
  <2> QED BY <1>1, <1>2, <2>1, DataStays DEF OneWriter
<1>12. AllTheSame'
  <2>1. OnePiece => \A v \in Writers : Beginning(buf', Data(v))
    <3>1. \A v \in Writers : Data(v) \in Seq(Nat)
      BY <1>2, DataIs
    <3> QED BY <1>2, <1>7, <3>1 DEF AllTheSame
  <2> QED BY <1>1, <1>2, <2>1, DataStays DEF AllTheSame
<1>13. ReaderAlone'
  BY <1>1, <1>2 DEF ReaderAlone
<1> QED BY <1>8, <1>9, <1>10, <1>11, <1>12, <1>13 DEF LogInv

\* The reader has read an empty piece and lists what it can parse.
LEMMA ReadOutKeepsInv ==
    ASSUME LogInv, ReadPiece, ~(Len(file) > Len(buf)), UNCHANGED <<message, chunk>>
    PROVE  LogInv'
<1> PICK r : r = Parse(interaction, buf)
  OBVIOUS
<1>1. /\ rpc = "reading" /\ rpc' = IF r.ok THEN "listed" ELSE "exit -1"
      /\ shown' = (IF r.ok THEN r.m ELSE shown) /\ source' = latest
      /\ UNCHANGED <<file, exists, wpc, off, buf, full, latest, overlapped>>
  BY DEF ReadPiece
<1>2. LogTypes /\ OffsetsAreWithin /\ LatestIsWriter /\ OneWriter /\ AllTheSame /\ ReaderAlone
  BY DEF LogInv
<1>3. exists /\ latest \in Writers /\ wpc[latest] # "start"
  BY <1>1, <1>2 DEF LatestIsWriter
<1>4. /\ Data(latest) \in Seq(Nat)
      /\ Beginning(buf, Data(latest)) /\ r.ok => CutShort(r.m, message[latest])
      /\ Beginning(buf, Data(latest)) /\ Len(buf) = Len(Data(latest)) => r = [ok |-> TRUE, m |-> message[latest]]
  BY <1>2, <1>3, DataIs
<1>5. ASSUME "writer" \notin overlapped
      PROVE  /\ Beginning(buf, Data(latest)) /\ Len(buf) = Len(file)
             /\ wpc[latest] = "exit 0" /\ ~full => Len(file) = Len(Data(latest))
  <2>1. /\ Beginning(buf, file) /\ Beginning(file, Data(latest))
        /\ wpc[latest] = "exit 0" /\ ~full => Len(file) = Len(Data(latest))
    BY <1>1, <1>2, <1>3, <1>5 DEF OneWriter
  <2>2. Len(buf) \in Nat /\ Len(file) \in Nat /\ Len(buf) <= Len(file)
    <3>1. buf \in Seq(Nat) /\ file \in Seq(Nat)
      BY <1>2 DEF LogTypes
    <3>2. Len(buf) <= Len(file)
      BY <2>1 DEF Beginning
    <3> QED BY ONLY <3>1, <3>2
  <2>3. Len(buf) = Len(file)
    BY <2>2
  <2> QED BY <2>1, <2>3 DEF Beginning
<1>6. OnePiece => Beginning(buf, Data(latest))
  BY <1>2, <1>3 DEF AllTheSame
<1>7. LogTypes'
  BY <1>1, <1>2 DEF LogTypes
<1>8. OffsetsAreWithin'
  BY <1>1, <1>2, DataStays DEF OffsetsAreWithin
<1>9. LatestIsWriter'
  BY <1>1, <1>2, <1>3 DEF LatestIsWriter
<1>10. OneWriter'
  <2> SUFFICES ASSUME "writer" \notin overlapped
               PROVE  /\ \A v \in Writers : wpc[v] = "writing" => v = latest
                      /\ exists => /\ Beginning(file, Data(latest))
                                   /\ wpc[latest] = "writing" => Len(file) = off[latest]
                                   /\ wpc[latest] = "exit 0" /\ ~full => Len(file) = Len(Data(latest))
                      /\ rpc' # "reading"
                      /\ rpc' = "listed" => CutShort(shown', message[latest])
    BY <1>1, DataStays DEF OneWriter
  <2>1. rpc' = "listed" => CutShort(shown', message[latest])
    BY <1>1, <1>4, <1>5
  <2> QED BY <1>1, <1>2, <2>1 DEF OneWriter
<1>11. AllTheSame'
  <2>1. OnePiece /\ rpc' = "listed" => CutShort(shown', message[latest])
    BY <1>1, <1>4, <1>6
  <2> QED BY <1>1, <1>2, <2>1, DataStays DEF AllTheSame
<1>12. ReaderAlone'
  <2> SUFFICES ASSUME overlapped = {}, rpc' = "listed"
               PROVE  /\ wpc[latest] # "writing"
                      /\ wpc[latest] = "exit 0" /\ ~full => shown' = message[latest]
    BY <1>1 DEF ReaderAlone
  <2>1. wpc[latest] # "writing"
    BY <1>1, <1>2, <1>3 DEF ReaderAlone
  <2>2. ASSUME wpc[latest] = "exit 0", ~full
        PROVE  shown' = message[latest]
    <3>1. r = [ok |-> TRUE, m |-> message[latest]]
      BY <1>4, <1>5, <2>2
    <3> QED BY <1>1, <3>1
  <2> QED BY <2>1, <2>2
<1> QED BY <1>7, <1>8, <1>9, <1>10, <1>11, <1>12 DEF LogInv

\* The invariant holds at the start.
LEMMA LogStartsInInv == LogInit => LogInv
<1> SUFFICES ASSUME LogInit
             PROVE  LogInv
  OBVIOUS
<1>1. LogTypes
  <2>1. /\ message \in [Writers -> Messages] /\ chunk \in Nat \ {0}
        /\ wpc = [w \in Writers |-> "start"] /\ off = [w \in Writers |-> 0]
        /\ rpc = "start" /\ full = FALSE /\ overlapped = {}
    BY ChunksAssumption DEF LogInit
  <2>2. file \in Seq(Nat) /\ buf \in Seq(Nat)
    <3>1. file = <<>> /\ buf = <<>>
      BY DEF LogInit
    <3> QED BY ONLY <3>1
  <2> QED BY ONLY <2>1, <2>2 DEF LogTypes
<1>2. \A w \in Writers : Data(w) \in Seq(Nat) /\ wpc[w] = "start" /\ off[w] = 0
  BY <1>1, DataIs DEF LogInit
<1>3. \A w \in Writers : Beginning(<<>>, Data(w)) /\ Len(Data(w)) \in Nat
  BY <1>2 DEF Beginning
<1>4. OffsetsAreWithin
  BY <1>2, <1>3 DEF OffsetsAreWithin
<1>5. LatestIsWriter /\ OneWriter /\ ReaderAlone
  BY <1>2 DEF LogInit, LatestIsWriter, OneWriter, ReaderAlone
<1>6. AllTheSame
  BY <1>2, <1>3 DEF LogInit, AllTheSame
<1> QED BY <1>1, <1>4, <1>5, <1>6 DEF LogInv

\* Every step keeps it.
LEMMA LogStepKeepsInv == LogInv /\ [LogNext]_logVars => LogInv'
<1> SUFFICES ASSUME LogInv, [LogNext]_logVars
             PROVE  LogInv'
  OBVIOUS
<1>1. CASE LogNext
  <2>1. UNCHANGED <<message, chunk>>
    BY <1>1 DEF LogNext
  <2>2. ASSUME NEW w \in Writers,
               OpenLog(w) \/ OpenLogFails(w) \/ WritePiece(w) \/ DiskFull(w) \/ Kill(w)
        PROVE  LogInv'
    BY <2>1, <2>2, OpenLogKeepsInv, OpenLogFailsKeepsInv, WritePieceKeepsInv,
       DiskFullKeepsInv, KillKeepsInv
  <2>3. CASE OpenInput
    BY <2>1, <2>3, OpenInputKeepsInv
  <2>4. CASE ReadPiece
    BY <2>1, <2>4, ReadOnKeepsInv, ReadOutKeepsInv
  <2> QED BY <1>1, <2>2, <2>3, <2>4 DEF LogNext
<1>2. CASE UNCHANGED logVars
  <2>1. /\ UNCHANGED <<message, chunk, file, exists, wpc, off, rpc, buf, shown, full, latest, source, overlapped>>
    BY <1>2 DEF logVars
  <2>2. \A w : Data(w)' = Data(w)
    BY <2>1, DataStays
  <2>3. OnePiece' <=> OnePiece
    BY <2>1, DataStays
  <2>4. LogTypes' /\ LatestIsWriter' /\ ReaderAlone'
    BY <2>1 DEF LogInv, LogTypes, LatestIsWriter, ReaderAlone
  <2>5. OffsetsAreWithin'
    BY <2>1, <2>2 DEF LogInv, OffsetsAreWithin
  <2>6. OneWriter'
    BY <2>1, <2>2 DEF LogInv, OneWriter
  <2>7. AllTheSame'
    BY <2>1, <2>2, <2>3 DEF LogInv, AllTheSame
  <2> QED BY <2>4, <2>5, <2>6, <2>7 DEF LogInv
<1> QED BY <1>1, <1>2

\* It says that the reader and the writers tell the truth.
LEMMA LogInvTellsTheTruth == LogInv => LogTellsTheTruth
<1> SUFFICES ASSUME LogInv
             PROVE  LogTellsTheTruth
  OBVIOUS
<1>1. LogTypes /\ LatestIsWriter /\ OneWriter /\ AllTheSame /\ ReaderAlone
  BY DEF LogInv
<1>2. ListedIsWritten
  <2>1. OnePiece => \A v, w \in Writers : Data(v) = Data(w) /\ Len(Data(w)) <= chunk
    BY DEF OnePiece
  <2> QED BY <1>1, <2>1 DEF ListedIsWritten, OneWriter, AllTheSame, OnePiece
<1>3. ASSUME latest # Nobody, wpc[latest] = "exit 0", ~full, "writer" \notin overlapped
      PROVE  Parse(interaction, file) = [ok |-> TRUE, m |-> message[latest]]
  <2>1. exists /\ latest \in Writers
    BY <1>1, <1>3 DEF LatestIsWriter
  <2>2. Beginning(file, Data(latest)) /\ Len(file) = Len(Data(latest))
    BY <1>1, <1>3, <2>1 DEF OneWriter
  <2> QED BY <1>1, <2>1, <2>2, DataIs
<1>4. rpc = "listed" /\ wpc[source] = "exit 0" /\ ~full /\ overlapped = {} => shown = message[source]
  BY <1>1 DEF ReaderAlone
<1> QED BY <1>2, <1>3, <1>4 DEF LogTellsTheTruth, ExitZeroMeansListed

\* What Reader.cpp lists is the message of the writer that opened ./log last,
\* or the beginning of it, unless writers came into each other's way; and all
\* of it, once that writer has returned 0, if the disk had room and nobody
\* opened the file at another's work: for any number of writers, messages,
\* sizes of the buffer, kills and interleavings.
THEOREM ListedIsTrue == LogSpec => []LogTellsTheTruth
<1> QED BY LogStartsInInv, LogStepKeepsInv, LogInvTellsTheTruth, PTL DEF LogSpec
=============================================================================
