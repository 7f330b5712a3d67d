------------------------ MODULE InteractionCodecProofs ------------------------
(***************************************************************************)
(* What is written of a message reads as the message, for every message    *)
(* the generated classes can hold.                                         *)
(*                                                                         *)
(* Bytes read as the entries they were made of (EntriesOfBytes); an entry  *)
(* of a field is one its class understands, and reading it sets the field  *)
(* (TakeScalar, TakeMessage, TakeElement).  So the bytes of each field     *)
(* move a message that is being read from one value to the next (Moves),   *)
(* and the bytes of a message move whatever was read before to what        *)
(* MergeFrom makes of the two (WholeMoves).  From the empty message that   *)
(* is the message itself.                                                  *)
(*                                                                         *)
(* When the end of the bytes is missing, the entries before the place of   *)
(* the cut are read, and the rest of the entry it goes through is refused  *)
(* (CutBytes).  What has been read after each entry (Along) is the message *)
(* up to some field, of a list the first elements (CutIsRead).             *)
(***************************************************************************)
EXTENDS InteractionCodec, SequenceTheorems, FiniteSetTheorems, WellFoundedInduction, TLAPS

Put(g, n, v) == [j \in DOMAIN g \cup {n} |-> IF j = n THEN v ELSE g[j]]

\* A message with one more or another field.
LEMMA SetFieldIs ==
    ASSUME NEW g, NEW u, NEW n, NEW v
    PROVE  SetField([f |-> g, unknown |-> u], n, v)
              = [f |-> Put(g, n, v), unknown |-> u]
<1> PICK m, y : m = [f |-> g, unknown |-> u] /\ y = SetField(m, n, v)
  OBVIOUS
<1>1. m.f = g
  OBVIOUS
<1>2. y = [m EXCEPT !.f = Put(g, n, v)]
  BY <1>1 DEF SetField, Put
<1>3. /\ y = [f |-> y.f, unknown |-> y.unknown]
      /\ y.f = Put(g, n, v) /\ y.unknown = u
  BY <1>2
<1> QED BY <1>3

\* A set of numbers that has 0 and the successor of each member has them all.
LEMMA NatSetInduction ==
  ASSUME NEW S, 0 \in S, \A n \in Nat : n \in S => n + 1 \in S
  PROVE  Nat \subseteq S
<1> DEFINE T == Nat \ S
<1> SUFFICES ASSUME T # {} PROVE FALSE
  OBVIOUS
<1>1. PICK x \in T : \A y \in T : ~ (<<y, x>> \in OpToRel(<, Nat))
  BY NatLessThanWellFounded, WFMin
<1>2. \A y \in T : ~ (y < x)
  BY <1>1 DEF OpToRel
<1>3. x # 0 /\ x - 1 \in Nat /\ x - 1 < x
  OBVIOUS
<1> QED BY <1>2, <1>3

\* f adds up the first k numbers of s.
AddsUp(s, k, f) ==
  f \in [0 .. k -> Nat] /\ \A i \in 0 .. k : f[i] = IF i = 0 THEN 0 ELSE f[i - 1] + s[i]

\* A sum is that of the first numbers and the last one.
LEMMA TotalUnfolds ==
  ASSUME NEW s \in Seq(Nat), NEW n \in Nat, n = Len(s)
  PROVE  \E upto \in [0 .. n -> Nat] : /\ upto[0] = 0 /\ Total(s) = upto[n]
                                       /\ \A i \in 1 .. n : upto[i] = upto[i - 1] + s[i]
<1> DEFINE P == {k \in Nat : k <= n => \E f : AddsUp(s, k, f)}
<1>1. 0 \in P
  <2> PICK f : f = [i \in 0 .. 0 |-> 0]
    OBVIOUS
  <2>1. AddsUp(s, 0, f)
    BY DEF AddsUp
  <2> QED BY <2>1
<1>2. ASSUME NEW k \in Nat, k \in P PROVE k + 1 \in P
  <2> SUFFICES ASSUME k + 1 <= n PROVE \E f : AddsUp(s, k + 1, f)
    BY k + 1 \in Nat
  <2>0. k <= n
    OBVIOUS
  <2> PICK f : AddsUp(s, k, f)
    BY <1>2, <2>0
  <2>3. f \in [0 .. k -> Nat] /\ \A i \in 0 .. k : f[i] = IF i = 0 THEN 0 ELSE f[i - 1] + s[i]
    BY DEF AddsUp
  <2> PICK x \in Nat : x = f[k] + s[k + 1]
    BY <2>3
  <2> PICK g : g = [i \in 0 .. k + 1 |-> IF i = k + 1 THEN x ELSE f[i]]
    OBVIOUS
  <2>1. g \in [0 .. k + 1 -> Nat]
    BY <2>3
  <2>2. ASSUME NEW i \in 0 .. k + 1 PROVE g[i] = IF i = 0 THEN 0 ELSE g[i - 1] + s[i]
    <3>1. CASE i = k + 1
      <4>1. g[i] = x /\ k \in 0 .. k + 1 /\ i - 1 = k /\ g[k] = f[k] /\ i # 0
        BY <3>1
      <4> QED BY <3>1, <4>1
    <3>2. CASE i # k + 1
      <4>1. i \in 0 .. k /\ g[i] = f[i] /\ (i # 0 => i - 1 \in 0 .. k /\ g[i - 1] = f[i - 1])
        BY <3>2
      <4> QED BY <2>3, <4>1
    <3> QED BY <3>1, <3>2
  <2> QED BY <2>1, <2>2 DEF AddsUp
<1>3. n \in P
  <2> HIDE DEF P
  <2>1. \A k \in Nat : k \in P => k + 1 \in P
    BY <1>2
  <2>2. Nat \subseteq P
    BY ONLY <1>1, <2>1, NatSetInduction
  <2> QED BY <2>2
<1> PICK f : AddsUp(s, n, f)
  BY <1>3
<1> HIDE DEF P
<1> DEFINE Whole(u) == u = [i \in 0 .. Len(s) |-> IF i = 0 THEN 0 ELSE u[i - 1] + s[i]]
<1>4. \E u : Whole(u)
  <2>1. f = [i \in 0 .. n |-> IF i = 0 THEN 0 ELSE f[i - 1] + s[i]]
    BY DEF AddsUp
  <2> QED BY <2>1
<1> PICK u : Whole(u) /\ Total(s) = u[n]
  BY <1>4 DEF Total
<1>5. \A i \in 0 .. n : u[i] = IF i = 0 THEN 0 ELSE u[i - 1] + s[i]
  OBVIOUS
<1> HIDE DEF Whole
<1> DEFINE Q == {k \in Nat : k <= n => u[k] \in Nat}
<1>6. 0 \in Q
  BY <1>5
<1>7. ASSUME NEW k \in Nat, k \in Q PROVE k + 1 \in Q
  <2>1. k + 1 <= n => k + 1 \in 0 .. n /\ u[k + 1] = u[(k + 1) - 1] + s[k + 1] /\ (k + 1) - 1 = k /\ s[k + 1] \in Nat
    BY <1>5
  <2>2. k + 1 <= n => u[k] \in Nat
    BY <1>7
  <2> QED BY <2>1, <2>2
<1>8. \A k \in 0 .. n : u[k] \in Nat
  <2>1. Nat \subseteq Q
    <3> HIDE DEF Q
    <3>1. \A k \in Nat : k \in Q => k + 1 \in Q
      BY <1>7
    <3> QED BY ONLY <1>6, <3>1, NatSetInduction
  <2> QED BY <2>1
<1>9. u \in [0 .. n -> Nat]
  <2>1. u = [i \in 0 .. n |-> u[i]]
    BY <1>5 DEF Whole
  <2> QED BY <1>8, <2>1
<1>10. u[0] = 0 /\ \A i \in 1 .. n : u[i] = u[i - 1] + s[i]
  BY <1>5
<1> QED BY <1>9, <1>10

\* f puts the first k of the sequences ss together.
PutsTogether(ss, k, f) ==
  f = [i \in 1 .. k |-> IF i = 1 THEN ss[i] ELSE f[i - 1] \o ss[i]]

\* flat puts the n sequences ss together one by one.
OneByOne(S, ss, n, flat) ==
  /\ flat[0] = <<>> /\ FlattenSeq(ss) = flat[n]
  /\ \A i \in 0 .. n : flat[i] \in Seq(S)
  /\ \A i \in 1 .. n : flat[i] = flat[i - 1] \o ss[i]

\* Sequences put together: the first ones, and then the last one.
LEMMA FlattenUnfolds ==
  ASSUME NEW S, NEW n \in Nat, NEW ss \in Seq(Seq(S)), n = Len(ss)
  PROVE  \E flat : OneByOne(S, ss, n, flat)
<1> DEFINE P == {k \in Nat : \E f : PutsTogether(ss, k, f)}
<1>1. 0 \in P
  <2> PICK f : f = [i \in 1 .. 0 |-> <<>>]
    OBVIOUS
  <2>1. PutsTogether(ss, 0, f)
    BY DEF PutsTogether
  <2> QED BY <2>1
<1>2. ASSUME NEW k \in Nat, k \in P PROVE k + 1 \in P
  <2> PICK f : PutsTogether(ss, k, f)
    BY <1>2
  <2>3. \A i \in 1 .. k : f[i] = IF i = 1 THEN ss[i] ELSE f[i - 1] \o ss[i]
    BY DEF PutsTogether
  <2> PICK x : x = IF k = 0 THEN ss[k + 1] ELSE f[k] \o ss[k + 1]
    OBVIOUS
  <2> PICK g : g = [i \in 1 .. k + 1 |-> IF i = k + 1 THEN x ELSE f[i]]
    OBVIOUS
  <2>2. ASSUME NEW i \in 1 .. k + 1 PROVE g[i] = IF i = 1 THEN ss[i] ELSE g[i - 1] \o ss[i]
    <3>1. CASE i = k + 1
      <4>1. g[i] = x /\ i - 1 = k /\ (i # 1 => k \in 1 .. k + 1 /\ k # 0 /\ g[k] = f[k])
        BY <3>1
      <4> QED BY <3>1, <4>1
    <3>2. CASE i # k + 1
      <4>1. i \in 1 .. k /\ g[i] = f[i] /\ (i # 1 => i - 1 \in 1 .. k /\ g[i - 1] = f[i - 1])
        BY <3>2
      <4> QED BY <2>3, <4>1
    <3> QED BY <3>1, <3>2
  <2>4. g = [i \in 1 .. k + 1 |-> IF i = 1 THEN ss[i] ELSE g[i - 1] \o ss[i]]
    BY <2>2
  <2>5. PutsTogether(ss, k + 1, g)
    BY <2>4 DEF PutsTogether
  <2> QED BY <2>5
<1>3. \E f : PutsTogether(ss, n, f)
  <2>1. n \in P
    <3> HIDE DEF P
    <3>1. \A k \in Nat : k \in P => k + 1 \in P
      BY <1>2
    <3>2. Nat \subseteq P
      BY ONLY <1>1, <3>1, NatSetInduction
    <3> QED BY <3>2
  <2> QED BY <2>1
<1> HIDE DEF P
<1>4. CASE n = 0
  <2> PICK flat : flat = [i \in 0 .. 0 |-> <<>>]
    OBVIOUS
  <2>1. FlattenSeq(ss) = <<>> /\ flat[0] = <<>>
    <3>1. ss = <<>>
      BY <1>4, EmptySeq
    <3> QED BY <1>4, <3>1 DEF FlattenSeq
  <2>2. \A i \in 0 .. n : flat[i] \in Seq(S)
    BY <1>4
  <2> QED BY <1>4, <2>1, <2>2 DEF OneByOne
<1>5. CASE n # 0
  <2> DEFINE Whole(u) == u = [i \in 1 .. Len(ss) |-> IF i = 1 THEN ss[i] ELSE u[i - 1] \o ss[i]]
  <2>1. \E u : Whole(u)
    BY <1>3 DEF PutsTogether
  <2> PICK u : Whole(u) /\ FlattenSeq(ss) = u[n]
    <3>1. Len(ss) # 0
      BY <1>5
    <3> QED BY <2>1, <3>1 DEF FlattenSeq
  <2>2. \A i \in 1 .. n : u[i] = IF i = 1 THEN ss[i] ELSE u[i - 1] \o ss[i]
    OBVIOUS
  <2> HIDE DEF Whole
  <2> PICK flat : flat = [i \in 0 .. n |-> IF i = 0 THEN <<>> ELSE u[i]]
    OBVIOUS
  <2>3. flat[0] = <<>> /\ FlattenSeq(ss) = flat[n]
    BY <1>5
  <2>4. \A i \in 1 .. n : ss[i] \in Seq(S) /\ <<>> \o ss[i] = ss[i]
    <3>1. ASSUME NEW i \in 1 .. n PROVE ss[i] \in Seq(S) /\ <<>> \o ss[i] = ss[i]
      <4>1. ss[i] \in Seq(S)
        OBVIOUS
      <4> QED BY <4>1, ConcatEmptySeq
    <3> QED BY <3>1
  <2>5. \A i \in 1 .. n : flat[i] = flat[i - 1] \o ss[i]
    <3>1. ASSUME NEW i \in 1 .. n PROVE flat[i] = flat[i - 1] \o ss[i]
      <4>1. flat[i] = u[i] /\ i - 1 \in 0 .. n /\ flat[i - 1] = IF i = 1 THEN <<>> ELSE u[i - 1]
        OBVIOUS
      <4> QED BY <2>2, <2>4, <4>1
    <3> QED BY <3>1
  <2> DEFINE Q == {k \in Nat : k <= n => flat[k] \in Seq(S)}
  <2>6. 0 \in Q
    BY <2>3
  <2>7. ASSUME NEW k \in Nat, k \in Q PROVE k + 1 \in Q
    <3>1. k + 1 <= n => flat[k] \in Seq(S) /\ k + 1 \in 1 .. n /\ (k + 1) - 1 = k
      BY <2>7
    <3>2. k + 1 <= n => flat[k + 1] = flat[k] \o ss[k + 1] /\ ss[k + 1] \in Seq(S)
      BY <2>4, <2>5, <3>1
    <3>3. ASSUME k + 1 <= n PROVE flat[k + 1] \in Seq(S)
      <4> PICK x \in Seq(S), y \in Seq(S) : flat[k + 1] = x \o y
        BY <3>1, <3>2, <3>3
      <4> QED BY ConcatProperties
    <3> QED BY <3>3
  <2>8. \A i \in 0 .. n : flat[i] \in Seq(S)
    <3>1. Nat \subseteq Q
      <4> HIDE DEF Q
      <4>1. \A k \in Nat : k \in Q => k + 1 \in Q
        BY <2>7
      <4> QED BY ONLY <2>6, <4>1, NatSetInduction
    <3> QED BY <3>1
  <2> QED BY <2>3, <2>5, <2>8 DEF OneByOne
<1> QED BY <1>4, <1>5

\* An entry as the classes write them: a number in one byte, or bytes behind their length.
WireEntries ==
  {e \in [num : Nat \ {0}, wire : {0, 2}, val : Seq(Nat)] : e.wire = 0 => Len(e.val) = 1}

\* The bytes in front of the value.
HeadLength(e) == IF e.wire = 2 THEN 2 ELSE 1

\* Bytes behind others.
LEMMA Behind ==
  ASSUME NEW S, NEW h \in Seq(S), NEW v \in Seq(S), NEW l \in Nat, l = Len(h)
  PROVE  /\ h \o v \in Seq(S) /\ Len(h \o v) = l + Len(v)
         /\ \A i \in 1 .. l : (h \o v)[i] = h[i]
         /\ \A j \in 1 .. Len(v) : (h \o v)[l + j] = v[j]
<1>1. /\ Len(v) \in Nat /\ h \o v \in Seq(S) /\ Len(h \o v) = l + Len(v)
      /\ \A i \in 1 .. l + Len(v) : (h \o v)[i] = IF i <= l THEN h[i] ELSE v[i - l]
  BY ConcatProperties, LenProperties
<1>2. ASSUME NEW i \in 1 .. l PROVE (h \o v)[i] = h[i]
  BY <1>1
<1>3. ASSUME NEW j \in 1 .. Len(v) PROVE (h \o v)[l + j] = v[j]
  <2>1. l + j \in 1 .. l + Len(v) /\ ~(l + j <= l) /\ (l + j) - l = j
    BY <1>1
  <2> QED BY <1>1, <2>1
<1> QED BY <1>1, <1>2, <1>3

\* The bytes of an entry, one by one.
LEMMA EntryIs ==
  ASSUME NEW e \in WireEntries
  PROVE  /\ EntryBytes(e) \in Seq(Nat)
         /\ Len(EntryBytes(e)) = HeadLength(e) + Len(e.val)
         /\ EntryBytes(e)[1] = e.num * 8 + e.wire
         /\ e.wire = 2 => EntryBytes(e)[2] = Len(e.val)
         /\ \A j \in 1 .. Len(e.val) : EntryBytes(e)[HeadLength(e) + j] = e.val[j]
<1> PICK v \in Seq(Nat), w \in {0, 2}, num \in Nat : v = e.val /\ w = e.wire /\ num = e.num
  BY DEF WireEntries
<1> PICK tag \in Nat : tag = num * 8 + w
  OBVIOUS
<1>1. Len(v) \in Nat
  OBVIOUS
<1>2. CASE w = 2
  <2> PICK x : x = <<tag>> \o <<Len(v)>>
    OBVIOUS
  <2>1. x \in Seq(Nat) /\ Len(x) = 2 /\ x[1] = tag /\ x[2] = Len(v)
    BY <1>1
  <2>2. EntryBytes(e) = x \o v /\ HeadLength(e) = 2
    BY <1>2 DEF EntryBytes, HeadLength
  <2>3. /\ x \o v \in Seq(Nat) /\ Len(x \o v) = 2 + Len(v)
        /\ \A i \in 1 .. 2 : (x \o v)[i] = x[i]
        /\ \A j \in 1 .. Len(v) : (x \o v)[2 + j] = v[j]
    <3> PICK k \in Nat, y \in Seq(Nat) : k = 2 /\ y = x /\ k = Len(y)
      BY <2>1
    <3>1. /\ y \o v \in Seq(Nat) /\ Len(y \o v) = k + Len(v)
          /\ \A i \in 1 .. k : (y \o v)[i] = y[i]
          /\ \A j \in 1 .. Len(v) : (y \o v)[k + j] = v[j]
      BY ONLY k \in Nat, y \in Seq(Nat), k = Len(y), v \in Seq(Nat), Behind
    <3> QED BY ONLY <3>1, k = 2, y = x
  <2>4. (x \o v)[1] = x[1] /\ (x \o v)[2] = x[2]
    BY <2>3
  <2> QED BY <1>2, <2>1, <2>2, <2>3, <2>4
<1>3. CASE w = 0
  <2> PICK x : x = <<tag>>
    OBVIOUS
  <2>1. x \in Seq(Nat) /\ Len(x) = 1 /\ x[1] = tag
    OBVIOUS
  <2>2. EntryBytes(e) = x \o v /\ HeadLength(e) = 1
    <3>1. EntryBytes(e) = <<tag>> \o <<>> \o v
      BY <1>3 DEF EntryBytes
    <3>2. x \o <<>> = x
      BY ONLY <2>1, ConcatEmptySeq
    <3>3. HeadLength(e) = 1
      BY <1>3 DEF HeadLength
    <3> QED BY <3>1, <3>2, <3>3
  <2>3. /\ x \o v \in Seq(Nat) /\ Len(x \o v) = 1 + Len(v)
        /\ \A i \in 1 .. 1 : (x \o v)[i] = x[i]
        /\ \A j \in 1 .. Len(v) : (x \o v)[1 + j] = v[j]
    <3> PICK k \in Nat, y \in Seq(Nat) : k = 1 /\ y = x /\ k = Len(y)
      BY <2>1
    <3>1. /\ y \o v \in Seq(Nat) /\ Len(y \o v) = k + Len(v)
          /\ \A i \in 1 .. k : (y \o v)[i] = y[i]
          /\ \A j \in 1 .. Len(v) : (y \o v)[k + j] = v[j]
      BY ONLY k \in Nat, y \in Seq(Nat), k = Len(y), v \in Seq(Nat), Behind
    <3> QED BY ONLY <3>1, k = 1, y = x
  <2>4. (x \o v)[1] = x[1]
    BY <2>3
  <2>5. (x \o v)[1] = num * 8 + w /\ w # 2
    BY <1>3, <2>1, <2>4
  <2> QED BY ONLY <2>2, <2>3, <2>5, v = e.val, w = e.wire, num = e.num
<1> QED BY <1>2, <1>3

\* The number and the wire type of a tag.
LEMMA TagIs ==
  ASSUME NEW n \in Nat \ {0}, NEW w \in {0, 2}
  PROVE  (n * 8 + w) % 8 = w /\ (n * 8 + w) \div 8 = n /\ n * 8 + w >= 8
OBVIOUS

\* The l bytes of e lie in s behind place p.
LiesBehind(s, e, p, l) ==
  /\ l = Len(EntryBytes(e)) /\ p + l <= Len(s)
  /\ \A j \in 1 .. l : s[p + j] = EntryBytes(e)[j]

\* What Entries finds where an entry starts.
LEMMA StepOverEntry ==
  ASSUME NEW s \in Seq(Nat), NEW e \in WireEntries, NEW p \in Nat, NEW l \in Nat,
         LiesBehind(s, e, p, l)
  PROVE  /\ EntryEnd(s, p + 1) = p + l + 1
         /\ s[p + 1] \div 8 = e.num /\ s[p + 1] % 8 = e.wire
         /\ SubSeq(s, p + 1 + HeadLength(e), p + l) = e.val
<1> PICK v \in Seq(Nat), w \in {0, 2}, num \in Nat \ {0} : v = e.val /\ w = e.wire /\ num = e.num
  BY DEF WireEntries
<1> PICK x : x = EntryBytes(e)
  OBVIOUS
<1> PICK h \in 1 .. 2, m \in Nat : h = HeadLength(e) /\ (w = 2 => h = 2) /\ (w = 0 => h = 1) /\ m = Len(v)
  BY DEF HeadLength
<1>1. w = 0 => m = 1
  BY DEF WireEntries
<1>2. /\ l = h + m /\ x[1] = num * 8 + w /\ (w = 2 => x[2] = m) /\ \A j \in 1 .. m : x[h + j] = v[j]
  BY EntryIs DEF LiesBehind
<1>3. p + l <= Len(s) /\ \A j \in 1 .. l : s[p + j] = x[j]
  BY DEF LiesBehind
<1>4. s[p + 1] = num * 8 + w /\ (w = 2 => s[p + 2] = m)
  BY ONLY <1>2, <1>3, h \in 1 .. 2, m \in Nat, w = 2 => h = 2
<1>5. \A j \in 1 .. m : s[p + h + j] = v[j]
  <2>1. \A j \in 1 .. m : h + j \in 1 .. l /\ s[p + (h + j)] = x[h + j] /\ p + (h + j) = p + h + j
    BY ONLY <1>2, <1>3, h \in 1 .. 2, m \in Nat, p \in Nat
  <2> QED BY ONLY <1>2, <2>1
<1> PICK tag \in Nat : tag = s[p + 1] /\ tag % 8 = w /\ tag \div 8 = num /\ tag >= 8
  <2>1. num * 8 + w \in Nat
    OBVIOUS
  <2> QED BY <1>4, <2>1, TagIs
<1>6. EntryEnd(s, p + 1) = p + l + 1
  <2>1. CASE w = 0
    <3>1. EntryEnd(s, p + 1) = (p + 1) + 2
      <4>1. s[p + 1] % 8 = 0 /\ s[p + 1] >= 8 /\ ~(s[p + 1] < 8)
        BY <2>1
      <4> QED BY ONLY <4>1 DEF EntryEnd
    <3> QED BY ONLY <1>1, <1>2, <2>1, <3>1, w = 0 => h = 1, p \in Nat
  <2>2. CASE w = 2
    <3>1. p + 1 < Len(s) /\ (p + 1) + 1 = p + 2
      BY ONLY <1>2, <1>3, <2>2, w = 2 => h = 2, p \in Nat, l \in Nat, m \in Nat, Len(s) \in Nat
    <3>2. EntryEnd(s, p + 1) = (p + 1) + 2 + s[(p + 1) + 1]
      <4>1. s[p + 1] % 8 = 2 /\ s[p + 1] >= 8 /\ ~(s[p + 1] < 8)
        BY <2>2
      <4> QED BY ONLY <3>1, <4>1 DEF EntryEnd
    <3>3. s[(p + 1) + 1] = m
      BY <1>4, <2>2, <3>1
    <3> QED BY ONLY <1>2, <2>2, <3>2, <3>3, w = 2 => h = 2, p \in Nat, m \in Nat
  <2> QED BY <2>1, <2>2
<1>7. SubSeq(s, p + 1 + h, p + l) = v
  <2> PICK from \in Int, to \in Int : from = p + 1 + h /\ to = p + l
    OBVIOUS
  <2> PICK t : t = SubSeq(s, from, to)
    OBVIOUS
  <2>1. \A i \in from .. to : s[i] \in Nat
    <3> PICK n \in Nat : n = Len(s)
      OBVIOUS
    <3>1. \A i \in from .. to : i \in 1 .. n
      <4>1. p + l <= n
        BY <1>3
      <4> QED BY ONLY <4>1, from = p + 1 + h, to = p + l, p \in Nat, h \in 1 .. 2, l \in Nat, n \in Nat
    <3>2. \A i \in 1 .. n : s[i] \in Nat
      BY ONLY s \in Seq(Nat), n = Len(s)
    <3> QED BY ONLY <3>1, <3>2
  <2>2. to - from + 1 = m /\ (from <= to <=> m # 0)
    BY ONLY <1>2, from = p + 1 + h, to = p + l, p \in Nat, h \in 1 .. 2, m \in Nat
  <2>3. /\ t \in Seq(Nat) /\ Len(t) = IF from <= to THEN to - from + 1 ELSE 0
        /\ \A i \in 1 .. to - from + 1 : t[i] = s[from + i - 1]
    BY ONLY <2>1, from \in Int, to \in Int, t = SubSeq(s, from, to), SubSeqProperties
  <2>4. Len(t) = Len(v)
    BY <2>2, <2>3
  <2>5. \A i \in 1 .. Len(t) : t[i] = v[i]
    <3>1. \A i \in 1 .. m : from + i - 1 = p + h + i
      BY ONLY from = p + 1 + h, p \in Nat, h \in 1 .. 2, m \in Nat
    <3>2. Len(t) = m
      BY <2>4
    <3> QED BY ONLY <1>5, <2>2, <2>3, <3>1, <3>2
  <2>6. t = v
    BY ONLY <2>3, <2>4, <2>5, v \in Seq(Nat), SeqEqual
  <2> QED BY <2>6
<1> QED BY <1>6, <1>7

\* One step of Entries, which looks at what follows in f.
EntryStep(s, f, i) ==
  IF i = Len(s) + 1
  THEN [ok |-> TRUE, list |-> <<>>]
  ELSE LET next == EntryEnd(s, i)
           first == i + (IF s[i] % 8 = 2 THEN 2 ELSE 1)
       IN  IF next > Len(s) + 1
           THEN [ok |-> FALSE, list |-> <<>>]
           ELSE LET rest == f[next]
                IN  [ok |-> rest.ok,
                     list |-> << [num |-> s[i] \div 8, wire |-> s[i] % 8,
                                  val |-> SubSeq(s, first, next - 1)] >>
                              \o rest.list]

\* An entry ends behind its start.
LEMMA EndIsBehind ==
  ASSUME NEW s \in Seq(Nat), NEW i \in 1 .. Len(s)
  PROVE  EntryEnd(s, i) \in Nat /\ EntryEnd(s, i) > i
<1> PICK n \in Nat, tag \in Nat : n = Len(s) /\ tag = s[i]
  OBVIOUS
<1> PICK w \in Nat : w = tag % 8
  OBVIOUS
<1>1. i < n => s[i + 1] \in Nat
  OBVIOUS
<1>2. \/ EntryEnd(s, i) = n + 2 \/ EntryEnd(s, i) = i + 2 \/ EntryEnd(s, i) = i + 9
      \/ EntryEnd(s, i) = i + 5 \/ (i < n /\ EntryEnd(s, i) = i + 2 + s[i + 1])
  <2>1. CASE tag < 8
    BY <2>1 DEF EntryEnd
  <2>2. CASE tag >= 8 /\ w = 0
    BY <2>2 DEF EntryEnd
  <2>3. CASE tag >= 8 /\ w = 1
    BY <2>3 DEF EntryEnd
  <2>4. CASE tag >= 8 /\ w = 5
    BY <2>4 DEF EntryEnd
  <2>5. CASE tag >= 8 /\ w = 2
    BY <2>5 DEF EntryEnd
  <2>6. CASE tag >= 8 /\ w \notin {0, 1, 2, 5}
    BY <2>6 DEF EntryEnd
  <2> QED BY <2>1, <2>2, <2>3, <2>4, <2>5, <2>6
<1> QED BY <1>1, <1>2

\* A step looks only behind its own place.
LEMMA StepLooksBehind ==
  ASSUME NEW s \in Seq(Nat), NEW i \in 1 .. Len(s) + 1, NEW f, NEW g,
         \A j \in i + 1 .. Len(s) + 1 : f[j] = g[j]
  PROVE  EntryStep(s, f, i) = EntryStep(s, g, i)
<1>1. CASE i = Len(s) + 1
  BY <1>1 DEF EntryStep
<1>2. CASE i # Len(s) + 1
  <2> PICK next : next = EntryEnd(s, i)
    OBVIOUS
  <2>1. next \in Nat /\ next > i
    BY <1>2, EndIsBehind
  <2>2. CASE next > Len(s) + 1
    BY <1>2, <2>2 DEF EntryStep
  <2>3. CASE ~(next > Len(s) + 1)
    <3>1. f[next] = g[next]
      BY <2>1, <2>3
    <3> QED BY <1>2, <2>3, <3>1 DEF EntryStep
  <2> QED BY <2>2, <2>3
<1> QED BY <1>1, <1>2

\* f is what Entries finds from place a on.
FoundFrom(s, a, f) == f = [i \in a .. Len(s) + 1 |-> EntryStep(s, f, i)]

\* Entries finds an entry, and then those that follow it.
LEMMA EntriesUnfold ==
  ASSUME NEW s \in Seq(Nat)
  PROVE  \E from : /\ Entries(s) = from[1]
                   /\ \A i \in 1 .. Len(s) + 1 : from[i] = EntryStep(s, from, i)
<1> PICK n \in Nat : n = Len(s)
  OBVIOUS
<1> DEFINE P == {k \in Nat : k <= n => \E f : FoundFrom(s, n + 1 - k, f)}
<1>1. 0 \in P
  <2> PICK f : f = [i \in n + 1 .. n + 1 |-> EntryStep(s, <<>>, i)]
    OBVIOUS
  <2>1. \A i \in n + 1 .. n + 1 : EntryStep(s, <<>>, i) = EntryStep(s, f, i)
    BY DEF EntryStep
  <2>2. f = [i \in n + 1 .. n + 1 |-> EntryStep(s, f, i)]
    BY <2>1
  <2>3. FoundFrom(s, n + 1 - 0, f)
    <3>1. n + 1 - 0 = n + 1
      OBVIOUS
    <3> QED BY <2>2, <3>1 DEF FoundFrom
  <2> QED BY <2>3
<1>2. ASSUME NEW k \in Nat, k \in P PROVE k + 1 \in P
  <2> SUFFICES ASSUME k + 1 <= n PROVE \E f : FoundFrom(s, n + 1 - (k + 1), f)
    BY k + 1 \in Nat
  <2> PICK a \in Nat : a = n - k /\ a >= 1 /\ n + 1 - (k + 1) = a /\ n + 1 - k = a + 1 /\ a <= n
    OBVIOUS
  <2> PICK f : FoundFrom(s, a + 1, f)
    BY <1>2
  <2>1. f = [i \in a + 1 .. n + 1 |-> EntryStep(s, f, i)]
    BY DEF FoundFrom
  <2> PICK g : g = [i \in a .. n + 1 |-> IF i = a THEN EntryStep(s, f, a) ELSE f[i]]
    OBVIOUS
  <2>2. \A j \in a + 1 .. n + 1 : f[j] = g[j]
    OBVIOUS
  <2>3. ASSUME NEW i \in a .. n + 1 PROVE g[i] = EntryStep(s, g, i)
    <3>1. g[i] = EntryStep(s, f, i)
      <4>1. CASE i = a
        BY <4>1
      <4>2. CASE i # a
        <5>1. i \in a + 1 .. n + 1
          BY <4>2
        <5> QED BY <2>1, <2>2, <5>1
      <4> QED BY <4>1, <4>2
    <3>2. EntryStep(s, f, i) = EntryStep(s, g, i)
      <4>1. i \in 1 .. Len(s) + 1 /\ \A j \in i + 1 .. Len(s) + 1 : f[j] = g[j]
        BY <2>2
      <4> QED BY ONLY <4>1, s \in Seq(Nat), StepLooksBehind
    <3> QED BY <3>1, <3>2
  <2>4. g = [i \in a .. n + 1 |-> EntryStep(s, g, i)]
    <3>1. g = [i \in a .. n + 1 |-> g[i]]
      OBVIOUS
    <3> QED BY <2>3, <3>1
  <2> QED BY <2>4 DEF FoundFrom
<1>3. \E f : FoundFrom(s, 1, f)
  <2>1. n \in P
    <3> HIDE DEF P
    <3>1. \A k \in Nat : k \in P => k + 1 \in P
      BY <1>2
    <3>2. Nat \subseteq P
      BY ONLY <1>1, <3>1, NatSetInduction
    <3> QED BY <3>2
  <2>2. n + 1 - n = 1
    OBVIOUS
  <2> QED BY <2>1, <2>2
<1> HIDE DEF P
<1> DEFINE Body(u, i) ==
             IF i = Len(s) + 1
             THEN [ok |-> TRUE, list |-> <<>>]
             ELSE IF EntryEnd(s, i) > Len(s) + 1
                  THEN [ok |-> FALSE, list |-> <<>>]
                  ELSE [ok |-> u[EntryEnd(s, i)].ok,
                        list |-> << [num |-> s[i] \div 8, wire |-> s[i] % 8,
                                     val |-> SubSeq(s, i + (IF s[i] % 8 = 2 THEN 2 ELSE 1),
                                                    EntryEnd(s, i) - 1)] >>
                                 \o u[EntryEnd(s, i)].list]
           Whole(u) == u = [i \in 1 .. (Len(s) + 1) |-> Body(u, i)]
<1>4. \A u, i : Body(u, i) = EntryStep(s, u, i)
  BY DEF EntryStep
<1>5. \E u : Whole(u)
  <2> PICK f : FoundFrom(s, 1, f)
    BY <1>3
  <2>1. f = [i \in 1 .. (Len(s) + 1) |-> EntryStep(s, f, i)]
    BY DEF FoundFrom
  <2> HIDE DEF Body
  <2>2. f = [i \in 1 .. (Len(s) + 1) |-> Body(f, i)]
    BY <1>4, <2>1
  <2> QED BY <2>2
<1>6. Entries(s) = (CHOOSE u : Whole(u))[1]
  BY DEF Entries
<1> HIDE DEF Body
<1> PICK u : Whole(u) /\ Entries(s) = u[1]
  BY <1>5, <1>6
<1>7. \A i \in 1 .. Len(s) + 1 : u[i] = EntryStep(s, u, i)
  BY <1>4
<1> QED BY <1>7

\* The bytes of entries one after the other.
BytesOf(es) == FlattenSeq([i \in DOMAIN es |-> EntryBytes(es[i])])

\* flat has the bytes of the first entries of es.
EntryByEntry(es, n, flat) ==
  /\ flat[0] = <<>> /\ BytesOf(es) = flat[n]
  /\ \A i \in 0 .. n : flat[i] \in Seq(Nat)
  /\ \A i \in 1 .. n : flat[i] = flat[i - 1] \o EntryBytes(es[i])

\* The bytes of entries, entry by entry.
LEMMA BytesUnfold ==
  ASSUME NEW n \in Nat, NEW es \in Seq(WireEntries), n = Len(es)
  PROVE  \E flat : EntryByEntry(es, n, flat)
<1> PICK ss : ss = [i \in 1 .. n |-> EntryBytes(es[i])]
  OBVIOUS
<1>1. \A i \in 1 .. n : EntryBytes(es[i]) \in Seq(Nat)
  <2>1. \A i \in 1 .. n : es[i] \in WireEntries
    OBVIOUS
  <2> QED BY <2>1, EntryIs
<1>2. ss \in Seq(Seq(Nat)) /\ Len(ss) = n /\ \A i \in 1 .. n : ss[i] = EntryBytes(es[i])
  <2> DEFINE b(i) == EntryBytes(es[i])
  <2>1. ss = [i \in 1 .. n |-> b(i)] /\ \A i \in 1 .. n : b(i) \in Seq(Nat)
    BY <1>1
  <2> HIDE DEF b
  <2>2. ss \in Seq(Seq(Nat)) /\ Len(ss) = n /\ \A i \in 1 .. n : ss[i] = b(i)
    BY <2>1
  <2> QED BY <2>2 DEF b
<1>3. BytesOf(es) = FlattenSeq(ss)
  BY DEF BytesOf
<1> PICK flat : OneByOne(Nat, ss, n, flat)
  <2>1. ss \in Seq(Seq(Nat)) /\ n = Len(ss)
    BY <1>2
  <2> QED BY ONLY <2>1, n \in Nat, FlattenUnfolds
<1>4. /\ flat[0] = <<>> /\ FlattenSeq(ss) = flat[n]
      /\ \A i \in 0 .. n : flat[i] \in Seq(Nat)
      /\ \A i \in 1 .. n : flat[i] = flat[i - 1] \o ss[i]
  BY ONLY OneByOne(Nat, ss, n, flat) DEF OneByOne
<1> QED BY <1>2, <1>3, <1>4 DEF EntryByEntry

\* p is what s starts with.
StartsWith(s, p) == Len(p) <= Len(s) /\ \A j \in 1 .. Len(p) : s[j] = p[j]

\* What starts with a longer sequence starts with a shorter one.
LEMMA StartsShorter ==
  ASSUME NEW s \in Seq(Nat), NEW p \in Seq(Nat), NEW b \in Seq(Nat), StartsWith(s, p \o b)
  PROVE  /\ StartsWith(s, p)
         /\ Len(p) + Len(b) <= Len(s)
         /\ \A j \in 1 .. Len(b) : s[Len(p) + j] = b[j]
<1>1. /\ Len(p) \in Nat /\ Len(b) \in Nat /\ Len(s) \in Nat
      /\ Len(p \o b) = Len(p) + Len(b)
      /\ \A i \in 1 .. Len(p) + Len(b) : (p \o b)[i] = IF i <= Len(p) THEN p[i] ELSE b[i - Len(p)]
  BY ConcatProperties, LenProperties
<1>2. Len(p) + Len(b) <= Len(s) /\ \A j \in 1 .. Len(p) + Len(b) : s[j] = (p \o b)[j]
  BY <1>1 DEF StartsWith
<1>3. ASSUME NEW j \in 1 .. Len(p) PROVE s[j] = p[j]
  <2>1. j \in 1 .. Len(p) + Len(b) /\ j <= Len(p)
    BY <1>1
  <2> QED BY ONLY <1>1, <1>2, <2>1
<1>4. ASSUME NEW j \in 1 .. Len(b) PROVE s[Len(p) + j] = b[j]
  <2>1. Len(p) + j \in 1 .. Len(p) + Len(b) /\ ~(Len(p) + j <= Len(p)) /\ (Len(p) + j) - Len(p) = j
    BY <1>1
  <2> QED BY <1>1, <1>2, <2>1
<1> QED BY <1>1, <1>2, <1>3, <1>4 DEF StartsWith

\* What has been found in s behind each of its places.
Found(s, from) == \A i \in 1 .. Len(s) + 1 : from[i] = EntryStep(s, from, i)

\* Bytes that start with those of entries are read as these entries, and then
\* as what follows them, here nothing or a broken entry.
LEMMA EntriesUpto ==
  ASSUME NEW es \in Seq(WireEntries), NEW s \in Seq(Nat), NEW p, p = BytesOf(es), StartsWith(s, p),
         NEW from, Found(s, from), NEW k, k = Len(p) + 1, NEW good, from[k] = [ok |-> good, list |-> <<>>]
  PROVE  from[1] = [ok |-> good, list |-> es]
<1> PICK n \in Nat : n = Len(es)
  OBVIOUS
<1> PICK flat : EntryByEntry(es, n, flat)
  BY ONLY n \in Nat, es \in Seq(WireEntries), n = Len(es), BytesUnfold
<1>6. /\ flat[0] = <<>> /\ p = flat[n]
      /\ \A i \in 0 .. n : flat[i] \in Seq(Nat)
      /\ \A i \in 1 .. n : flat[i] = flat[i - 1] \o EntryBytes(es[i])
  BY DEF EntryByEntry
<1>7. \A i \in 1 .. Len(s) + 1 : from[i] = EntryStep(s, from, i)
  BY DEF Found
<1> DEFINE Q == {d \in Nat : d <= n =>
                    /\ StartsWith(s, flat[n - d])
                    /\ from[Len(flat[n - d]) + 1] = [ok |-> good, list |-> SubSeq(es, n - d + 1, n)]}
<1>1. 0 \in Q
  <2>1. flat[n - 0] = p /\ n - 0 + 1 = n + 1
    BY <1>6
  <2>4. SubSeq(es, n + 1, n) = <<>>
    BY SubSeqEmpty
  <2> QED BY <2>1, <2>4
<1>2. ASSUME NEW d \in Nat, d \in Q PROVE d + 1 \in Q
  <2> SUFFICES ASSUME d + 1 <= n
               PROVE  /\ StartsWith(s, flat[n - (d + 1)])
                      /\ from[Len(flat[n - (d + 1)]) + 1]
                           = [ok |-> good, list |-> SubSeq(es, n - (d + 1) + 1, n)]
    BY d + 1 \in Nat
  <2> PICK h \in Nat : h = n - (d + 1)
    BY ONLY d + 1 <= n, d \in Nat, n \in Nat
  <2>0. /\ h = n - (d + 1) /\ n - d = h + 1 /\ h + 1 <= n /\ n - (d + 1) + 1 = h + 1
        /\ n - d + 1 = h + 2 /\ h \in 0 .. n /\ h + 1 \in 1 .. n /\ (h + 1) - 1 = h
        /\ d <= n
    BY ONLY d + 1 <= n, d \in Nat, n \in Nat, h \in Nat, h = n - (d + 1)
  <2> PICK q \in Seq(Nat), e \in WireEntries : q = flat[h] /\ e = es[h + 1]
    BY <1>6, <2>0
  <2> PICK b \in Seq(Nat) : b = EntryBytes(e)
    BY EntryIs
  <2>1. /\ StartsWith(s, flat[h + 1])
        /\ from[Len(flat[h + 1]) + 1] = [ok |-> good, list |-> SubSeq(es, h + 2, n)]
    BY <1>2, <2>0
  <2>2. flat[h + 1] = q \o b /\ Len(q) \in Nat /\ Len(b) \in Nat /\ Len(flat[h + 1]) = Len(q) + Len(b)
    <3>1. flat[h + 1] = q \o b
      BY <1>6, <2>0
    <3> QED BY ONLY <3>1, q \in Seq(Nat), b \in Seq(Nat), ConcatProperties, LenProperties
  <2>3. /\ StartsWith(s, q) /\ Len(q) + Len(b) <= Len(s)
        /\ \A j \in 1 .. Len(b) : s[Len(q) + j] = b[j]
    <3>1. StartsWith(s, q \o b)
      BY <2>1, <2>2
    <3> QED BY ONLY <3>1, s \in Seq(Nat), q \in Seq(Nat), b \in Seq(Nat), StartsShorter
  <2> PICK a \in Nat, l \in Nat : a = Len(q) /\ l = Len(b) /\ Len(flat[h + 1]) = a + l
    BY <2>2
  <2>4. /\ EntryEnd(s, a + 1) = a + l + 1
        /\ s[a + 1] \div 8 = e.num /\ s[a + 1] % 8 = e.wire
        /\ SubSeq(s, a + 1 + HeadLength(e), a + l) = e.val
    <3>1. LiesBehind(s, e, a, l)
      BY <2>3 DEF LiesBehind
    <3> QED BY ONLY <3>1, s \in Seq(Nat), e \in WireEntries, a \in Nat, l \in Nat, StepOverEntry
  <2>5. l >= 1
    <3>1. l = HeadLength(e) + Len(e.val) /\ e.val \in Seq(Nat)
      BY EntryIs DEF WireEntries
    <3>2. HeadLength(e) \in 1 .. 2 /\ Len(e.val) \in Nat
      BY <3>1 DEF HeadLength
    <3> QED BY ONLY <3>1, <3>2, l \in Nat
  <2>6. from[a + 1] = [ok |-> good, list |-> <<e>> \o SubSeq(es, h + 2, n)]
    <3>1. a + 1 \in 1 .. Len(s) + 1 /\ a + 1 # Len(s) + 1 /\ ~(a + l + 1 > Len(s) + 1)
      <4> PICK z \in Nat : z = Len(s)
        OBVIOUS
      <4>1. a + l <= z
        BY <2>3
      <4> QED BY ONLY <2>5, <4>1, z \in Nat, a \in Nat, l \in Nat, z = Len(s)
    <3>2. from[a + 1] = EntryStep(s, from, a + 1)
      BY ONLY <1>7, <3>1
    <3>3. from[a + l + 1] = [ok |-> good, list |-> SubSeq(es, h + 2, n)]
      BY <2>1, <2>2
    <3>4. a + 1 + (IF s[a + 1] % 8 = 2 THEN 2 ELSE 1) = a + 1 + HeadLength(e)
      BY <2>4 DEF HeadLength
    <3>5. (a + l + 1) - 1 = a + l
      OBVIOUS
    <3>6. e = [num |-> e.num, wire |-> e.wire, val |-> e.val]
      BY DEF WireEntries
    <3>7. EntryStep(s, from, a + 1)
            = [ok |-> from[a + l + 1].ok,
               list |-> << [num |-> s[a + 1] \div 8, wire |-> s[a + 1] % 8,
                            val |-> SubSeq(s, a + 1 + (IF s[a + 1] % 8 = 2 THEN 2 ELSE 1), (a + l + 1) - 1)] >>
                        \o from[a + l + 1].list]
      BY <2>4, <3>1 DEF EntryStep
    <3>8. [num |-> s[a + 1] \div 8, wire |-> s[a + 1] % 8,
           val |-> SubSeq(s, a + 1 + (IF s[a + 1] % 8 = 2 THEN 2 ELSE 1), (a + l + 1) - 1)] = e
      BY ONLY <2>4, <3>4, <3>5, <3>6
    <3>9. from[a + l + 1].ok = good /\ from[a + l + 1].list = SubSeq(es, h + 2, n)
      <4> PICK r, rest : r = from[a + l + 1] /\ rest = SubSeq(es, h + 2, n)
        OBVIOUS
      <4>1. r = [ok |-> good, list |-> rest]
        BY ONLY <3>3, r = from[a + l + 1], rest = SubSeq(es, h + 2, n)
      <4>2. r.ok = good /\ r.list = rest
        BY ONLY <4>1
      <4> QED BY ONLY <4>2, r = from[a + l + 1], rest = SubSeq(es, h + 2, n)
    <3> QED BY ONLY <3>2, <3>7, <3>8, <3>9
  <2>7. <<e>> \o SubSeq(es, h + 2, n) = SubSeq(es, h + 1, n)
    <3>1. h + 1 \in 1 .. Len(es) /\ n \in h + 1 .. Len(es) /\ (h + 1) + 1 = h + 2
      BY <2>0
    <3>2. SubSeq(es, h + 1, n) = <<es[h + 1]>> \o SubSeq(es, (h + 1) + 1, n)
      BY ONLY <3>1, es \in Seq(WireEntries), SubSeqRecursiveFirst
    <3> QED BY <3>1, <3>2
  <2> QED BY <2>0, <2>3, <2>6, <2>7
<1>3. n \in Q
  <2> HIDE DEF Q
  <2>1. \A d \in Nat : d \in Q => d + 1 \in Q
    BY <1>2
  <2>2. Nat \subseteq Q
    BY ONLY <1>1, <2>1, NatSetInduction
  <2> QED BY <2>2
<1>4. from[1] = [ok |-> good, list |-> SubSeq(es, 1, n)]
  <2>1. flat[n - n] = <<>> /\ Len(<<>>) + 1 = 1 /\ n - n + 1 = 1
    BY <1>6
  <2> QED BY <1>3, <2>1
<1>5. SubSeq(es, 1, n) = es
  BY SubSeqFull
<1> QED BY <1>4, <1>5

\* The bytes of entries are read as these entries.
LEMMA EntriesOfBytes ==
  ASSUME NEW es \in Seq(WireEntries)
  PROVE  BytesOf(es) \in Seq(Nat) /\ Entries(BytesOf(es)) = [ok |-> TRUE, list |-> es]
<1> PICK n \in Nat : n = Len(es)
  OBVIOUS
<1> PICK flat : EntryByEntry(es, n, flat)
  BY ONLY n \in Nat, es \in Seq(WireEntries), n = Len(es), BytesUnfold
<1>1. BytesOf(es) \in Seq(Nat)
  BY DEF EntryByEntry
<1> PICK s \in Seq(Nat) : s = BytesOf(es)
  BY <1>1
<1> PICK from : /\ Entries(s) = from[1]
                /\ \A i \in 1 .. Len(s) + 1 : from[i] = EntryStep(s, from, i)
  BY EntriesUnfold
<1>2. StartsWith(s, s)
  BY DEF StartsWith
<1>3. from[Len(s) + 1] = [ok |-> TRUE, list |-> <<>>]
  <2>1. Len(s) + 1 \in 1 .. Len(s) + 1
    OBVIOUS
  <2> QED BY <2>1 DEF EntryStep
<1> PICK good : good = TRUE
  OBVIOUS
<1> PICK k : k = Len(s) + 1
  OBVIOUS
<1>5. from[k] = [ok |-> good, list |-> <<>>]
  BY ONLY <1>3, good = TRUE, k = Len(s) + 1
<1>7. Found(s, from)
  BY DEF Found
<1>4. from[1] = [ok |-> good, list |-> es]
  BY ONLY <1>2, <1>5, k = Len(s) + 1, s \in Seq(Nat), s = BytesOf(es), es \in Seq(WireEntries),
          <1>7, EntriesUpto
<1>6. from[1] = [ok |-> TRUE, list |-> es]
  BY ONLY <1>4, good = TRUE
<1> QED BY <1>1, <1>6

\* Putting together what is put together.
LEMMA FlattenJoins ==
  ASSUME NEW S, NEW ss \in Seq(Seq(S)), NEW tt \in Seq(Seq(S))
  PROVE  /\ FlattenSeq(ss) \in Seq(S) /\ FlattenSeq(tt) \in Seq(S)
         /\ FlattenSeq(ss \o tt) = FlattenSeq(ss) \o FlattenSeq(tt)
<1> PICK m \in Nat, n \in Nat : m = Len(ss) /\ n = Len(tt)
  OBVIOUS
<1>1. /\ ss \o tt \in Seq(Seq(S)) /\ m + n \in Nat /\ m + n = Len(ss \o tt)
      /\ \A i \in 1 .. m + n : (ss \o tt)[i] = IF i <= m THEN ss[i] ELSE tt[i - m]
  BY ConcatProperties
<1> PICK uu : uu = ss \o tt
  OBVIOUS
<1> PICK f : OneByOne(S, ss, m, f)
  BY ONLY m \in Nat, ss \in Seq(Seq(S)), m = Len(ss), FlattenUnfolds
<1>10. /\ f[0] = <<>> /\ FlattenSeq(ss) = f[m]
       /\ \A i \in 0 .. m : f[i] \in Seq(S)
       /\ \A i \in 1 .. m : f[i] = f[i - 1] \o ss[i]
  BY ONLY OneByOne(S, ss, m, f) DEF OneByOne
<1> PICK g : OneByOne(S, tt, n, g)
  BY ONLY n \in Nat, tt \in Seq(Seq(S)), n = Len(tt), FlattenUnfolds
<1>11. /\ g[0] = <<>> /\ FlattenSeq(tt) = g[n]
       /\ \A i \in 0 .. n : g[i] \in Seq(S)
       /\ \A i \in 1 .. n : g[i] = g[i - 1] \o tt[i]
  BY ONLY OneByOne(S, tt, n, g) DEF OneByOne
<1> PICK mn \in Nat : mn = m + n
  OBVIOUS
<1> PICK h : OneByOne(S, uu, mn, h)
  <2>1. uu \in Seq(Seq(S)) /\ mn = Len(uu)
    BY <1>1
  <2> QED BY ONLY <2>1, mn \in Nat, FlattenUnfolds
<1>12. /\ h[0] = <<>> /\ FlattenSeq(uu) = h[m + n]
       /\ \A i \in 0 .. m + n : h[i] \in Seq(S)
       /\ \A i \in 1 .. m + n : h[i] = h[i - 1] \o uu[i]
  BY ONLY OneByOne(S, uu, mn, h), mn = m + n DEF OneByOne
<1> DEFINE P == {k \in Nat : k <= m => h[k] = f[k]}
           Q == {k \in Nat : k <= n => h[m + k] = f[m] \o g[k]}
<1>2. 0 \in P
  BY <1>10, <1>12
<1>3. ASSUME NEW k \in Nat, k \in P PROVE k + 1 \in P
  <2> SUFFICES ASSUME k + 1 <= m PROVE h[k + 1] = f[k + 1]
    BY k + 1 \in Nat
  <2>1. k + 1 \in 1 .. m + n /\ k + 1 \in 1 .. m /\ (k + 1) - 1 = k /\ k + 1 <= m
    BY ONLY k \in Nat, m \in Nat, n \in Nat, k + 1 <= m
  <2>2. h[k + 1] = h[k] \o uu[k + 1] /\ f[k + 1] = f[k] \o ss[k + 1] /\ uu[k + 1] = ss[k + 1]
    <3>1. h[k + 1] = h[(k + 1) - 1] \o uu[k + 1]
      BY ONLY <1>12, <2>1
    <3>2. f[k + 1] = f[(k + 1) - 1] \o ss[k + 1]
      BY ONLY <1>10, <2>1
    <3>3. uu[k + 1] = ss[k + 1]
      BY ONLY <1>1, <2>1, uu = ss \o tt
    <3> QED BY ONLY <2>1, <3>1, <3>2, <3>3
  <2>3. h[k] = f[k]
    BY <1>3, <2>1
  <2> QED BY ONLY <2>2, <2>3
<1>4. h[m] = f[m]
  <2>1. Nat \subseteq P
    <3> HIDE DEF P
    <3>1. \A k \in Nat : k \in P => k + 1 \in P
      BY <1>3
    <3> QED BY ONLY <1>2, <3>1, NatSetInduction
  <2> QED BY <2>1
<1>5. 0 \in Q
  <2>1. f[m] \o <<>> = f[m]
    <3> PICK x \in Seq(S) : x = f[m]
      BY <1>10
    <3>1. x \o <<>> = x
      BY ONLY x \in Seq(S), ConcatEmptySeq
    <3> QED BY <3>1
  <2>2. h[m + 0] = f[m] \o g[0]
    <3>1. m + 0 = m
      OBVIOUS
    <3> QED BY ONLY <1>4, <1>11, <2>1, <3>1
  <2> QED BY ONLY <2>2, n \in Nat
<1>6. ASSUME NEW k \in Nat, k \in Q PROVE k + 1 \in Q
  <2> SUFFICES ASSUME k + 1 <= n PROVE h[m + (k + 1)] = f[m] \o g[k + 1]
    BY k + 1 \in Nat
  <2>1. /\ m + (k + 1) \in 1 .. m + n /\ (m + (k + 1)) - 1 = m + k /\ ~(m + (k + 1) <= m)
        /\ (m + (k + 1)) - m = k + 1 /\ k + 1 \in 1 .. n /\ (k + 1) - 1 = k /\ k <= n
    BY ONLY k \in Nat, m \in Nat, n \in Nat, k + 1 <= n
  <2>2. h[m + (k + 1)] = h[(m + (k + 1)) - 1] \o uu[m + (k + 1)]
    BY ONLY <1>12, <2>1
  <2>3. uu[m + (k + 1)] = tt[k + 1]
    BY ONLY <1>1, <2>1, uu = ss \o tt
  <2>4. g[k + 1] = g[(k + 1) - 1] \o tt[k + 1]
    BY ONLY <1>11, <2>1
  <2> PICK x \in Seq(S), y \in Seq(S), z \in Seq(S) : x = f[m] /\ y = g[k] /\ z = tt[k + 1]
    <3>1. f[m] \in Seq(S)
      BY <1>10
    <3>2. g[k] \in Seq(S)
      <4>1. k \in 0 .. n
        BY <2>1
      <4> QED BY ONLY <1>11, <4>1
    <3>3. tt[k + 1] \in Seq(S)
      BY <2>1
    <3> QED BY ONLY <3>1, <3>2, <3>3
  <2>5. (x \o y) \o z = x \o (y \o z)
    BY ONLY x \in Seq(S), y \in Seq(S), z \in Seq(S), ConcatAssociative
  <2>6. h[m + k] = x \o y
    BY <1>6, <2>1
  <2> QED BY ONLY <2>1, <2>2, <2>3, <2>4, <2>5, <2>6, x = f[m], y = g[k], z = tt[k + 1]
<1>7. h[m + n] = f[m] \o g[n]
  <2>1. Nat \subseteq Q
    <3> HIDE DEF Q
    <3>1. \A k \in Nat : k \in Q => k + 1 \in Q
      BY <1>6
    <3> QED BY ONLY <1>5, <3>1, NatSetInduction
  <2>2. n \in Q
    BY ONLY <2>1, n \in Nat
  <2>3. n <= n => h[m + n] = f[m] \o g[n]
    BY ONLY <2>2
  <2>4. n <= n
    BY ONLY n \in Nat
  <2> QED BY ONLY <2>3, <2>4
<1> HIDE DEF P, Q
<1>8. f[m] \in Seq(S) /\ g[n] \in Seq(S)
  BY <1>10, <1>11
<1> QED BY ONLY <1>7, <1>8, <1>10, <1>11, <1>12, uu = ss \o tt

\* The bytes of two sequences of entries.
LEMMA BytesJoin ==
  ASSUME NEW es \in Seq(WireEntries), NEW fs \in Seq(WireEntries)
  PROVE  BytesOf(es \o fs) = BytesOf(es) \o BytesOf(fs)
<1> DEFINE b(u) == [i \in DOMAIN u |-> EntryBytes(u[i])]
<1>1. \A u \in Seq(WireEntries) : /\ b(u) \in Seq(Seq(Nat)) /\ Len(b(u)) = Len(u)
                                  /\ \A i \in 1 .. Len(u) : b(u)[i] = EntryBytes(u[i])
  <2> SUFFICES ASSUME NEW u \in Seq(WireEntries)
               PROVE  /\ b(u) \in Seq(Seq(Nat)) /\ Len(b(u)) = Len(u)
                      /\ \A i \in 1 .. Len(u) : b(u)[i] = EntryBytes(u[i])
    OBVIOUS
  <2> DEFINE x(i) == EntryBytes(u[i])
  <2>1. \A i \in 1 .. Len(u) : x(i) \in Seq(Nat)
    <3>1. \A i \in 1 .. Len(u) : u[i] \in WireEntries
      OBVIOUS
    <3> QED BY <3>1, EntryIs
  <2>2. b(u) = [i \in 1 .. Len(u) |-> x(i)] /\ Len(u) \in Nat
    OBVIOUS
  <2>3. \A i \in 1 .. Len(u) : b(u)[i] = EntryBytes(u[i])
    OBVIOUS
  <2> HIDE DEF x, b
  <2>4. b(u) \in Seq(Seq(Nat)) /\ Len(b(u)) = Len(u)
    BY <2>1, <2>2
  <2> QED BY <2>3, <2>4
<1>2. /\ es \o fs \in Seq(WireEntries) /\ Len(es \o fs) = Len(es) + Len(fs)
      /\ Len(es) \in Nat /\ Len(fs) \in Nat
      /\ \A i \in 1 .. Len(es) + Len(fs) : (es \o fs)[i] = IF i <= Len(es) THEN es[i] ELSE fs[i - Len(es)]
  BY ConcatProperties, LenProperties
<1> PICK bes, bfs, both : bes = b(es) /\ bfs = b(fs) /\ both = b(es \o fs)
  OBVIOUS
<1>3. BytesOf(es) = FlattenSeq(bes) /\ BytesOf(fs) = FlattenSeq(bfs) /\ BytesOf(es \o fs) = FlattenSeq(both)
  BY DEF BytesOf
<1> HIDE DEF b
<1>4. bes \in Seq(Seq(Nat)) /\ bfs \in Seq(Seq(Nat)) /\ both \in Seq(Seq(Nat))
  BY <1>1, <1>2
<1>5. both = bes \o bfs
  <2>1. Len(bes) = Len(es) /\ Len(bfs) = Len(fs) /\ Len(both) = Len(es) + Len(fs)
    BY <1>1, <1>2
  <2>2. /\ bes \o bfs \in Seq(Seq(Nat)) /\ Len(bes \o bfs) = Len(bes) + Len(bfs)
        /\ \A i \in 1 .. Len(bes) + Len(bfs) : (bes \o bfs)[i] = IF i <= Len(bes) THEN bes[i] ELSE bfs[i - Len(bes)]
    BY ONLY <1>4, ConcatProperties
  <2>3. ASSUME NEW i \in 1 .. Len(es) + Len(fs) PROVE both[i] = (bes \o bfs)[i]
    <3>1. both[i] = EntryBytes((es \o fs)[i])
      BY <1>1, <1>2
    <3>2. CASE i <= Len(es)
      <4>1. i \in 1 .. Len(es) /\ (es \o fs)[i] = es[i]
        BY <1>2, <3>2
      <4>2. (bes \o bfs)[i] = bes[i] /\ bes[i] = EntryBytes(es[i])
        BY <1>1, <2>1, <2>2, <3>2, <4>1
      <4> QED BY <3>1, <4>1, <4>2
    <3>3. CASE ~(i <= Len(es))
      <4>1. i - Len(es) \in 1 .. Len(fs) /\ (es \o fs)[i] = fs[i - Len(es)]
        BY <1>2, <3>3
      <4>2. (bes \o bfs)[i] = bfs[i - Len(es)] /\ bfs[i - Len(es)] = EntryBytes(fs[i - Len(es)])
        BY <1>1, <2>1, <2>2, <3>3, <4>1
      <4> QED BY <3>1, <4>1, <4>2
    <3> QED BY <3>2, <3>3
  <2> QED BY ONLY <1>4, <2>1, <2>2, <2>3, SeqEqual
<1>6. FlattenSeq(bes \o bfs) = FlattenSeq(bes) \o FlattenSeq(bfs)
  BY ONLY <1>4, FlattenJoins
<1> QED BY ONLY <1>3, <1>5, <1>6

\* A sequence of one.
LEMMA OneIsSeq ==
  ASSUME NEW S, NEW e \in S
  PROVE  <<e>> \in Seq(S) /\ Len(<<e>>) = 1 /\ <<e>>[1] = e
OBVIOUS

\* No bytes and the bytes of one entry.
LEMMA BytesOfFew ==
  BytesOf(<<>>) = <<>> /\ \A e \in WireEntries : BytesOf(<<e>>) = EntryBytes(e)
<1>1. BytesOf(<<>>) = <<>>
  <2> PICK es \in Seq(WireEntries), n \in Nat : es = <<>> /\ n = 0 /\ n = Len(es)
    <3>1. <<>> \in Seq(WireEntries) /\ Len(<<>>) = 0
      BY ONLY EmptySeq
    <3> QED BY <3>1
  <2> PICK flat : EntryByEntry(es, n, flat)
    BY ONLY es \in Seq(WireEntries), n \in Nat, n = Len(es), BytesUnfold
  <2> QED BY DEF EntryByEntry
<1>2. ASSUME NEW e \in WireEntries PROVE BytesOf(<<e>>) = EntryBytes(e)
  <2>0. <<e>> \in Seq(WireEntries) /\ Len(<<e>>) = 1 /\ <<e>>[1] = e
    BY OneIsSeq
  <2> PICK es : es = <<e>>
    OBVIOUS
  <2> PICK n \in Nat : n = 1
    OBVIOUS
  <2>3. es \in Seq(WireEntries) /\ n = Len(es) /\ es[1] = e
    BY ONLY <2>0, es = <<e>>, n = 1
  <2> PICK flat : EntryByEntry(es, n, flat)
    BY ONLY <2>3, n \in Nat, BytesUnfold
  <2>1. /\ flat[0] = <<>> /\ BytesOf(es) = flat[1]
        /\ \A i \in 1 .. 1 : flat[i] = flat[i - 1] \o EntryBytes(es[i])
    BY DEF EntryByEntry
  <2>2. flat[1] = <<>> \o EntryBytes(e)
    <3>1. 1 - 1 = 0 /\ 1 \in 1 .. 1
      OBVIOUS
    <3> QED BY <2>1, <2>3, <3>1
  <2>4. <<>> \o EntryBytes(e) = EntryBytes(e)
    <3>1. EntryBytes(e) \in Seq(Nat)
      BY EntryIs
    <3> QED BY ONLY <3>1, ConcatEmptySeq
  <2> QED BY <2>1, <2>2, <2>4
<1> QED BY <1>1, <1>2

\* An entry whose end is cut off.
LEMMA TornEntry ==
  ASSUME NEW s \in Seq(Nat), NEW e \in WireEntries, NEW p \in Nat, p < Len(s),
         Len(s) < p + Len(EntryBytes(e)), \A j \in 1 .. Len(s) - p : s[p + j] = EntryBytes(e)[j]
  PROVE  EntryEnd(s, p + 1) > Len(s) + 1
<1> PICK z \in Nat : z = Len(s)
  OBVIOUS
<1> PICK v \in Seq(Nat), w \in {0, 2}, num \in Nat \ {0} : v = e.val /\ w = e.wire /\ num = e.num
  BY DEF WireEntries
<1> PICK m \in Nat : m = Len(v)
  OBVIOUS
<1> PICK x : x = EntryBytes(e)
  OBVIOUS
<1>1. w = 0 => m = 1
  BY DEF WireEntries
<1>2. x[1] = num * 8 + w /\ (w = 2 => x[2] = m) /\ Len(x) = (IF w = 2 THEN 2 ELSE 1) + m
  BY EntryIs DEF HeadLength
<1>3. s[p + 1] = num * 8 + w /\ (w = 2 /\ p + 1 < z => s[(p + 1) + 1] = m)
  <2>1. 1 \in 1 .. z - p /\ (p + 1 < z => 2 \in 1 .. z - p) /\ (p + 1) + 1 = p + 2
    BY ONLY p \in Nat, z \in Nat, p < Len(s), z = Len(s)
  <2> QED BY <1>2, <2>1
<1> PICK tag \in Nat : tag = s[p + 1] /\ tag % 8 = w /\ tag >= 8
  <2>1. num * 8 + w \in Nat
    OBVIOUS
  <2> QED BY <1>3, <2>1, TagIs
<1>4. CASE w = 0
  <2>1. EntryEnd(s, p + 1) = (p + 1) + 2
    <3>1. s[p + 1] % 8 = 0 /\ s[p + 1] >= 8 /\ ~(s[p + 1] < 8)
      BY <1>4
    <3> QED BY ONLY <3>1 DEF EntryEnd
  <2>2. z < p + 2
    <3>1. Len(x) = 1 + m /\ m = 1
      BY ONLY <1>1, <1>2, <1>4
    <3>2. z < p + Len(x)
      OBVIOUS
    <3> QED BY ONLY <3>1, <3>2
  <2> QED BY ONLY <2>1, <2>2, z = Len(s), z \in Nat, p \in Nat
<1>5. CASE w = 2
  <2>0. s[p + 1] % 8 = 2 /\ s[p + 1] >= 8 /\ ~(s[p + 1] < 8)
    BY <1>5
  <2>1. CASE p + 1 < z
    <3>1. EntryEnd(s, p + 1) = (p + 1) + 2 + s[(p + 1) + 1]
      BY ONLY <2>0, <2>1, z = Len(s) DEF EntryEnd
    <3>2. s[(p + 1) + 1] = m /\ z < p + (2 + m)
      BY <1>2, <1>3, <1>5, <2>1
    <3> QED BY ONLY <3>1, <3>2, z = Len(s), z \in Nat, p \in Nat, m \in Nat
  <2>2. CASE ~(p + 1 < z)
    <3>1. EntryEnd(s, p + 1) = Len(s) + 2
      BY ONLY <2>0, <2>2, z = Len(s) DEF EntryEnd
    <3> QED BY ONLY <3>1, z = Len(s), z \in Nat
  <2> QED BY <2>1, <2>2
<1> QED BY <1>4, <1>5

\* The bytes of the first entries are what the bytes of all start with.
LEMMA BytesUpto ==
  ASSUME NEW es \in Seq(WireEntries), NEW n \in Nat, n = Len(es), NEW s, s = BytesOf(es)
  PROVE  /\ s \in Seq(Nat) /\ BytesOf(SubSeq(es, 1, 0)) = <<>> /\ BytesOf(SubSeq(es, 1, n)) = s
         /\ \A j \in 0 .. n : /\ SubSeq(es, 1, j) \in Seq(WireEntries)
                              /\ BytesOf(SubSeq(es, 1, j)) \in Seq(Nat)
                              /\ StartsWith(s, BytesOf(SubSeq(es, 1, j)))
         /\ \A j \in 1 .. n : BytesOf(SubSeq(es, 1, j)) = BytesOf(SubSeq(es, 1, j - 1)) \o EntryBytes(es[j])
<1>1. SubSeq(es, 1, n) = es /\ SubSeq(es, 1, 0) = <<>> /\ BytesOf(<<>>) = <<>>
  BY SubSeqFull, SubSeqEmpty, BytesOfFew
<1>2. s \in Seq(Nat)
  BY EntriesOfBytes
<1>3. ASSUME NEW j \in 0 .. n
      PROVE  /\ SubSeq(es, 1, j) \in Seq(WireEntries) /\ BytesOf(SubSeq(es, 1, j)) \in Seq(Nat)
             /\ StartsWith(s, BytesOf(SubSeq(es, 1, j)))
  <2> PICK fs, gs : fs = SubSeq(es, 1, j) /\ gs = SubSeq(es, j + 1, n)
    OBVIOUS
  <2>1. fs \in Seq(WireEntries) /\ gs \in Seq(WireEntries)
    BY SubSeqProperties
  <2>2. fs \o gs = es
    <3>1. 1 \in 1 .. Len(es) + 1 /\ j \in 1 - 1 .. Len(es) /\ n \in j .. Len(es)
      OBVIOUS
    <3>2. SubSeq(es, 1, j) \o SubSeq(es, j + 1, n) = SubSeq(es, 1, n)
      BY ONLY <3>1, es \in Seq(WireEntries), ConcatAdjacentSubSeq
    <3> QED BY <1>1, <3>2
  <2> PICK a \in Seq(Nat), b \in Seq(Nat) : a = BytesOf(fs) /\ b = BytesOf(gs)
    BY <2>1, EntriesOfBytes
  <2>3. s = a \o b
    BY <2>1, <2>2, BytesJoin
  <2>4. StartsWith(s, a \o b)
    BY <1>2, <2>3 DEF StartsWith
  <2> QED BY <1>2, <2>1, <2>4, StartsShorter
<1>4. ASSUME NEW j \in 1 .. n
      PROVE  BytesOf(SubSeq(es, 1, j)) = BytesOf(SubSeq(es, 1, j - 1)) \o EntryBytes(es[j])
  <2> PICK i \in 0 .. n, e \in WireEntries : i = j - 1 /\ e = es[j]
    OBVIOUS
  <2>1. SubSeq(es, 1, j) = SubSeq(es, 1, i) \o <<e>>
    <3>1. 1 \in 1 .. Len(es) /\ j \in 1 .. Len(es)
      OBVIOUS
    <3> QED BY <3>1, SubSeqRecursiveSecond
  <2>2. SubSeq(es, 1, i) \in Seq(WireEntries) /\ <<e>> \in Seq(WireEntries)
    BY <1>3, OneIsSeq
  <2>3. BytesOf(<<e>>) = EntryBytes(e)
    BY BytesOfFew
  <2> QED BY <2>1, <2>2, <2>3, BytesJoin
<1> QED BY <1>1, <1>2, <1>3, <1>4

\* The beginning of the bytes of entries.
CutOf(es, p) == \E j \in 0 .. Len(es) : \/ p = BytesOf(SubSeq(es, 1, j))
                                        \/ Entries(p) = [ok |-> FALSE, list |-> SubSeq(es, 1, j)]

\* The beginning of the bytes of entries: those of the first entries, with
\* nothing or a torn entry behind them.
LEMMA CutBytes ==
  ASSUME NEW es \in Seq(WireEntries), NEW s, s = BytesOf(es), NEW k \in 0 .. Len(s)
  PROVE  CutOf(es, SubSeq(s, 1, k))
<1> PICK p : p = SubSeq(s, 1, k)
  OBVIOUS
<1> PICK n \in Nat : n = Len(es)
  OBVIOUS
<1> DEFINE a(j) == BytesOf(SubSeq(es, 1, j))
<1>1. /\ s \in Seq(Nat) /\ a(0) = <<>> /\ a(n) = s
      /\ \A j \in 0 .. n : SubSeq(es, 1, j) \in Seq(WireEntries) /\ a(j) \in Seq(Nat) /\ StartsWith(s, a(j))
      /\ \A j \in 1 .. n : a(j) = a(j - 1) \o EntryBytes(es[j])
  BY ONLY n \in Nat, n = Len(es), es \in Seq(WireEntries), s = BytesOf(es), BytesUpto
<1> HIDE DEF a
<1>2. k \in Nat /\ k <= Len(s) /\ p \in Seq(Nat) /\ Len(p) = k /\ \A i \in 1 .. k : p[i] = s[i]
  BY <1>1, SubSeqProperties
<1>3. \A j \in 0 .. n : Len(a(j)) \in Nat
  BY <1>1
<1> DEFINE P == {j \in Nat : j <= n /\ k < Len(a(j)) => \E i \in 0 .. n - 1 : Len(a(i)) <= k /\ k < Len(a(i + 1))}
<1>4. 0 \in P
  <2>1. ~(k < Len(a(0)))
    BY <1>1, <1>2
  <2> QED BY <2>1
<1>5. ASSUME NEW j \in Nat, j \in P PROVE j + 1 \in P
  <2> SUFFICES ASSUME j + 1 <= n, k < Len(a(j + 1))
               PROVE  \E i \in 0 .. n - 1 : Len(a(i)) <= k /\ k < Len(a(i + 1))
    BY j + 1 \in Nat
  <2>1. j \in 0 .. n - 1 /\ j <= n /\ j \in 0 .. n
    BY ONLY j \in Nat, n \in Nat, j + 1 <= n
  <2>2. CASE k < Len(a(j))
    BY <1>5, <2>1, <2>2
  <2>3. CASE ~(k < Len(a(j)))
    <3>1. Len(a(j)) <= k
      BY <1>2, <1>3, <2>1, <2>3
    <3> QED BY <2>1, <3>1
  <2> QED BY <2>2, <2>3
<1>6. n \in P
  <2>1. Nat \subseteq P
    <3> HIDE DEF P
    <3>1. \A j \in Nat : j \in P => j + 1 \in P
      BY <1>5
    <3> QED BY ONLY <1>4, <3>1, NatSetInduction
  <2> QED BY <2>1
<1>7. ASSUME NEW j \in 0 .. n, Len(a(j)) <= k
      PROVE  StartsWith(p, a(j)) /\ (Len(a(j)) = k => p = a(j))
  <2> PICK b \in Seq(Nat), m \in Nat : b = a(j) /\ m = Len(b) /\ m <= k
    BY <1>1, <1>7
  <2>1. \A i \in 1 .. m : s[i] = b[i]
    BY <1>1 DEF StartsWith
  <2>2. \A i \in 1 .. m : p[i] = b[i]
    <3>1. \A i \in 1 .. m : i \in 1 .. k
      BY ONLY <1>2, m \in Nat, m <= k
    <3> QED BY ONLY <1>2, <2>1, <3>1
  <2>3. StartsWith(p, b)
    BY ONLY <1>2, <2>2, m = Len(b), m <= k DEF StartsWith
  <2>4. m = k => p = b
    BY ONLY <1>2, <2>2, m = Len(b), b \in Seq(Nat), SeqEqual
  <2> QED BY <2>3, <2>4
<1>8. CASE k = Len(s)
  <2>1. n \in 0 .. n /\ Len(a(n)) <= k /\ Len(a(n)) = k
    BY <1>1, <1>2, <1>8
  <2>2. p = a(n)
    BY <1>7, <2>1
  <2> QED BY <2>1, <2>2 DEF a, CutOf
<1>9. CASE k # Len(s)
  <2>1. k < Len(a(n)) /\ n <= n
    BY <1>1, <1>2, <1>9
  <2> PICK j \in 0 .. n - 1 : Len(a(j)) <= k /\ k < Len(a(j + 1))
    BY <1>6, <2>1
  <2>2. j \in 0 .. n /\ j + 1 \in 1 .. n /\ j + 1 \in 0 .. n /\ (j + 1) - 1 = j
    OBVIOUS
  <2>3. StartsWith(p, a(j)) /\ (Len(a(j)) = k => p = a(j))
    BY <1>7, <2>2
  <2>4. CASE Len(a(j)) = k
    BY <2>2, <2>3, <2>4 DEF a, CutOf
  <2>5. CASE Len(a(j)) # k
    <3> PICK b \in Seq(Nat), m \in Nat, e \in WireEntries : b = a(j) /\ m = Len(b) /\ e = es[j + 1]
      BY <1>1, <2>2
    <3> PICK x \in Seq(Nat) : x = EntryBytes(e)
      BY EntryIs
    <3>1. a(j + 1) = b \o x
      BY <1>1, <2>2
    <3>2. /\ Len(b \o x) = m + Len(x)
          /\ \A i \in 1 .. Len(x) : s[m + i] = x[i]
      <4>1. StartsWith(s, b \o x)
        BY <1>1, <2>2, <3>1
      <4> QED BY ONLY <1>1, <4>1, b \in Seq(Nat), x \in Seq(Nat), m = Len(b), StartsShorter, ConcatProperties
    <3> PICK h \in Nat : h = Len(x)
      OBVIOUS
    <3>3. m < k /\ k < m + h
      <4>1. m <= k /\ m # k /\ k < Len(a(j + 1))
        BY <2>5
      <4>2. Len(a(j + 1)) = m + h
        BY ONLY <3>1, <3>2, h = Len(x)
      <4> QED BY ONLY <1>2, <4>1, <4>2, m \in Nat, h \in Nat
    <3>4. \A i \in 1 .. k - m : p[m + i] = x[i]
      <4>1. \A i \in 1 .. k - m : m + i \in 1 .. k /\ i \in 1 .. h
        BY ONLY <1>2, <3>3, m \in Nat, h \in Nat
      <4> QED BY ONLY <1>2, <3>2, <4>1, h = Len(x)
    <3>5. EntryEnd(p, m + 1) > Len(p) + 1
      <4>1. m < Len(p) /\ Len(p) < m + Len(EntryBytes(e)) /\ \A i \in 1 .. Len(p) - m : p[m + i] = EntryBytes(e)[i]
        BY ONLY <1>2, <3>3, <3>4, h = Len(x), x = EntryBytes(e)
      <4> QED BY ONLY <1>2, <4>1, m \in Nat, e \in WireEntries, TornEntry
    <3> PICK from : /\ Entries(p) = from[1]
                    /\ \A i \in 1 .. Len(p) + 1 : from[i] = EntryStep(p, from, i)
      BY <1>2, EntriesUnfold
    <3>6. from[m + 1] = [ok |-> FALSE, list |-> <<>>]
      <4>1. m + 1 \in 1 .. Len(p) + 1 /\ m + 1 # Len(p) + 1
        BY ONLY <1>2, <3>3, m \in Nat
      <4>2. from[m + 1] = EntryStep(p, from, m + 1)
        BY <4>1
      <4> QED BY ONLY <3>5, <4>1, <4>2 DEF EntryStep
    <3> PICK fs : fs = SubSeq(es, 1, j)
      OBVIOUS
    <3>7. fs \in Seq(WireEntries) /\ b = BytesOf(fs)
      BY <1>1, <2>2 DEF a
    <3>8. from[1] = [ok |-> FALSE, list |-> fs]
      <4> PICK good : good = FALSE
        OBVIOUS
      <4> PICK i : i = m + 1
        OBVIOUS
      <4>1. from[i] = [ok |-> good, list |-> <<>>] /\ i = Len(b) + 1
        BY ONLY <3>6, good = FALSE, m = Len(b), i = m + 1
      <4>2. StartsWith(p, b)
        BY ONLY <2>3, b = a(j)
      <4>4. Found(p, from)
        BY DEF Found
      <4>5. p \in Seq(Nat)
        BY <1>2
      <4>3. from[1] = [ok |-> good, list |-> fs]
        BY ONLY <3>7, <4>1, <4>2, <4>4, <4>5, EntriesUpto
      <4> QED BY ONLY <4>3, good = FALSE
    <3> QED BY <2>2, <3>8 DEF CutOf
  <2> QED BY <2>4, <2>5
<1> QED BY <1>8, <1>9

\* Two of them.
LEMMA PairJoins == ASSUME NEW S, NEW a \in S, NEW b \in S PROVE <<a>> \o <<b>> = <<a, b>>
<1> PICK x \in Seq(S), y \in Seq(S) : x = <<a>> /\ y = <<b>>
  BY OneIsSeq
<1>1. /\ Len(x) = 1 /\ Len(y) = 1 /\ x[1] = a /\ y[1] = b
  BY OneIsSeq
<1> PICK z : z = x \o y
  OBVIOUS
<1>2. z \in Seq(S) /\ Len(z) = 2 /\ z[1] = a /\ z[2] = b
  BY <1>1, ConcatProperties
<1>3. z = <<z[1], z[2]>>
  BY ONLY <1>2
<1> QED BY ONLY <1>2, <1>3, z = x \o y, x = <<a>>, y = <<b>>

\* An inner message after entries have been read into it one by one.
InfoAllTaken(c, x, es) ==
  LET after[i \in 0 .. Len(es)] == IF i = 0 THEN x ELSE TakeInfo(c, after[i - 1], es[i])
  IN  after[Len(es)]

\* f has the messages after the first entries of es.
InfoTakes(c, x, es, n, f) == f = [i \in 0 .. n |-> IF i = 0 THEN x ELSE TakeInfo(c, f[i - 1], es[i])]

\* The same, up to the last of n entries.
InfoOneByOne(c, x, es, n, f) ==
  /\ f[0] = x /\ InfoAllTaken(c, x, es) = f[n]
  /\ \A i \in 1 .. n : f[i] = TakeInfo(c, f[i - 1], es[i])

\* Entries are taken one by one.
LEMMA InfoTakesUnfold ==
  ASSUME NEW c, NEW x, NEW n \in Nat, NEW es, n = Len(es)
  PROVE  \E f : InfoOneByOne(c, x, es, n, f)
<1> DEFINE P == {k \in Nat : \E f : InfoTakes(c, x, es, k, f)}
<1>1. 0 \in P
  <2> PICK f : f = [i \in 0 .. 0 |-> x]
    OBVIOUS
  <2>1. InfoTakes(c, x, es, 0, f)
    BY DEF InfoTakes
  <2> QED BY <2>1
<1>2. ASSUME NEW k \in Nat, k \in P PROVE k + 1 \in P
  <2> PICK f : InfoTakes(c, x, es, k, f)
    BY <1>2
  <2>1. \A i \in 0 .. k : f[i] = IF i = 0 THEN x ELSE TakeInfo(c, f[i - 1], es[i])
    BY DEF InfoTakes
  <2> PICK y : y = TakeInfo(c, f[k], es[k + 1])
    OBVIOUS
  <2> PICK g : g = [i \in 0 .. k + 1 |-> IF i = k + 1 THEN y ELSE f[i]]
    OBVIOUS
  <2>2. ASSUME NEW i \in 0 .. k + 1 PROVE g[i] = IF i = 0 THEN x ELSE TakeInfo(c, g[i - 1], es[i])
    <3>1. CASE i = k + 1
      <4>1. g[i] = y /\ k \in 0 .. k + 1 /\ i - 1 = k /\ g[k] = f[k] /\ i # 0
        BY <3>1
      <4> QED BY <3>1, <4>1
    <3>2. CASE i # k + 1
      <4>1. i \in 0 .. k /\ g[i] = f[i] /\ (i # 0 => i - 1 \in 0 .. k /\ g[i - 1] = f[i - 1])
        BY <3>2
      <4> QED BY <2>1, <4>1
    <3> QED BY <3>1, <3>2
  <2>3. g = [i \in 0 .. k + 1 |-> IF i = 0 THEN x ELSE TakeInfo(c, g[i - 1], es[i])]
    <3>1. g = [i \in 0 .. k + 1 |-> g[i]]
      OBVIOUS
    <3> QED BY <2>2, <3>1
  <2>4. InfoTakes(c, x, es, k + 1, g)
    BY <2>3 DEF InfoTakes
  <2> QED BY <2>4
<1>3. n \in P
  <2> HIDE DEF P
  <2>1. \A k \in Nat : k \in P => k + 1 \in P
    BY <1>2
  <2>2. Nat \subseteq P
    BY ONLY <1>1, <2>1, NatSetInduction
  <2> QED BY <2>2
<1> PICK f : InfoTakes(c, x, es, n, f)
  BY <1>3
<1> HIDE DEF P
<1> DEFINE Whole(u) == u = [i \in 0 .. Len(es) |-> IF i = 0 THEN x ELSE TakeInfo(c, u[i - 1], es[i])]
<1>4. \E u : Whole(u)
  <2>1. f = [i \in 0 .. Len(es) |-> IF i = 0 THEN x ELSE TakeInfo(c, f[i - 1], es[i])]
    BY DEF InfoTakes
  <2> QED BY <2>1
<1>5. InfoAllTaken(c, x, es) = (CHOOSE u : Whole(u))[Len(es)]
  BY DEF InfoAllTaken
<1> PICK u : Whole(u) /\ InfoAllTaken(c, x, es) = u[n]
  BY <1>4, <1>5
<1>6. \A i \in 0 .. n : u[i] = IF i = 0 THEN x ELSE TakeInfo(c, u[i - 1], es[i])
  OBVIOUS
<1> HIDE DEF Whole
<1>7. u[0] = x /\ \A i \in 1 .. n : u[i] = TakeInfo(c, u[i - 1], es[i])
  BY <1>6
<1> QED BY <1>7 DEF InfoOneByOne

\* Entries are taken after those before them.
LEMMA InfoTakesJoin ==
  ASSUME NEW c, NEW x, NEW es \in Seq(WireEntries), NEW fs \in Seq(WireEntries)
  PROVE  InfoAllTaken(c, x, es \o fs) = InfoAllTaken(c, InfoAllTaken(c, x, es), fs)
<1> PICK m \in Nat, n \in Nat : m = Len(es) /\ n = Len(fs)
  OBVIOUS
<1> PICK mn \in Nat : mn = m + n
  OBVIOUS
<1> PICK y : y = InfoAllTaken(c, x, es)
  OBVIOUS
<1> PICK gs : gs = es \o fs
  OBVIOUS
<1>1. /\ mn = Len(gs)
      /\ \A i \in 1 .. m + n : gs[i] = IF i <= m THEN es[i] ELSE fs[i - m]
  BY ConcatProperties
<1> PICK f : InfoOneByOne(c, x, es, m, f)
  BY ONLY m \in Nat, m = Len(es), InfoTakesUnfold
<1>2. f[0] = x /\ y = f[m] /\ \A i \in 1 .. m : f[i] = TakeInfo(c, f[i - 1], es[i])
  BY ONLY InfoOneByOne(c, x, es, m, f), y = InfoAllTaken(c, x, es) DEF InfoOneByOne
<1> PICK g : InfoOneByOne(c, y, fs, n, g)
  BY ONLY n \in Nat, n = Len(fs), InfoTakesUnfold
<1>3. g[0] = y /\ InfoAllTaken(c, y, fs) = g[n] /\ \A i \in 1 .. n : g[i] = TakeInfo(c, g[i - 1], fs[i])
  BY ONLY InfoOneByOne(c, y, fs, n, g) DEF InfoOneByOne
<1> PICK h : InfoOneByOne(c, x, gs, mn, h)
  BY ONLY mn \in Nat, <1>1, InfoTakesUnfold
<1>4. /\ h[0] = x /\ InfoAllTaken(c, x, gs) = h[m + n]
      /\ \A i \in 1 .. m + n : h[i] = TakeInfo(c, h[i - 1], gs[i])
  BY ONLY InfoOneByOne(c, x, gs, mn, h), mn = m + n DEF InfoOneByOne
<1> DEFINE P == {k \in Nat : k <= m => h[k] = f[k]}
           Q == {k \in Nat : k <= n => h[m + k] = g[k]}
<1>5. 0 \in P
  BY <1>2, <1>4
<1>6. ASSUME NEW k \in Nat, k \in P PROVE k + 1 \in P
  <2> SUFFICES ASSUME k + 1 <= m PROVE h[k + 1] = f[k + 1]
    BY k + 1 \in Nat
  <2>1. k + 1 \in 1 .. m + n /\ k + 1 \in 1 .. m /\ (k + 1) - 1 = k /\ k <= m
    BY ONLY k \in Nat, m \in Nat, n \in Nat, k + 1 <= m
  <2>2. h[k + 1] = TakeInfo(c, h[(k + 1) - 1], gs[k + 1])
    BY ONLY <1>4, <2>1
  <2>3. f[k + 1] = TakeInfo(c, f[(k + 1) - 1], es[k + 1])
    BY ONLY <1>2, <2>1
  <2>4. gs[k + 1] = es[k + 1]
    BY ONLY <1>1, <2>1
  <2>5. h[k] = f[k]
    BY <1>6, <2>1
  <2> QED BY ONLY <2>1, <2>2, <2>3, <2>4, <2>5
<1>7. h[m] = y
  <2>1. Nat \subseteq P
    <3> HIDE DEF P
    <3>1. \A k \in Nat : k \in P => k + 1 \in P
      BY <1>6
    <3> QED BY ONLY <1>5, <3>1, NatSetInduction
  <2>2. m \in P
    BY ONLY <2>1, m \in Nat
  <2>3. m <= m => h[m] = f[m]
    BY ONLY <2>2
  <2>4. m <= m
    BY ONLY m \in Nat
  <2> QED BY ONLY <1>2, <2>3, <2>4
<1>8. 0 \in Q
  <2>1. m + 0 = m
    OBVIOUS
  <2>2. h[m + 0] = g[0]
    BY ONLY <1>3, <1>7, <2>1
  <2> QED BY ONLY <2>2, n \in Nat
<1>9. ASSUME NEW k \in Nat, k \in Q PROVE k + 1 \in Q
  <2> SUFFICES ASSUME k + 1 <= n PROVE h[m + (k + 1)] = g[k + 1]
    BY k + 1 \in Nat
  <2>1. /\ m + (k + 1) \in 1 .. m + n /\ (m + (k + 1)) - 1 = m + k /\ ~(m + (k + 1) <= m)
        /\ (m + (k + 1)) - m = k + 1 /\ k + 1 \in 1 .. n /\ (k + 1) - 1 = k /\ k <= n
    BY ONLY k \in Nat, m \in Nat, n \in Nat, k + 1 <= n
  <2>2. h[m + (k + 1)] = TakeInfo(c, h[(m + (k + 1)) - 1], gs[m + (k + 1)])
    BY ONLY <1>4, <2>1
  <2>3. gs[m + (k + 1)] = fs[k + 1]
    BY ONLY <1>1, <2>1
  <2>4. g[k + 1] = TakeInfo(c, g[(k + 1) - 1], fs[k + 1])
    BY ONLY <1>3, <2>1
  <2>5. h[m + k] = g[k]
    BY <1>9, <2>1
  <2> QED BY ONLY <2>1, <2>2, <2>3, <2>4, <2>5
<1>10. h[m + n] = g[n]
  <2>1. Nat \subseteq Q
    <3> HIDE DEF Q
    <3>1. \A k \in Nat : k \in Q => k + 1 \in Q
      BY <1>9
    <3> QED BY ONLY <1>8, <3>1, NatSetInduction
  <2>2. n \in Q
    BY ONLY <2>1, n \in Nat
  <2>3. n <= n => h[m + n] = g[n]
    BY ONLY <2>2
  <2>4. n <= n
    BY ONLY n \in Nat
  <2> QED BY ONLY <2>3, <2>4
<1> HIDE DEF P, Q
<1> QED BY ONLY <1>3, <1>4, <1>10, gs = es \o fs, y = InfoAllTaken(c, x, es)

\* Reading the bytes s makes the inner message y of the inner message x.
InfoMoves(c, s, x, y) ==
  \E es \in Seq(WireEntries) : s = BytesOf(es) /\ InfoAllTaken(c, x, es) = y

\* No bytes change nothing.
LEMMA InfoMovesNone ==
  ASSUME NEW c, NEW x
  PROVE  InfoMoves(c, <<>>, x, x)
<1> PICK es \in Seq(WireEntries), n \in Nat : es = <<>> /\ n = 0 /\ n = Len(es)
  <2>1. <<>> \in Seq(WireEntries) /\ Len(<<>>) = 0
    BY ONLY EmptySeq
  <2> QED BY <2>1
<1> PICK f : InfoOneByOne(c, x, es, n, f)
  BY ONLY n \in Nat, n = Len(es), InfoTakesUnfold
<1>1. InfoAllTaken(c, x, es) = x
  BY DEF InfoOneByOne
<1>2. <<>> = BytesOf(es)
  BY BytesOfFew
<1> QED BY ONLY <1>1, <1>2, es \in Seq(WireEntries) DEF InfoMoves

\* The bytes of one entry.
LEMMA InfoMovesOne ==
  ASSUME NEW c, NEW x, NEW e \in WireEntries
  PROVE  InfoMoves(c, EntryBytes(e), x, TakeInfo(c, x, e))
<1>1. <<e>> \in Seq(WireEntries) /\ Len(<<e>>) = 1 /\ <<e>>[1] = e
  BY OneIsSeq
<1> PICK es : es = <<e>>
  OBVIOUS
<1> PICK n \in Nat : n = 1
  OBVIOUS
<1>2. es \in Seq(WireEntries) /\ n = Len(es) /\ es[1] = e
  BY ONLY <1>1, es = <<e>>, n = 1
<1> PICK f : InfoOneByOne(c, x, es, n, f)
  BY ONLY <1>2, n \in Nat, InfoTakesUnfold
<1>3. f[0] = x /\ InfoAllTaken(c, x, es) = f[1] /\ \A i \in 1 .. 1 : f[i] = TakeInfo(c, f[i - 1], es[i])
  BY DEF InfoOneByOne
<1>4. InfoAllTaken(c, x, es) = TakeInfo(c, x, e)
  <2>1. 1 \in 1 .. 1 /\ 1 - 1 = 0
    OBVIOUS
  <2> QED BY ONLY <1>2, <1>3, <2>1
<1>5. EntryBytes(e) = BytesOf(es)
  BY BytesOfFew
<1> QED BY ONLY <1>2, <1>4, <1>5 DEF InfoMoves

\* Bytes behind bytes.
LEMMA InfoMovesOn ==
  ASSUME NEW c, NEW s, NEW t, NEW x, NEW y, NEW z, InfoMoves(c, s, x, y), InfoMoves(c, t, y, z)
  PROVE  InfoMoves(c, s \o t, x, z)
<1> PICK es \in Seq(WireEntries) : s = BytesOf(es) /\ InfoAllTaken(c, x, es) = y
  BY DEF InfoMoves
<1> PICK fs \in Seq(WireEntries) : t = BytesOf(fs) /\ InfoAllTaken(c, y, fs) = z
  BY DEF InfoMoves
<1>1. es \o fs \in Seq(WireEntries)
  BY ConcatProperties
<1>2. BytesOf(es \o fs) = s \o t
  BY BytesJoin
<1>3. InfoAllTaken(c, x, es \o fs) = z
  BY InfoTakesJoin
<1> QED BY ONLY <1>1, <1>2, <1>3 DEF InfoMoves

\* What ReadInfo does with the bytes.
LEMMA InfoMovesRead ==
  ASSUME NEW c, NEW s, NEW x, NEW y, InfoMoves(c, s, x, y)
  PROVE  s \in Seq(Nat) /\ ReadInfo(c, x, s) = [ok |-> TRUE, m |-> y]
<1> PICK es \in Seq(WireEntries) : s = BytesOf(es) /\ InfoAllTaken(c, x, es) = y
  BY DEF InfoMoves
<1>1. s \in Seq(Nat) /\ Entries(s) = [ok |-> TRUE, list |-> es]
  BY EntriesOfBytes
<1>2. ReadInfo(c, x, s) = [ok |-> Entries(s).ok, m |-> InfoAllTaken(c, x, Entries(s).list)]
  BY DEF ReadInfo, InfoAllTaken
<1> QED BY <1>1, <1>2

\* An inner message after entries have been read into it one by one.
AllTaken(c, x, es) ==
  LET after[i \in 0 .. Len(es)] == IF i = 0 THEN x ELSE Take(c, after[i - 1], es[i])
  IN  after[Len(es)]

\* f has the messages after the first entries of es.
Takes(c, x, es, n, f) == f = [i \in 0 .. n |-> IF i = 0 THEN x ELSE Take(c, f[i - 1], es[i])]

\* The same, up to the last of n entries.
TakenOneByOne(c, x, es, n, f) ==
  /\ f[0] = x /\ AllTaken(c, x, es) = f[n]
  /\ \A i \in 1 .. n : f[i] = Take(c, f[i - 1], es[i])

\* Entries are taken one by one.
LEMMA TakesUnfold ==
  ASSUME NEW c, NEW x, NEW n \in Nat, NEW es, n = Len(es)
  PROVE  \E f : TakenOneByOne(c, x, es, n, f)
<1> DEFINE P == {k \in Nat : \E f : Takes(c, x, es, k, f)}
<1>1. 0 \in P
  <2> PICK f : f = [i \in 0 .. 0 |-> x]
    OBVIOUS
  <2>1. Takes(c, x, es, 0, f)
    BY DEF Takes
  <2> QED BY <2>1
<1>2. ASSUME NEW k \in Nat, k \in P PROVE k + 1 \in P
  <2> PICK f : Takes(c, x, es, k, f)
    BY <1>2
  <2>1. \A i \in 0 .. k : f[i] = IF i = 0 THEN x ELSE Take(c, f[i - 1], es[i])
    BY DEF Takes
  <2> PICK y : y = Take(c, f[k], es[k + 1])
    OBVIOUS
  <2> PICK g : g = [i \in 0 .. k + 1 |-> IF i = k + 1 THEN y ELSE f[i]]
    OBVIOUS
  <2>2. ASSUME NEW i \in 0 .. k + 1 PROVE g[i] = IF i = 0 THEN x ELSE Take(c, g[i - 1], es[i])
    <3>1. CASE i = k + 1
      <4>1. g[i] = y /\ k \in 0 .. k + 1 /\ i - 1 = k /\ g[k] = f[k] /\ i # 0
        BY <3>1
      <4> QED BY <3>1, <4>1
    <3>2. CASE i # k + 1
      <4>1. i \in 0 .. k /\ g[i] = f[i] /\ (i # 0 => i - 1 \in 0 .. k /\ g[i - 1] = f[i - 1])
        BY <3>2
      <4> QED BY <2>1, <4>1
    <3> QED BY <3>1, <3>2
  <2>3. g = [i \in 0 .. k + 1 |-> IF i = 0 THEN x ELSE Take(c, g[i - 1], es[i])]
    <3>1. g = [i \in 0 .. k + 1 |-> g[i]]
      OBVIOUS
    <3> QED BY <2>2, <3>1
  <2>4. Takes(c, x, es, k + 1, g)
    BY <2>3 DEF Takes
  <2> QED BY <2>4
<1>3. n \in P
  <2> HIDE DEF P
  <2>1. \A k \in Nat : k \in P => k + 1 \in P
    BY <1>2
  <2>2. Nat \subseteq P
    BY ONLY <1>1, <2>1, NatSetInduction
  <2> QED BY <2>2
<1> PICK f : Takes(c, x, es, n, f)
  BY <1>3
<1> HIDE DEF P
<1> DEFINE Whole(u) == u = [i \in 0 .. Len(es) |-> IF i = 0 THEN x ELSE Take(c, u[i - 1], es[i])]
<1>4. \E u : Whole(u)
  <2>1. f = [i \in 0 .. Len(es) |-> IF i = 0 THEN x ELSE Take(c, f[i - 1], es[i])]
    BY DEF Takes
  <2> QED BY <2>1
<1>5. AllTaken(c, x, es) = (CHOOSE u : Whole(u))[Len(es)]
  BY DEF AllTaken
<1> PICK u : Whole(u) /\ AllTaken(c, x, es) = u[n]
  BY <1>4, <1>5
<1>6. \A i \in 0 .. n : u[i] = IF i = 0 THEN x ELSE Take(c, u[i - 1], es[i])
  OBVIOUS
<1> HIDE DEF Whole
<1>7. u[0] = x /\ \A i \in 1 .. n : u[i] = Take(c, u[i - 1], es[i])
  BY <1>6
<1> QED BY <1>7 DEF TakenOneByOne

\* Entries are taken after those before them.
LEMMA TakesJoin ==
  ASSUME NEW c, NEW x, NEW es \in Seq(WireEntries), NEW fs \in Seq(WireEntries)
  PROVE  AllTaken(c, x, es \o fs) = AllTaken(c, AllTaken(c, x, es), fs)
<1> PICK m \in Nat, n \in Nat : m = Len(es) /\ n = Len(fs)
  OBVIOUS
<1> PICK mn \in Nat : mn = m + n
  OBVIOUS
<1> PICK y : y = AllTaken(c, x, es)
  OBVIOUS
<1> PICK gs : gs = es \o fs
  OBVIOUS
<1>1. /\ mn = Len(gs)
      /\ \A i \in 1 .. m + n : gs[i] = IF i <= m THEN es[i] ELSE fs[i - m]
  BY ConcatProperties
<1> PICK f : TakenOneByOne(c, x, es, m, f)
  BY ONLY m \in Nat, m = Len(es), TakesUnfold
<1>2. f[0] = x /\ y = f[m] /\ \A i \in 1 .. m : f[i] = Take(c, f[i - 1], es[i])
  BY ONLY TakenOneByOne(c, x, es, m, f), y = AllTaken(c, x, es) DEF TakenOneByOne
<1> PICK g : TakenOneByOne(c, y, fs, n, g)
  BY ONLY n \in Nat, n = Len(fs), TakesUnfold
<1>3. g[0] = y /\ AllTaken(c, y, fs) = g[n] /\ \A i \in 1 .. n : g[i] = Take(c, g[i - 1], fs[i])
  BY ONLY TakenOneByOne(c, y, fs, n, g) DEF TakenOneByOne
<1> PICK h : TakenOneByOne(c, x, gs, mn, h)
  BY ONLY mn \in Nat, <1>1, TakesUnfold
<1>4. /\ h[0] = x /\ AllTaken(c, x, gs) = h[m + n]
      /\ \A i \in 1 .. m + n : h[i] = Take(c, h[i - 1], gs[i])
  BY ONLY TakenOneByOne(c, x, gs, mn, h), mn = m + n DEF TakenOneByOne
<1> DEFINE P == {k \in Nat : k <= m => h[k] = f[k]}
           Q == {k \in Nat : k <= n => h[m + k] = g[k]}
<1>5. 0 \in P
  BY <1>2, <1>4
<1>6. ASSUME NEW k \in Nat, k \in P PROVE k + 1 \in P
  <2> SUFFICES ASSUME k + 1 <= m PROVE h[k + 1] = f[k + 1]
    BY k + 1 \in Nat
  <2>1. k + 1 \in 1 .. m + n /\ k + 1 \in 1 .. m /\ (k + 1) - 1 = k /\ k <= m
    BY ONLY k \in Nat, m \in Nat, n \in Nat, k + 1 <= m
  <2>2. h[k + 1] = Take(c, h[(k + 1) - 1], gs[k + 1])
    BY ONLY <1>4, <2>1
  <2>3. f[k + 1] = Take(c, f[(k + 1) - 1], es[k + 1])
    BY ONLY <1>2, <2>1
  <2>4. gs[k + 1] = es[k + 1]
    BY ONLY <1>1, <2>1
  <2>5. h[k] = f[k]
    BY <1>6, <2>1
  <2> QED BY ONLY <2>1, <2>2, <2>3, <2>4, <2>5
<1>7. h[m] = y
  <2>1. Nat \subseteq P
    <3> HIDE DEF P
    <3>1. \A k \in Nat : k \in P => k + 1 \in P
      BY <1>6
    <3> QED BY ONLY <1>5, <3>1, NatSetInduction
  <2>2. m \in P
    BY ONLY <2>1, m \in Nat
  <2>3. m <= m => h[m] = f[m]
    BY ONLY <2>2
  <2>4. m <= m
    BY ONLY m \in Nat
  <2> QED BY ONLY <1>2, <2>3, <2>4
<1>8. 0 \in Q
  <2>1. m + 0 = m
    OBVIOUS
  <2>2. h[m + 0] = g[0]
    BY ONLY <1>3, <1>7, <2>1
  <2> QED BY ONLY <2>2, n \in Nat
<1>9. ASSUME NEW k \in Nat, k \in Q PROVE k + 1 \in Q
  <2> SUFFICES ASSUME k + 1 <= n PROVE h[m + (k + 1)] = g[k + 1]
    BY k + 1 \in Nat
  <2>1. /\ m + (k + 1) \in 1 .. m + n /\ (m + (k + 1)) - 1 = m + k /\ ~(m + (k + 1) <= m)
        /\ (m + (k + 1)) - m = k + 1 /\ k + 1 \in 1 .. n /\ (k + 1) - 1 = k /\ k <= n
    BY ONLY k \in Nat, m \in Nat, n \in Nat, k + 1 <= n
  <2>2. h[m + (k + 1)] = Take(c, h[(m + (k + 1)) - 1], gs[m + (k + 1)])
    BY ONLY <1>4, <2>1
  <2>3. gs[m + (k + 1)] = fs[k + 1]
    BY ONLY <1>1, <2>1
  <2>4. g[k + 1] = Take(c, g[(k + 1) - 1], fs[k + 1])
    BY ONLY <1>3, <2>1
  <2>5. h[m + k] = g[k]
    BY <1>9, <2>1
  <2> QED BY ONLY <2>1, <2>2, <2>3, <2>4, <2>5
<1>10. h[m + n] = g[n]
  <2>1. Nat \subseteq Q
    <3> HIDE DEF Q
    <3>1. \A k \in Nat : k \in Q => k + 1 \in Q
      BY <1>9
    <3> QED BY ONLY <1>8, <3>1, NatSetInduction
  <2>2. n \in Q
    BY ONLY <2>1, n \in Nat
  <2>3. n <= n => h[m + n] = g[n]
    BY ONLY <2>2
  <2>4. n <= n
    BY ONLY n \in Nat
  <2> QED BY ONLY <2>3, <2>4
<1> HIDE DEF P, Q
<1> QED BY ONLY <1>3, <1>4, <1>10, gs = es \o fs, y = AllTaken(c, x, es)

\* Reading the bytes s makes the inner message y of the inner message x.
Moves(c, s, x, y) ==
  \E es \in Seq(WireEntries) : s = BytesOf(es) /\ AllTaken(c, x, es) = y

\* Bytes behind bytes.
LEMMA MovesOn ==
  ASSUME NEW c, NEW s, NEW t, NEW x, NEW y, NEW z, Moves(c, s, x, y), Moves(c, t, y, z)
  PROVE  Moves(c, s \o t, x, z)
<1> PICK es \in Seq(WireEntries) : s = BytesOf(es) /\ AllTaken(c, x, es) = y
  BY DEF Moves
<1> PICK fs \in Seq(WireEntries) : t = BytesOf(fs) /\ AllTaken(c, y, fs) = z
  BY DEF Moves
<1>1. es \o fs \in Seq(WireEntries)
  BY ConcatProperties
<1>2. BytesOf(es \o fs) = s \o t
  BY BytesJoin
<1>3. AllTaken(c, x, es \o fs) = z
  BY TakesJoin
<1> QED BY ONLY <1>1, <1>2, <1>3 DEF Moves

\* What Read does with the bytes.
LEMMA MovesRead ==
  ASSUME NEW c, NEW s, NEW x, NEW y, Moves(c, s, [ok |-> TRUE, m |-> x], y)
  PROVE  s \in Seq(Nat) /\ Read(c, x, s) = y
<1> PICK es \in Seq(WireEntries) : s = BytesOf(es) /\ AllTaken(c, [ok |-> TRUE, m |-> x], es) = y
  BY DEF Moves
<1>1. s \in Seq(Nat) /\ Entries(s) = [ok |-> TRUE, list |-> es]
  BY EntriesOfBytes
<1>2. Read(c, x, s) = AllTaken(c, [ok |-> Entries(s).ok, m |-> x], Entries(s).list)
  BY DEF Read, AllTaken
<1> QED BY <1>1, <1>2

\* The kinds of the fields of the inner classes.
ScalarKinds == {"string", "number", "bool", "BaseCommandId", "TermCommandId"}

\* A value comes back from its bytes.
LEMMA ScalarReturns ==
  ASSUME NEW kind \in ScalarKinds, NEW v \in ScalarValues(kind)
  PROVE  /\ ScalarBytes(kind, v) \in Seq(Nat)
         /\ WireType(kind) \in {0, 2} /\ (WireType(kind) = 0 => Len(ScalarBytes(kind, v)) = 1)
         /\ ScalarOf(kind, ScalarBytes(kind, v)) = v
         /\ kind = "BaseCommandId" => BaseCommandId_IsValid(ScalarBytes(kind, v)[1])
         /\ kind = "TermCommandId" => TermCommandId_IsValid(ScalarBytes(kind, v)[1])
         /\ Len(ScalarBytes(kind, v)) = IF kind = "string" THEN Len(v) ELSE 1
         /\ WireType(kind) = IF kind = "string" THEN 2 ELSE 0
<1>1. CASE kind = "string"
  <2>1. v \in Seq(Nat) /\ ScalarBytes(kind, v) = v /\ WireType(kind) = 2
    BY <1>1 DEF ScalarValues, ScalarBytes, WireType
  <2> QED BY <1>1, <2>1 DEF ScalarOf
<1>2. CASE kind # "string"
  <2>1. v \in Nat /\ ScalarBytes(kind, v) = <<v>> /\ WireType(kind) = 0
    <3>1. v \in Nat
      BY <1>2 DEF ScalarKinds, ScalarValues
    <3>2. kind \notin {"string", "message", "repeated"}
      BY <1>2 DEF ScalarKinds
    <3> QED BY <1>2, <3>1, <3>2 DEF ScalarBytes, WireType
  <2>2. <<v>> \in Seq(Nat) /\ Len(<<v>>) = 1 /\ <<v>>[1] = v
    BY <2>1, OneIsSeq
  <2>3. ScalarOf(kind, <<v>>) = v
    <3>1. CASE kind = "bool"
      <4>1. v \in {0, 1}
        BY <3>1 DEF ScalarValues
      <4> QED BY <2>2, <3>1, <4>1 DEF ScalarOf
    <3>2. CASE kind # "bool"
      BY <1>2, <2>2, <3>2 DEF ScalarOf
    <3> QED BY <3>1, <3>2
  <2>4. kind = "BaseCommandId" => BaseCommandId_IsValid(v)
    BY DEF ScalarValues, BaseCommandId_IsValid
  <2>5. kind = "TermCommandId" => TermCommandId_IsValid(v)
    BY DEF ScalarValues, TermCommandId_IsValid
  <2> QED BY ONLY <1>2, <2>1, <2>2, <2>3, <2>4, <2>5
<1> QED BY <1>1, <1>2

\* A class whose methods agree on its fields, all of them scalar.
InnerClass(c) ==
  /\ c.written \in Seq(Nat \ {0})
  /\ DOMAIN c.read = {c.written[i] : i \in 1 .. Len(c.written)}
  /\ \A i, j \in 1 .. Len(c.written) : c.written[i] = c.written[j] => i = j
  /\ c.merged = DOMAIN c.read
  /\ \A n \in DOMAIN c.read : c.read[n] \in ScalarKinds

\* A message of such a class.
IsInfo(c, m) ==
  /\ m = [f |-> m.f, unknown |-> m.unknown]
  /\ m.f = [n \in DOMAIN m.f |-> m.f[n]]
  /\ DOMAIN m.f \subseteq DOMAIN c.read
  /\ \A n \in DOMAIN m.f : m.f[n] \in ScalarValues(c.read[n])
  /\ m.unknown \in Seq(WireEntries)
  /\ \A i \in 1 .. Len(m.unknown) : ~Understood(c, m.unknown[i])

\* A message with a part that is a function, and entries not understood.
IsMessage(m) ==
  /\ m = [f |-> m.f, unknown |-> m.unknown]
  /\ m.f = [n \in DOMAIN m.f |-> m.f[n]]
  /\ m.unknown \in Seq(WireEntries)

\* The entry of a field that is present.
FieldEntry(c, m, n) == [num |-> n, wire |-> WireType(c.read[n]), val |-> ScalarBytes(c.read[n], m.f[n])]

\* The entry of a field of an inner message is one its class understands, and brings the value back.
LEMMA FieldEntryIs ==
  ASSUME NEW c, InnerClass(c), NEW b, IsInfo(c, b), NEW n \in DOMAIN b.f
  PROVE  /\ FieldEntry(c, b, n) \in WireEntries
         /\ Understood(c, FieldEntry(c, b, n))
         /\ InfoFieldBytes(c, b, n) = EntryBytes(FieldEntry(c, b, n))
         /\ ScalarOf(c.read[n], FieldEntry(c, b, n).val) = b.f[n]
         /\ FieldEntry(c, b, n).num = n
<1> PICK kind, v, e : kind = c.read[n] /\ v = b.f[n] /\ e = FieldEntry(c, b, n)
  OBVIOUS
<1>1. n \in DOMAIN c.read /\ n \in Nat \ {0}
  BY DEF InnerClass, IsInfo
<1>2. kind \in ScalarKinds /\ v \in ScalarValues(kind)
  BY <1>1 DEF InnerClass, IsInfo
<1> PICK y : y = ScalarBytes(kind, v)
  OBVIOUS
<1>3. /\ y \in Seq(Nat) /\ WireType(kind) \in {0, 2} /\ (WireType(kind) = 0 => Len(y) = 1)
      /\ ScalarOf(kind, y) = v
      /\ kind = "BaseCommandId" => BaseCommandId_IsValid(y[1])
      /\ kind = "TermCommandId" => TermCommandId_IsValid(y[1])
  BY ONLY <1>2, y = ScalarBytes(kind, v), ScalarReturns
<1>4. e = [num |-> n, wire |-> WireType(kind), val |-> y]
  BY DEF FieldEntry
<1>5. e.num = n /\ e.wire = WireType(kind) /\ e.val = y
  BY ONLY <1>4
<1>6. e \in WireEntries
  BY ONLY <1>1, <1>3, <1>4, <1>5 DEF WireEntries
<1>7. Understood(c, e)
  BY ONLY <1>1, <1>3, <1>5, kind = c.read[n] DEF Understood
<1>8. InfoFieldBytes(c, b, n) = EntryBytes(e)
  BY <1>4 DEF InfoFieldBytes, Present
<1> QED BY <1>3, <1>5, <1>6, <1>7, <1>8

\* One part of a message replaced.
LEMMA MessageExcept ==
  ASSUME NEW p, NEW q, NEW r
  PROVE  /\ [[f |-> p, unknown |-> q] EXCEPT !.f = r] = [f |-> r, unknown |-> q]
         /\ [[f |-> p, unknown |-> q] EXCEPT !.unknown = r] = [f |-> p, unknown |-> r]
OBVIOUS

\* a after the first k fields of b have been read into it.
InfoUpto(c, a, b, k) ==
  LET taken == {c.written[i] : i \in 1 .. k} \cap DOMAIN b.f
  IN  [f |-> [n \in DOMAIN a.f \cup taken |-> IF n \in taken THEN b.f[n] ELSE a.f[n]],
       unknown |-> a.unknown]

\* One field more.
LEMMA InfoFieldMoves ==
  ASSUME NEW c, InnerClass(c), NEW b, IsInfo(c, b), NEW a, IsMessage(a),
         NEW k \in Nat, NEW l \in Nat, l = k + 1, l <= Len(c.written)
  PROVE  InfoMoves(c, InfoFieldBytes(c, b, c.written[l]), InfoUpto(c, a, b, k), InfoUpto(c, a, b, l))
<1> PICK n : n = c.written[l]
  OBVIOUS
<1>1. {c.written[i] : i \in 1 .. l} = {c.written[i] : i \in 1 .. k} \cup {n}
  <2>1. \A i \in 1 .. l : i \in 1 .. k \/ i = l
    OBVIOUS
  <2>2. \A i \in 1 .. k : i \in 1 .. l
    OBVIOUS
  <2>3. l \in 1 .. l
    OBVIOUS
  <2> QED BY ONLY <2>1, <2>2, <2>3, n = c.written[l]
<1> PICK old, new : old = {c.written[i] : i \in 1 .. k} \cap DOMAIN b.f
                    /\ new = {c.written[i] : i \in 1 .. l} \cap DOMAIN b.f
  OBVIOUS
<1> PICK x, y : x = InfoUpto(c, a, b, k) /\ y = InfoUpto(c, a, b, l)
  OBVIOUS
<1>2. /\ x = [f |-> [j \in DOMAIN a.f \cup old |-> IF j \in old THEN b.f[j] ELSE a.f[j]], unknown |-> a.unknown]
      /\ y = [f |-> [j \in DOMAIN a.f \cup new |-> IF j \in new THEN b.f[j] ELSE a.f[j]], unknown |-> a.unknown]
  BY DEF InfoUpto
<1>3. CASE n \notin DOMAIN b.f
  <2>1. InfoFieldBytes(c, b, n) = <<>>
    BY <1>3 DEF InfoFieldBytes, Present
  <2>2. old = new
    BY <1>1, <1>3
  <2>3. x = y
    BY ONLY <1>2, <2>2
  <2>4. InfoMoves(c, <<>>, x, x)
    BY ONLY InfoMovesNone
  <2> QED BY <2>1, <2>3, <2>4
<1>4. CASE n \in DOMAIN b.f
  <2> PICK e : e = FieldEntry(c, b, n)
    OBVIOUS
  <2>1. /\ e \in WireEntries /\ Understood(c, e) /\ InfoFieldBytes(c, b, n) = EntryBytes(e)
        /\ ScalarOf(c.read[n], e.val) = b.f[n] /\ e.num = n
    BY <1>4, FieldEntryIs
  <2>2. TakeInfo(c, x, e) = SetField(x, n, b.f[n])
    BY ONLY <2>1 DEF TakeInfo
  <2>3. new = old \cup {n}
    BY <1>1, <1>4
  <2>4. SetField(x, n, b.f[n]) = y
    <3> PICK v : v = b.f[n]
      OBVIOUS
    <3>1. x.f = [j \in DOMAIN a.f \cup old |-> IF j \in old THEN b.f[j] ELSE a.f[j]]
      BY ONLY <1>2
    <3>2. DOMAIN x.f = DOMAIN a.f \cup old
      BY ONLY <3>1
    <3> PICK g : g = [j \in DOMAIN x.f \cup {n} |-> IF j = n THEN v ELSE x.f[j]]
      OBVIOUS
    <3>3. g = [j \in DOMAIN a.f \cup new |-> IF j \in new THEN b.f[j] ELSE a.f[j]]
      <4>1. DOMAIN x.f \cup {n} = DOMAIN a.f \cup new
        BY ONLY <2>3, <3>2
      <4>2. ASSUME NEW j \in DOMAIN x.f \cup {n}
            PROVE  (IF j = n THEN v ELSE x.f[j]) = (IF j \in new THEN b.f[j] ELSE a.f[j])
        BY ONLY <2>3, <3>1, <3>2, j \in DOMAIN x.f \cup {n}, v = b.f[n]
      <4> QED BY ONLY <4>1, <4>2, g = [j \in DOMAIN x.f \cup {n} |-> IF j = n THEN v ELSE x.f[j]]
    <3>4. SetField(x, n, v) = [x EXCEPT !.f = g]
      BY ONLY g = [j \in DOMAIN x.f \cup {n} |-> IF j = n THEN v ELSE x.f[j]] DEF SetField
    <3>5. [x EXCEPT !.f = g] = [f |-> g, unknown |-> a.unknown]
      <4> PICK p, q : x = [f |-> p, unknown |-> q] /\ q = a.unknown
        BY ONLY <1>2
      <4> QED BY ONLY x = [f |-> p, unknown |-> q], q = a.unknown, MessageExcept
    <3> QED BY ONLY <1>2, <3>3, <3>4, <3>5, v = b.f[n]
  <2>5. InfoMoves(c, EntryBytes(e), x, TakeInfo(c, x, e))
    BY ONLY <2>1, InfoMovesOne
  <2> QED BY <2>1, <2>2, <2>4, <2>5
<1> QED BY <1>3, <1>4

\* Entries that are not understood are kept behind those there are.
LEMMA InfoUnknownMoves ==
  ASSUME NEW c, NEW x, IsMessage(x), NEW us \in Seq(WireEntries),
         \A i \in 1 .. Len(us) : ~Understood(c, us[i])
  PROVE  InfoMoves(c, BytesOf(us), x, [f |-> x.f, unknown |-> x.unknown \o us])
<1> PICK n \in Nat : n = Len(us)
  OBVIOUS
<1> PICK f : InfoOneByOne(c, x, us, n, f)
  BY ONLY n \in Nat, n = Len(us), InfoTakesUnfold
<1>1. f[0] = x /\ InfoAllTaken(c, x, us) = f[n] /\ \A i \in 1 .. n : f[i] = TakeInfo(c, f[i - 1], us[i])
  BY ONLY InfoOneByOne(c, x, us, n, f) DEF InfoOneByOne
<1> PICK old \in Seq(WireEntries) : old = x.unknown
  BY DEF IsMessage
<1> DEFINE P == {k \in Nat : k <= n => f[k] = [f |-> x.f, unknown |-> old \o SubSeq(us, 1, k)]}
<1>2. 0 \in P
  <2>1. SubSeq(us, 1, 0) = <<>>
    BY SubSeqEmpty
  <2>2. old \o <<>> = old
    BY ONLY old \in Seq(WireEntries), ConcatEmptySeq
  <2>3. f[0] = [f |-> x.f, unknown |-> old \o SubSeq(us, 1, 0)]
    BY <1>1, <2>1, <2>2 DEF IsMessage
  <2> QED BY <2>3
<1>3. ASSUME NEW k \in Nat, k \in P PROVE k + 1 \in P
  <2> SUFFICES ASSUME k + 1 <= n
               PROVE  f[k + 1] = [f |-> x.f, unknown |-> old \o SubSeq(us, 1, k + 1)]
    BY k + 1 \in Nat
  <2>1. k + 1 \in 1 .. n /\ (k + 1) - 1 = k /\ k <= n
    BY ONLY k \in Nat, n \in Nat, k + 1 <= n
  <2> PICK e \in WireEntries : e = us[k + 1]
    BY <2>1
  <2>2. f[k + 1] = TakeInfo(c, f[(k + 1) - 1], us[k + 1])
    BY ONLY <1>1, <2>1
  <2>3. ~Understood(c, e)
    BY <2>1
  <2> PICK z : z = old \o SubSeq(us, 1, k)
    OBVIOUS
  <2>4. f[k] = [f |-> x.f, unknown |-> z]
    BY <1>3, <2>1
  <2>5. f[k + 1] = [f |-> x.f, unknown |-> Append(z, e)]
    <3>1. f[k + 1] = [f[k] EXCEPT !.unknown = Append(@, e)]
      BY ONLY <2>1, <2>2, <2>3, e = us[k + 1] DEF TakeInfo
    <3>2. f[k].unknown = z
      BY ONLY <2>4
    <3>3. f[k + 1] = [[f |-> x.f, unknown |-> z] EXCEPT !.unknown = Append(z, e)]
      BY ONLY <2>4, <3>1, <3>2
    <3> QED BY ONLY <3>3, MessageExcept
  <2>6. Append(z, e) = old \o SubSeq(us, 1, k + 1)
    <3> PICK p \in Seq(WireEntries) : p = SubSeq(us, 1, k)
      <4>1. \A i \in 1 .. k : us[i] \in WireEntries
        BY <2>1
      <4>2. k \in Int /\ 1 \in Int
        OBVIOUS
      <4>3. SubSeq(us, 1, k) \in Seq(WireEntries)
        BY ONLY <4>1, <4>2, SubSeqProperties
      <4> QED BY <4>3
    <3>1. SubSeq(us, 1, k + 1) = p \o <<e>>
      <4>1. 1 \in 1 .. Len(us) /\ k + 1 \in 1 .. Len(us)
        BY <2>1
      <4>2. SubSeq(us, 1, k + 1) = SubSeq(us, 1, (k + 1) - 1) \o <<us[k + 1]>>
        BY ONLY <4>1, us \in Seq(WireEntries), SubSeqRecursiveSecond
      <4> QED BY ONLY <2>1, <4>2, p = SubSeq(us, 1, k), e = us[k + 1]
    <3> PICK q \in Seq(WireEntries) : q = <<e>>
      BY OneIsSeq
    <3>2. (old \o p) \o q = old \o (p \o q)
      BY ONLY old \in Seq(WireEntries), p \in Seq(WireEntries), q \in Seq(WireEntries), ConcatAssociative
    <3>3. z = old \o p /\ z \in Seq(WireEntries)
      BY ConcatProperties
    <3>4. Append(z, e) = z \o <<e>>
      BY ONLY <3>3, e \in WireEntries
    <3> QED BY ONLY <3>1, <3>2, <3>3, <3>4, q = <<e>>
  <2> QED BY ONLY <2>5, <2>6
<1>4. n \in P
  <2> HIDE DEF P
  <2>1. \A k \in Nat : k \in P => k + 1 \in P
    BY <1>3
  <2>2. Nat \subseteq P
    BY ONLY <1>2, <2>1, NatSetInduction
  <2> QED BY <2>2
<1>5. n <= n => f[n] = [f |-> x.f, unknown |-> old \o SubSeq(us, 1, n)]
  BY ONLY <1>4
<1>6. n <= n
  BY ONLY n \in Nat
<1>7. SubSeq(us, 1, n) = us
  BY SubSeqFull
<1> HIDE DEF P
<1>8. InfoAllTaken(c, x, us) = [f |-> x.f, unknown |-> x.unknown \o us]
  BY ONLY <1>1, <1>5, <1>6, <1>7, old = x.unknown
<1> QED BY <1>8 DEF InfoMoves

\* What is written of the fields, and of the entries that were not understood.
LEMMA InfoPieces ==
  ASSUME NEW c, InnerClass(c), NEW b, IsInfo(c, b), NEW n \in Nat, n = Len(c.written)
  PROVE  \E ss \in Seq(Seq(Nat)) : /\ n = Len(ss)
                                   /\ \A i \in 1 .. n : ss[i] = InfoFieldBytes(c, b, c.written[i])
                                   /\ SerializeInfo(c, b) = FlattenSeq(ss) \o BytesOf(b.unknown)
<1> DEFINE x(i) == InfoFieldBytes(c, b, c.written[i])
<1> PICK ss : ss = [i \in 1 .. n |-> x(i)]
  OBVIOUS
<1>1. \A i \in 1 .. n : x(i) \in Seq(Nat)
  <2> SUFFICES ASSUME NEW i \in 1 .. n PROVE InfoFieldBytes(c, b, c.written[i]) \in Seq(Nat)
    OBVIOUS
  <2> PICK k : k = c.written[i]
    OBVIOUS
  <2>1. CASE k \in DOMAIN b.f
    <3> PICK e \in WireEntries : InfoFieldBytes(c, b, k) = EntryBytes(e)
      BY <2>1, FieldEntryIs
    <3> QED BY EntryIs
  <2>2. CASE k \notin DOMAIN b.f
    <3>1. InfoFieldBytes(c, b, k) = <<>>
      BY <2>2 DEF InfoFieldBytes, Present
    <3>2. <<>> \in Seq(Nat)
      BY ONLY EmptySeq
    <3> QED BY ONLY <3>1, <3>2, k = c.written[i]
  <2> QED BY <2>1, <2>2
<1>2. DOMAIN c.written = 1 .. n
  BY DEF InnerClass
<1>3. SerializeInfo(c, b) = FlattenSeq(ss) \o BytesOf(b.unknown)
  BY <1>2 DEF SerializeInfo, UnknownBytes, BytesOf
<1>4. \A i \in 1 .. n : ss[i] = InfoFieldBytes(c, b, c.written[i])
  BY DEF x
<1> HIDE DEF x
<1>5. ss \in Seq(Seq(Nat)) /\ n = Len(ss)
  BY <1>1
<1> QED BY <1>3, <1>4, <1>5

\* What an inner class writes, it reads as the message merged.
LEMMA InfoReads ==
  ASSUME NEW c, InnerClass(c), NEW b, IsInfo(c, b), NEW a, IsMessage(a)
  PROVE  InfoMoves(c, SerializeInfo(c, b), a, MergeInfo(c, a, b))
<1> PICK n \in Nat : n = Len(c.written)
  BY DEF InnerClass
<1> PICK ss \in Seq(Seq(Nat)) : /\ n = Len(ss)
                                /\ \A i \in 1 .. n : ss[i] = InfoFieldBytes(c, b, c.written[i])
                                /\ SerializeInfo(c, b) = FlattenSeq(ss) \o BytesOf(b.unknown)
  BY InfoPieces
<1> PICK flat : OneByOne(Nat, ss, n, flat)
  BY ONLY n \in Nat, ss \in Seq(Seq(Nat)), n = Len(ss), FlattenUnfolds
<1>1. /\ flat[0] = <<>> /\ FlattenSeq(ss) = flat[n]
      /\ \A i \in 1 .. n : flat[i] = flat[i - 1] \o ss[i]
  BY ONLY OneByOne(Nat, ss, n, flat) DEF OneByOne
<1> DEFINE P == {k \in Nat : k <= n => InfoMoves(c, flat[k], a, InfoUpto(c, a, b, k))}
<1>2. 0 \in P
  <2>1. InfoUpto(c, a, b, 0) = a
    <3>1. {c.written[i] : i \in 1 .. 0} \cap DOMAIN b.f = {}
      OBVIOUS
    <3>2. InfoUpto(c, a, b, 0) = [f |-> [j \in DOMAIN a.f |-> a.f[j]], unknown |-> a.unknown]
      BY <3>1 DEF InfoUpto
    <3> QED BY <3>2 DEF IsMessage
  <2>2. InfoMoves(c, <<>>, a, a)
    BY ONLY InfoMovesNone
  <2>3. InfoMoves(c, flat[0], a, InfoUpto(c, a, b, 0))
    BY ONLY <1>1, <2>1, <2>2
  <2> QED BY ONLY <2>3, n \in Nat
<1>3. ASSUME NEW k \in Nat, k \in P PROVE k + 1 \in P
  <2> SUFFICES ASSUME k + 1 <= n PROVE InfoMoves(c, flat[k + 1], a, InfoUpto(c, a, b, k + 1))
    BY k + 1 \in Nat
  <2> PICK l \in Nat : l = k + 1
    OBVIOUS
  <2>1. l \in 1 .. n /\ l - 1 = k /\ k <= n /\ l <= Len(c.written)
    BY ONLY k \in Nat, n \in Nat, k + 1 <= n, l = k + 1, n = Len(c.written)
  <2>2. InfoMoves(c, flat[k], a, InfoUpto(c, a, b, k))
    BY <1>3, <2>1
  <2>3. InfoMoves(c, InfoFieldBytes(c, b, c.written[l]), InfoUpto(c, a, b, k), InfoUpto(c, a, b, l))
    BY <2>1, InfoFieldMoves
  <2>4. flat[l] = flat[k] \o InfoFieldBytes(c, b, c.written[l])
    <3>1. flat[l] = flat[l - 1] \o ss[l]
      BY ONLY <1>1, <2>1
    <3>2. ss[l] = InfoFieldBytes(c, b, c.written[l])
      BY <2>1
    <3> QED BY ONLY <2>1, <3>1, <3>2
  <2>5. InfoMoves(c, flat[l], a, InfoUpto(c, a, b, l))
    BY ONLY <2>2, <2>3, <2>4, InfoMovesOn
  <2> QED BY ONLY <2>5, l = k + 1
<1>4. InfoMoves(c, flat[n], a, InfoUpto(c, a, b, n))
  <2>1. Nat \subseteq P
    <3> HIDE DEF P
    <3>1. \A k \in Nat : k \in P => k + 1 \in P
      BY <1>3
    <3> QED BY ONLY <1>2, <3>1, NatSetInduction
  <2>2. n \in P
    BY ONLY <2>1, n \in Nat
  <2>3. n <= n => InfoMoves(c, flat[n], a, InfoUpto(c, a, b, n))
    BY ONLY <2>2
  <2>4. n <= n
    BY ONLY n \in Nat
  <2> QED BY ONLY <2>3, <2>4
<1> HIDE DEF P
<1> PICK x : x = InfoUpto(c, a, b, n)
  OBVIOUS
<1> PICK taken : taken = c.merged \cap DOMAIN b.f
  OBVIOUS
<1>5. x = [f |-> [j \in DOMAIN a.f \cup taken |-> IF j \in taken THEN b.f[j] ELSE a.f[j]],
           unknown |-> a.unknown]
  <2>1. {c.written[i] : i \in 1 .. n} = c.merged
    BY DEF InnerClass
  <2> QED BY ONLY <2>1, x = InfoUpto(c, a, b, n), taken = c.merged \cap DOMAIN b.f DEF InfoUpto
<1>6. IsMessage(x)
  <2>1. a.unknown \in Seq(WireEntries)
    BY DEF IsMessage
  <2> QED BY ONLY <1>5, <2>1 DEF IsMessage
<1> PICK us : us = b.unknown
  OBVIOUS
<1>7. InfoMoves(c, BytesOf(us), x, [f |-> x.f, unknown |-> x.unknown \o us])
  <2>1. us \in Seq(WireEntries) /\ \A i \in 1 .. Len(us) : ~Understood(c, us[i])
    BY DEF IsInfo
  <2> QED BY ONLY <1>6, <2>1, InfoUnknownMoves
<1>8. [f |-> x.f, unknown |-> x.unknown \o us] = MergeInfo(c, a, b)
  <2>1. MergeInfo(c, a, b) = [f |-> [j \in DOMAIN a.f \cup taken |-> IF j \in taken THEN b.f[j] ELSE a.f[j]],
                              unknown |-> a.unknown \o us]
    BY ONLY taken = c.merged \cap DOMAIN b.f, us = b.unknown DEF MergeInfo
  <2>2. /\ x.f = [j \in DOMAIN a.f \cup taken |-> IF j \in taken THEN b.f[j] ELSE a.f[j]]
        /\ x.unknown = a.unknown
    BY ONLY <1>5
  <2> QED BY ONLY <2>1, <2>2
<1>9. InfoMoves(c, flat[n] \o BytesOf(us), a, [f |-> x.f, unknown |-> x.unknown \o us])
  BY ONLY <1>4, <1>7, x = InfoUpto(c, a, b, n), InfoMovesOn
<1>10. SerializeInfo(c, b) = flat[n] \o BytesOf(us)
  BY <1>1
<1> QED BY ONLY <1>8, <1>9, <1>10

\* What is put together is as long as its parts.
LEMMA FlattenLength ==
  ASSUME NEW S, NEW n \in Nat, NEW ss \in Seq(Seq(S)), n = Len(ss),
         NEW t \in Seq(Nat), n = Len(t), \A i \in 1 .. n : t[i] = Len(ss[i])
  PROVE  Len(FlattenSeq(ss)) = Total(t)
<1> PICK flat : OneByOne(S, ss, n, flat)
  BY ONLY n \in Nat, ss \in Seq(Seq(S)), n = Len(ss), FlattenUnfolds
<1>1. /\ flat[0] = <<>> /\ FlattenSeq(ss) = flat[n]
      /\ \A i \in 0 .. n : flat[i] \in Seq(S)
      /\ \A i \in 1 .. n : flat[i] = flat[i - 1] \o ss[i]
  BY ONLY OneByOne(S, ss, n, flat) DEF OneByOne
<1> PICK upto \in [0 .. n -> Nat] : /\ upto[0] = 0 /\ Total(t) = upto[n]
                                    /\ \A i \in 1 .. n : upto[i] = upto[i - 1] + t[i]
  BY TotalUnfolds
<1> DEFINE P == {k \in Nat : k <= n => Len(flat[k]) = upto[k]}
<1>2. 0 \in P
  <2>1. Len(flat[0]) = upto[0]
    BY <1>1
  <2> QED BY ONLY <2>1, n \in Nat
<1>3. ASSUME NEW k \in Nat, k \in P PROVE k + 1 \in P
  <2> SUFFICES ASSUME k + 1 <= n PROVE Len(flat[k + 1]) = upto[k + 1]
    BY k + 1 \in Nat
  <2>1. k + 1 \in 1 .. n /\ (k + 1) - 1 = k /\ k <= n /\ k \in 0 .. n
    BY ONLY k \in Nat, n \in Nat, k + 1 <= n
  <2> PICK x \in Seq(S), y \in Seq(S) : x = flat[k] /\ y = ss[k + 1]
    <3>1. flat[k] \in Seq(S)
      BY ONLY <1>1, <2>1
    <3>2. ss[k + 1] \in Seq(S)
      <4>1. \A i \in 1 .. n : ss[i] \in Seq(S)
        BY ONLY n \in Nat, ss \in Seq(Seq(S)), n = Len(ss)
      <4> QED BY ONLY <2>1, <4>1
    <3> QED BY ONLY <3>1, <3>2
  <2>2. flat[k + 1] = flat[(k + 1) - 1] \o ss[k + 1]
    BY ONLY <1>1, <2>1
  <2>3. Len(x \o y) = Len(x) + Len(y)
    BY ONLY x \in Seq(S), y \in Seq(S), ConcatProperties
  <2>4. upto[k + 1] = upto[(k + 1) - 1] + t[k + 1]
    BY <2>1
  <2>5. t[k + 1] = Len(y)
    BY <2>1
  <2>6. Len(x) = upto[k]
    BY <1>3, <2>1
  <2> QED BY ONLY <2>1, <2>2, <2>3, <2>4, <2>5, <2>6, x = flat[k], y = ss[k + 1]
<1>4. n \in P
  <2> HIDE DEF P
  <2>1. \A k \in Nat : k \in P => k + 1 \in P
    BY <1>3
  <2>2. Nat \subseteq P
    BY ONLY <1>2, <2>1, NatSetInduction
  <2> QED BY ONLY <2>2, n \in Nat
<1>5. n <= n => Len(flat[n]) = upto[n]
  BY ONLY <1>4
<1>6. n <= n
  BY ONLY n \in Nat
<1> HIDE DEF P
<1> QED BY <1>1, <1>5, <1>6

\* Nothing to begin with.
LEMMA FromZero == \A a \in Nat : 0 + a = a
OBVIOUS

\* Sums of as many numbers as the classes have fields.
LEMMA TotalOf4 ==
  ASSUME NEW s \in Seq(Nat), Len(s) = 4
  PROVE  Total(s) = s[1] + s[2] + s[3] + s[4]
<1> PICK n \in Nat : n = 4 /\ n = Len(s)
  OBVIOUS
<1> PICK upto \in [0 .. n -> Nat] : /\ upto[0] = 0 /\ Total(s) = upto[n]
                                    /\ \A i \in 1 .. n : upto[i] = upto[i - 1] + s[i]
  BY ONLY s \in Seq(Nat), n \in Nat, n = Len(s), TotalUnfolds
<1>1. \A i \in 1 .. n : i - 1 \in 0 .. n /\ i \in 0 .. n /\ upto[i] \in Nat /\ s[i] \in Nat
  BY ONLY n \in Nat, s \in Seq(Nat), n = Len(s), upto \in [0 .. n -> Nat]
<1>2. /\ 1 \in 1 .. n /\ 1 - 1 = 0 /\ 2 \in 1 .. n /\ 2 - 1 = 1 /\ 3 \in 1 .. n /\ 3 - 1 = 2 /\ 4 \in 1 .. n /\ 4 - 1 = 3
  BY ONLY n = 4
<1>3. /\ upto[1] = upto[1 - 1] + s[1] /\ upto[2] = upto[2 - 1] + s[2] /\ upto[3] = upto[3 - 1] + s[3] /\ upto[4] = upto[4 - 1] + s[4]
  BY ONLY <1>2, \A i \in 1 .. n : upto[i] = upto[i - 1] + s[i]
<1>4. /\ upto[1] = upto[0] + s[1] /\ upto[2] = upto[1] + s[2] /\ upto[3] = upto[2] + s[3] /\ upto[4] = upto[3] + s[4]
  BY ONLY <1>2, <1>3
<1>5. /\ s[1] \in Nat /\ upto[1] \in Nat /\ s[2] \in Nat /\ upto[2] \in Nat /\ s[3] \in Nat /\ upto[3] \in Nat /\ s[4] \in Nat /\ upto[4] \in Nat
  BY ONLY <1>1, <1>2
<1>6. upto[1] = s[1]
  BY ONLY <1>4, <1>5, upto[0] = 0, FromZero, Zenon
<1>7. upto[2] = s[1] + s[2]
  BY ONLY <1>4, <1>6, Zenon
<1>8. upto[3] = s[1] + s[2] + s[3]
  BY ONLY <1>4, <1>7, Zenon
<1>9. upto[4] = s[1] + s[2] + s[3] + s[4]
  BY ONLY <1>4, <1>8, Zenon
<1> QED BY ONLY <1>9, Total(s) = upto[n], n = 4, Zenon

\* Of eight numbers.
LEMMA TotalOf8 ==
  ASSUME NEW s \in Seq(Nat), Len(s) = 8
  PROVE  Total(s) = s[1] + s[2] + s[3] + s[4] + s[5] + s[6] + s[7] + s[8]
<1> PICK n \in Nat : n = 8 /\ n = Len(s)
  OBVIOUS
<1> PICK upto \in [0 .. n -> Nat] : /\ upto[0] = 0 /\ Total(s) = upto[n]
                                    /\ \A i \in 1 .. n : upto[i] = upto[i - 1] + s[i]
  BY ONLY s \in Seq(Nat), n \in Nat, n = Len(s), TotalUnfolds
<1>1. \A i \in 1 .. n : i - 1 \in 0 .. n /\ i \in 0 .. n /\ upto[i] \in Nat /\ s[i] \in Nat
  BY ONLY n \in Nat, s \in Seq(Nat), n = Len(s), upto \in [0 .. n -> Nat]
<1>2. /\ 1 \in 1 .. n /\ 1 - 1 = 0 /\ 2 \in 1 .. n /\ 2 - 1 = 1 /\ 3 \in 1 .. n /\ 3 - 1 = 2 /\ 4 \in 1 .. n /\ 4 - 1 = 3
      /\ 5 \in 1 .. n /\ 5 - 1 = 4 /\ 6 \in 1 .. n /\ 6 - 1 = 5 /\ 7 \in 1 .. n /\ 7 - 1 = 6 /\ 8 \in 1 .. n /\ 8 - 1 = 7
  BY ONLY n = 8
<1>3. /\ upto[1] = upto[1 - 1] + s[1] /\ upto[2] = upto[2 - 1] + s[2] /\ upto[3] = upto[3 - 1] + s[3] /\ upto[4] = upto[4 - 1] + s[4]
      /\ upto[5] = upto[5 - 1] + s[5] /\ upto[6] = upto[6 - 1] + s[6] /\ upto[7] = upto[7 - 1] + s[7] /\ upto[8] = upto[8 - 1] + s[8]
  BY ONLY <1>2, \A i \in 1 .. n : upto[i] = upto[i - 1] + s[i]
<1>4. /\ upto[1] = upto[0] + s[1] /\ upto[2] = upto[1] + s[2] /\ upto[3] = upto[2] + s[3] /\ upto[4] = upto[3] + s[4]
      /\ upto[5] = upto[4] + s[5] /\ upto[6] = upto[5] + s[6] /\ upto[7] = upto[6] + s[7] /\ upto[8] = upto[7] + s[8]
  BY ONLY <1>2, <1>3
<1>5. /\ s[1] \in Nat /\ upto[1] \in Nat /\ s[2] \in Nat /\ upto[2] \in Nat /\ s[3] \in Nat /\ upto[3] \in Nat /\ s[4] \in Nat /\ upto[4] \in Nat
      /\ s[5] \in Nat /\ upto[5] \in Nat /\ s[6] \in Nat /\ upto[6] \in Nat /\ s[7] \in Nat /\ upto[7] \in Nat /\ s[8] \in Nat /\ upto[8] \in Nat
  BY ONLY <1>1, <1>2
<1>6. upto[1] = s[1]
  BY ONLY <1>4, <1>5, upto[0] = 0, FromZero, Zenon
<1>7. upto[2] = s[1] + s[2]
  BY ONLY <1>4, <1>6, Zenon
<1>8. upto[3] = s[1] + s[2] + s[3]
  BY ONLY <1>4, <1>7, Zenon
<1>9. upto[4] = s[1] + s[2] + s[3] + s[4]
  BY ONLY <1>4, <1>8, Zenon
<1>10. upto[5] = s[1] + s[2] + s[3] + s[4] + s[5]
  BY ONLY <1>4, <1>9, Zenon
<1>11. upto[6] = s[1] + s[2] + s[3] + s[4] + s[5] + s[6]
  BY ONLY <1>4, <1>10, Zenon
<1>12. upto[7] = s[1] + s[2] + s[3] + s[4] + s[5] + s[6] + s[7]
  BY ONLY <1>4, <1>11, Zenon
<1>13. upto[8] = s[1] + s[2] + s[3] + s[4] + s[5] + s[6] + s[7] + s[8]
  BY ONLY <1>4, <1>12, Zenon
<1> QED BY ONLY <1>13, Total(s) = upto[n], n = 8, Zenon

\* Of nine.
LEMMA TotalOf9 ==
  ASSUME NEW s \in Seq(Nat), Len(s) = 9
  PROVE  Total(s) = s[1] + s[2] + s[3] + s[4] + s[5] + s[6] + s[7] + s[8] + s[9]
<1> PICK n \in Nat : n = 9 /\ n = Len(s)
  OBVIOUS
<1> PICK upto \in [0 .. n -> Nat] : /\ upto[0] = 0 /\ Total(s) = upto[n]
                                    /\ \A i \in 1 .. n : upto[i] = upto[i - 1] + s[i]
  BY ONLY s \in Seq(Nat), n \in Nat, n = Len(s), TotalUnfolds
<1>1. \A i \in 1 .. n : i - 1 \in 0 .. n /\ i \in 0 .. n /\ upto[i] \in Nat /\ s[i] \in Nat
  BY ONLY n \in Nat, s \in Seq(Nat), n = Len(s), upto \in [0 .. n -> Nat]
<1>2. /\ 1 \in 1 .. n /\ 1 - 1 = 0 /\ 2 \in 1 .. n /\ 2 - 1 = 1 /\ 3 \in 1 .. n /\ 3 - 1 = 2 /\ 4 \in 1 .. n /\ 4 - 1 = 3
      /\ 5 \in 1 .. n /\ 5 - 1 = 4 /\ 6 \in 1 .. n /\ 6 - 1 = 5 /\ 7 \in 1 .. n /\ 7 - 1 = 6 /\ 8 \in 1 .. n /\ 8 - 1 = 7
      /\ 9 \in 1 .. n /\ 9 - 1 = 8
  BY ONLY n = 9
<1>3. /\ upto[1] = upto[1 - 1] + s[1] /\ upto[2] = upto[2 - 1] + s[2] /\ upto[3] = upto[3 - 1] + s[3] /\ upto[4] = upto[4 - 1] + s[4]
      /\ upto[5] = upto[5 - 1] + s[5] /\ upto[6] = upto[6 - 1] + s[6] /\ upto[7] = upto[7 - 1] + s[7] /\ upto[8] = upto[8 - 1] + s[8]
      /\ upto[9] = upto[9 - 1] + s[9]
  BY ONLY <1>2, \A i \in 1 .. n : upto[i] = upto[i - 1] + s[i]
<1>4. /\ upto[1] = upto[0] + s[1] /\ upto[2] = upto[1] + s[2] /\ upto[3] = upto[2] + s[3] /\ upto[4] = upto[3] + s[4]
      /\ upto[5] = upto[4] + s[5] /\ upto[6] = upto[5] + s[6] /\ upto[7] = upto[6] + s[7] /\ upto[8] = upto[7] + s[8]
      /\ upto[9] = upto[8] + s[9]
  BY ONLY <1>2, <1>3
<1>5. /\ s[1] \in Nat /\ upto[1] \in Nat /\ s[2] \in Nat /\ upto[2] \in Nat /\ s[3] \in Nat /\ upto[3] \in Nat /\ s[4] \in Nat /\ upto[4] \in Nat
      /\ s[5] \in Nat /\ upto[5] \in Nat /\ s[6] \in Nat /\ upto[6] \in Nat /\ s[7] \in Nat /\ upto[7] \in Nat /\ s[8] \in Nat /\ upto[8] \in Nat
      /\ s[9] \in Nat /\ upto[9] \in Nat
  BY ONLY <1>1, <1>2
<1>6. upto[1] = s[1]
  BY ONLY <1>4, <1>5, upto[0] = 0, FromZero, Zenon
<1>7. upto[2] = s[1] + s[2]
  BY ONLY <1>4, <1>6, Zenon
<1>8. upto[3] = s[1] + s[2] + s[3]
  BY ONLY <1>4, <1>7, Zenon
<1>9. upto[4] = s[1] + s[2] + s[3] + s[4]
  BY ONLY <1>4, <1>8, Zenon
<1>10. upto[5] = s[1] + s[2] + s[3] + s[4] + s[5]
  BY ONLY <1>4, <1>9, Zenon
<1>11. upto[6] = s[1] + s[2] + s[3] + s[4] + s[5] + s[6]
  BY ONLY <1>4, <1>10, Zenon
<1>12. upto[7] = s[1] + s[2] + s[3] + s[4] + s[5] + s[6] + s[7]
  BY ONLY <1>4, <1>11, Zenon
<1>13. upto[8] = s[1] + s[2] + s[3] + s[4] + s[5] + s[6] + s[7] + s[8]
  BY ONLY <1>4, <1>12, Zenon
<1>14. upto[9] = s[1] + s[2] + s[3] + s[4] + s[5] + s[6] + s[7] + s[8] + s[9]
  BY ONLY <1>4, <1>13, Zenon
<1> QED BY ONLY <1>14, Total(s) = upto[n], n = 9, Zenon

\* Of ten.
LEMMA TotalOf10 ==
  ASSUME NEW s \in Seq(Nat), Len(s) = 10
  PROVE  Total(s) = s[1] + s[2] + s[3] + s[4] + s[5] + s[6] + s[7] + s[8] + s[9] + s[10]
<1> PICK n \in Nat : n = 10 /\ n = Len(s)
  OBVIOUS
<1> PICK upto \in [0 .. n -> Nat] : /\ upto[0] = 0 /\ Total(s) = upto[n]
                                    /\ \A i \in 1 .. n : upto[i] = upto[i - 1] + s[i]
  BY ONLY s \in Seq(Nat), n \in Nat, n = Len(s), TotalUnfolds
<1>1. \A i \in 1 .. n : i - 1 \in 0 .. n /\ i \in 0 .. n /\ upto[i] \in Nat /\ s[i] \in Nat
  BY ONLY n \in Nat, s \in Seq(Nat), n = Len(s), upto \in [0 .. n -> Nat]
<1>2. /\ 1 \in 1 .. n /\ 1 - 1 = 0 /\ 2 \in 1 .. n /\ 2 - 1 = 1 /\ 3 \in 1 .. n /\ 3 - 1 = 2 /\ 4 \in 1 .. n /\ 4 - 1 = 3
      /\ 5 \in 1 .. n /\ 5 - 1 = 4 /\ 6 \in 1 .. n /\ 6 - 1 = 5 /\ 7 \in 1 .. n /\ 7 - 1 = 6 /\ 8 \in 1 .. n /\ 8 - 1 = 7
      /\ 9 \in 1 .. n /\ 9 - 1 = 8 /\ 10 \in 1 .. n /\ 10 - 1 = 9
  BY ONLY n = 10
<1>3. /\ upto[1] = upto[1 - 1] + s[1] /\ upto[2] = upto[2 - 1] + s[2] /\ upto[3] = upto[3 - 1] + s[3] /\ upto[4] = upto[4 - 1] + s[4]
      /\ upto[5] = upto[5 - 1] + s[5] /\ upto[6] = upto[6 - 1] + s[6] /\ upto[7] = upto[7 - 1] + s[7] /\ upto[8] = upto[8 - 1] + s[8]
      /\ upto[9] = upto[9 - 1] + s[9] /\ upto[10] = upto[10 - 1] + s[10]
  BY ONLY <1>2, \A i \in 1 .. n : upto[i] = upto[i - 1] + s[i]
<1>4. /\ upto[1] = upto[0] + s[1] /\ upto[2] = upto[1] + s[2] /\ upto[3] = upto[2] + s[3] /\ upto[4] = upto[3] + s[4]
      /\ upto[5] = upto[4] + s[5] /\ upto[6] = upto[5] + s[6] /\ upto[7] = upto[6] + s[7] /\ upto[8] = upto[7] + s[8]
      /\ upto[9] = upto[8] + s[9] /\ upto[10] = upto[9] + s[10]
  BY ONLY <1>2, <1>3
<1>5. /\ s[1] \in Nat /\ upto[1] \in Nat /\ s[2] \in Nat /\ upto[2] \in Nat /\ s[3] \in Nat /\ upto[3] \in Nat /\ s[4] \in Nat /\ upto[4] \in Nat
      /\ s[5] \in Nat /\ upto[5] \in Nat /\ s[6] \in Nat /\ upto[6] \in Nat /\ s[7] \in Nat /\ upto[7] \in Nat /\ s[8] \in Nat /\ upto[8] \in Nat
      /\ s[9] \in Nat /\ upto[9] \in Nat /\ s[10] \in Nat /\ upto[10] \in Nat
  BY ONLY <1>1, <1>2
<1>6. upto[1] = s[1]
  BY ONLY <1>4, <1>5, upto[0] = 0, FromZero, Zenon
<1>7. upto[2] = s[1] + s[2]
  BY ONLY <1>4, <1>6, Zenon
<1>8. upto[3] = s[1] + s[2] + s[3]
  BY ONLY <1>4, <1>7, Zenon
<1>9. upto[4] = s[1] + s[2] + s[3] + s[4]
  BY ONLY <1>4, <1>8, Zenon
<1>10. upto[5] = s[1] + s[2] + s[3] + s[4] + s[5]
  BY ONLY <1>4, <1>9, Zenon
<1>11. upto[6] = s[1] + s[2] + s[3] + s[4] + s[5] + s[6]
  BY ONLY <1>4, <1>10, Zenon
<1>12. upto[7] = s[1] + s[2] + s[3] + s[4] + s[5] + s[6] + s[7]
  BY ONLY <1>4, <1>11, Zenon
<1>13. upto[8] = s[1] + s[2] + s[3] + s[4] + s[5] + s[6] + s[7] + s[8]
  BY ONLY <1>4, <1>12, Zenon
<1>14. upto[9] = s[1] + s[2] + s[3] + s[4] + s[5] + s[6] + s[7] + s[8] + s[9]
  BY ONLY <1>4, <1>13, Zenon
<1>15. upto[10] = s[1] + s[2] + s[3] + s[4] + s[5] + s[6] + s[7] + s[8] + s[9] + s[10]
  BY ONLY <1>4, <1>14, Zenon
<1> QED BY ONLY <1>15, Total(s) = upto[n], n = 10, Zenon

\* The elements of a sequence.
LEMMA ElementsOf ==
  ASSUME NEW S, NEW s \in Seq(S)
  PROVE  DOMAIN s = 1 .. Len(s) /\ \A i \in 1 .. Len(s) : s[i] \in S
OBVIOUS

\* The sum of g over the fields of p.
SumOver(g, p) == Total([i \in DOMAIN p |-> g[p[i]]])

\* That sum over four fields.
LEMMA SumOver4 ==
  ASSUME NEW D, NEW g \in [D -> Nat], NEW p \in Seq(D), Len(p) = 4
  PROVE  SumOver(g, p) = g[p[1]] + g[p[2]] + g[p[3]] + g[p[4]]
<1> PICK s : s = [i \in 1 .. 4 |-> g[p[i]]]
  OBVIOUS
<1>1. \A i \in 1 .. 4 : s[i] = g[p[i]] /\ s[i] \in Nat
  <2>1. \A i \in 1 .. 4 : p[i] \in D
    BY ONLY p \in Seq(D), Len(p) = 4, ElementsOf
  <2> QED BY ONLY <2>1, g \in [D -> Nat], s = [i \in 1 .. 4 |-> g[p[i]]]
<1>2. s \in Seq(Nat) /\ Len(s) = 4
  BY ONLY <1>1, s = [i \in 1 .. 4 |-> g[p[i]]]
<1>3. SumOver(g, p) = Total(s)
  BY DEF SumOver
<1>4. 1 \in 1 .. 4 /\ 2 \in 1 .. 4 /\ 3 \in 1 .. 4 /\ 4 \in 1 .. 4
  OBVIOUS
<1>5. s[1] = g[p[1]] /\ s[2] = g[p[2]] /\ s[3] = g[p[3]] /\ s[4] = g[p[4]]
  BY ONLY <1>1, <1>4
<1>6. Total(s) = s[1] + s[2] + s[3] + s[4]
  BY ONLY <1>2, TotalOf4
<1> QED BY ONLY <1>3, <1>5, <1>6, Zenon

\* Over eight.
LEMMA SumOver8 ==
  ASSUME NEW D, NEW g \in [D -> Nat], NEW p \in Seq(D), Len(p) = 8
  PROVE  SumOver(g, p) = g[p[1]] + g[p[2]] + g[p[3]] + g[p[4]] + g[p[5]] + g[p[6]] + g[p[7]] + g[p[8]]
<1> PICK s : s = [i \in 1 .. 8 |-> g[p[i]]]
  OBVIOUS
<1>1. \A i \in 1 .. 8 : s[i] = g[p[i]] /\ s[i] \in Nat
  <2>1. \A i \in 1 .. 8 : p[i] \in D
    BY ONLY p \in Seq(D), Len(p) = 8, ElementsOf
  <2> QED BY ONLY <2>1, g \in [D -> Nat], s = [i \in 1 .. 8 |-> g[p[i]]]
<1>2. s \in Seq(Nat) /\ Len(s) = 8
  BY ONLY <1>1, s = [i \in 1 .. 8 |-> g[p[i]]]
<1>3. SumOver(g, p) = Total(s)
  BY DEF SumOver
<1>4. 1 \in 1 .. 8 /\ 2 \in 1 .. 8 /\ 3 \in 1 .. 8 /\ 4 \in 1 .. 8 /\ 5 \in 1 .. 8 /\ 6 \in 1 .. 8 /\ 7 \in 1 .. 8 /\ 8 \in 1 .. 8
  OBVIOUS
<1>5. s[1] = g[p[1]] /\ s[2] = g[p[2]] /\ s[3] = g[p[3]] /\ s[4] = g[p[4]] /\ s[5] = g[p[5]] /\ s[6] = g[p[6]] /\ s[7] = g[p[7]] /\ s[8] = g[p[8]]
  BY ONLY <1>1, <1>4
<1>6. Total(s) = s[1] + s[2] + s[3] + s[4] + s[5] + s[6] + s[7] + s[8]
  BY ONLY <1>2, TotalOf8
<1> QED BY ONLY <1>3, <1>5, <1>6, Zenon

\* Over nine.
LEMMA SumOver9 ==
  ASSUME NEW D, NEW g \in [D -> Nat], NEW p \in Seq(D), Len(p) = 9
  PROVE  SumOver(g, p) = g[p[1]] + g[p[2]] + g[p[3]] + g[p[4]] + g[p[5]] + g[p[6]] + g[p[7]] + g[p[8]] + g[p[9]]
<1> PICK s : s = [i \in 1 .. 9 |-> g[p[i]]]
  OBVIOUS
<1>1. \A i \in 1 .. 9 : s[i] = g[p[i]] /\ s[i] \in Nat
  <2>1. \A i \in 1 .. 9 : p[i] \in D
    BY ONLY p \in Seq(D), Len(p) = 9, ElementsOf
  <2> QED BY ONLY <2>1, g \in [D -> Nat], s = [i \in 1 .. 9 |-> g[p[i]]]
<1>2. s \in Seq(Nat) /\ Len(s) = 9
  BY ONLY <1>1, s = [i \in 1 .. 9 |-> g[p[i]]]
<1>3. SumOver(g, p) = Total(s)
  BY DEF SumOver
<1>4. 1 \in 1 .. 9 /\ 2 \in 1 .. 9 /\ 3 \in 1 .. 9 /\ 4 \in 1 .. 9 /\ 5 \in 1 .. 9 /\ 6 \in 1 .. 9 /\ 7 \in 1 .. 9 /\ 8 \in 1 .. 9 /\ 9 \in 1 .. 9
  OBVIOUS
<1>5. s[1] = g[p[1]] /\ s[2] = g[p[2]] /\ s[3] = g[p[3]] /\ s[4] = g[p[4]] /\ s[5] = g[p[5]] /\ s[6] = g[p[6]] /\ s[7] = g[p[7]] /\ s[8] = g[p[8]] /\ s[9] = g[p[9]]
  BY ONLY <1>1, <1>4
<1>6. Total(s) = s[1] + s[2] + s[3] + s[4] + s[5] + s[6] + s[7] + s[8] + s[9]
  BY ONLY <1>2, TotalOf9
<1> QED BY ONLY <1>3, <1>5, <1>6, Zenon

\* Over ten.
LEMMA SumOver10 ==
  ASSUME NEW D, NEW g \in [D -> Nat], NEW p \in Seq(D), Len(p) = 10
  PROVE  SumOver(g, p) = g[p[1]] + g[p[2]] + g[p[3]] + g[p[4]] + g[p[5]] + g[p[6]] + g[p[7]] + g[p[8]] + g[p[9]] + g[p[10]]
<1> PICK s : s = [i \in 1 .. 10 |-> g[p[i]]]
  OBVIOUS
<1>1. \A i \in 1 .. 10 : s[i] = g[p[i]] /\ s[i] \in Nat
  <2>1. \A i \in 1 .. 10 : p[i] \in D
    BY ONLY p \in Seq(D), Len(p) = 10, ElementsOf
  <2> QED BY ONLY <2>1, g \in [D -> Nat], s = [i \in 1 .. 10 |-> g[p[i]]]
<1>2. s \in Seq(Nat) /\ Len(s) = 10
  BY ONLY <1>1, s = [i \in 1 .. 10 |-> g[p[i]]]
<1>3. SumOver(g, p) = Total(s)
  BY DEF SumOver
<1>4. 1 \in 1 .. 10 /\ 2 \in 1 .. 10 /\ 3 \in 1 .. 10 /\ 4 \in 1 .. 10 /\ 5 \in 1 .. 10 /\ 6 \in 1 .. 10 /\ 7 \in 1 .. 10 /\ 8 \in 1 .. 10 /\ 9 \in 1 .. 10 /\ 10 \in 1 .. 10
  OBVIOUS
<1>5. s[1] = g[p[1]] /\ s[2] = g[p[2]] /\ s[3] = g[p[3]] /\ s[4] = g[p[4]] /\ s[5] = g[p[5]] /\ s[6] = g[p[6]] /\ s[7] = g[p[7]] /\ s[8] = g[p[8]] /\ s[9] = g[p[9]] /\ s[10] = g[p[10]]
  BY ONLY <1>1, <1>4
<1>6. Total(s) = s[1] + s[2] + s[3] + s[4] + s[5] + s[6] + s[7] + s[8] + s[9] + s[10]
  BY ONLY <1>2, TotalOf10
<1> QED BY ONLY <1>3, <1>5, <1>6, Zenon

\* A class that adds up what it writes.
SizedClass(c) ==
  /\ c.sized \in Seq(DOMAIN c.read) /\ c.written \in Seq(DOMAIN c.read)
  /\ \A g \in [DOMAIN c.read -> Nat] : SumOver(g, c.sized) = SumOver(g, c.written)

\* What a field is said to take is what it takes.
LEMMA InfoFieldTakes ==
  ASSUME NEW c, InnerClass(c), NEW b, IsInfo(c, b), NEW n \in DOMAIN c.read
  PROVE  /\ InfoFieldBytes(c, b, n) \in Seq(Nat)
         /\ InfoFieldSize(c, b, n) = Len(InfoFieldBytes(c, b, n))
         /\ InfoFieldSize(c, b, n) \in Nat
<1>1. CASE n \notin DOMAIN b.f
  <2>1. InfoFieldBytes(c, b, n) = <<>> /\ InfoFieldSize(c, b, n) = 0
    BY <1>1 DEF InfoFieldBytes, InfoFieldSize, Present
  <2>2. <<>> \in Seq(Nat) /\ Len(<<>>) = 0
    BY ONLY EmptySeq
  <2> QED BY ONLY <2>1, <2>2
<1>2. CASE n \in DOMAIN b.f
  <2> PICK kind, v, e : kind = c.read[n] /\ v = b.f[n] /\ e = FieldEntry(c, b, n)
    OBVIOUS
  <2>1. e \in WireEntries /\ InfoFieldBytes(c, b, n) = EntryBytes(e)
    BY <1>2, FieldEntryIs
  <2>2. kind \in ScalarKinds /\ v \in ScalarValues(kind)
    BY <1>2 DEF InnerClass, IsInfo
  <2>3. e.wire = WireType(kind) /\ e.val = ScalarBytes(kind, v)
    BY DEF FieldEntry
  <2>4. /\ Len(e.val) = IF kind = "string" THEN Len(v) ELSE 1
        /\ e.wire = IF kind = "string" THEN 2 ELSE 0
    BY ONLY <2>2, <2>3, ScalarReturns
  <2>5. EntryBytes(e) \in Seq(Nat) /\ Len(EntryBytes(e)) = HeadLength(e) + Len(e.val)
    BY ONLY <2>1, EntryIs
  <2>6. CASE kind = "string"
    <3>1. InfoFieldSize(c, b, n) = 2 + Len(v)
      BY <1>2, <2>6 DEF InfoFieldSize, Present
    <3>2. HeadLength(e) = 2 /\ Len(e.val) = Len(v) /\ Len(v) \in Nat
      BY <2>2, <2>4, <2>6 DEF HeadLength, ScalarValues
    <3> QED BY ONLY <2>1, <2>5, <3>1, <3>2
  <2>7. CASE kind # "string"
    <3>1. InfoFieldSize(c, b, n) = 2
      BY <1>2, <2>7 DEF InfoFieldSize, Present
    <3>2. HeadLength(e) = 1 /\ Len(e.val) = 1
      BY <2>4, <2>7 DEF HeadLength
    <3> QED BY ONLY <2>1, <2>5, <3>1, <3>2
  <2> QED BY <2>6, <2>7
<1> QED BY <1>1, <1>2

\* ByteSizeLong of an inner class tells how much it writes.
LEMMA InfoSizes ==
  ASSUME NEW c, InnerClass(c), SizedClass(c), NEW b, IsInfo(c, b)
  PROVE  SerializeInfo(c, b) \in Seq(Nat) /\ InfoByteSize(c, b) = Len(SerializeInfo(c, b))
<1> PICK n \in Nat : n = Len(c.written)
  BY DEF InnerClass
<1> PICK ss \in Seq(Seq(Nat)) : /\ n = Len(ss)
                                /\ \A i \in 1 .. n : ss[i] = InfoFieldBytes(c, b, c.written[i])
                                /\ SerializeInfo(c, b) = FlattenSeq(ss) \o BytesOf(b.unknown)
  BY InfoPieces
<1> DEFINE size(k) == InfoFieldSize(c, b, k)
<1> PICK g : g = [k \in DOMAIN c.read |-> size(k)]
  OBVIOUS
<1>1. \A k \in DOMAIN c.read : g[k] = InfoFieldSize(c, b, k) /\ g[k] \in Nat
                               /\ g[k] = Len(InfoFieldBytes(c, b, k))
  BY InfoFieldTakes
<1> HIDE DEF size
<1>2. g \in [DOMAIN c.read -> Nat]
  BY <1>1
<1>3. SumOver(g, c.sized) = SumOver(g, c.written)
  BY <1>2 DEF SizedClass
<1>4. InfoByteSize(c, b) = Len(UnknownBytes(b)) + SumOver(g, c.sized)
  <2>1. \A i \in DOMAIN c.sized : c.sized[i] \in DOMAIN c.read
    BY DEF SizedClass
  <2>2. [i \in DOMAIN c.sized |-> InfoFieldSize(c, b, c.sized[i])] = [i \in DOMAIN c.sized |-> g[c.sized[i]]]
    BY <1>1, <2>1
  <2> QED BY <2>2 DEF InfoByteSize, SumOver
<1> DEFINE at(i) == g[c.written[i]]
<1> PICK t : t = [i \in 1 .. n |-> at(i)]
  OBVIOUS
<1>5. DOMAIN c.written = 1 .. n /\ \A i \in 1 .. n : c.written[i] \in DOMAIN c.read
  <2>1. c.written \in Seq(DOMAIN c.read)
    BY DEF SizedClass
  <2> QED BY ONLY <2>1, n = Len(c.written), ElementsOf
<1>6. SumOver(g, c.written) = Total(t)
  BY <1>5 DEF SumOver
<1>7. \A i \in 1 .. n : t[i] \in Nat /\ t[i] = Len(ss[i])
  BY <1>1, <1>5
<1> HIDE DEF at
<1>8. t \in Seq(Nat) /\ n = Len(t)
  BY <1>7
<1>9. Len(FlattenSeq(ss)) = Total(t)
  BY ONLY ss \in Seq(Seq(Nat)), n \in Nat, n = Len(ss), <1>7, <1>8, FlattenLength
<1> PICK x \in Seq(Nat), y \in Seq(Nat) : x = FlattenSeq(ss) /\ y = BytesOf(b.unknown)
  <2>1. FlattenSeq(ss) \in Seq(Nat)
    BY ONLY ss \in Seq(Seq(Nat)), FlattenJoins
  <2>2. BytesOf(b.unknown) \in Seq(Nat)
    BY EntriesOfBytes DEF IsInfo
  <2> QED BY ONLY <2>1, <2>2
<1>10. UnknownBytes(b) = y
  BY DEF UnknownBytes, BytesOf
<1>11. x \o y \in Seq(Nat) /\ Len(x \o y) = Len(x) + Len(y) /\ Len(x) \in Nat /\ Len(y) \in Nat
  BY ONLY x \in Seq(Nat), y \in Seq(Nat), ConcatProperties, LenProperties
<1>12. SerializeInfo(c, b) = x \o y
  BY ONLY SerializeInfo(c, b) = FlattenSeq(ss) \o BytesOf(b.unknown), x = FlattenSeq(ss), y = BytesOf(b.unknown)
<1> QED BY ONLY <1>3, <1>4, <1>6, <1>9, <1>10, <1>11, <1>12, x = FlattenSeq(ss)

\* Fields written in the order of their numbers: four of them.
LEMMA Upto4 ==
  ASSUME NEW w, w = <<1, 2, 3, 4>>
  PROVE  w \in Seq(1 .. 4) /\ Len(w) = 4 /\ \A i \in 1 .. 4 : w[i] = i
OBVIOUS

\* Eight.
LEMMA Upto8 ==
  ASSUME NEW w, w = <<1, 2, 3, 4, 5, 6, 7, 8>>
  PROVE  w \in Seq(1 .. 8) /\ Len(w) = 8 /\ \A i \in 1 .. 8 : w[i] = i
OBVIOUS

\* Nine.
LEMMA Upto9 ==
  ASSUME NEW w, w = <<1, 2, 3, 4, 5, 6, 7, 8, 9>>
  PROVE  w \in Seq(1 .. 9) /\ Len(w) = 9 /\ \A i \in 1 .. 9 : w[i] = i
OBVIOUS

\* ByteSizeLong adds up each field of a terminal once, though in another order than they are written.
LEMMA TerminalSums ==
  ASSUME NEW p, p = <<1, 2, 3, 4, 5, 6, 7, 9, 8>>
  PROVE  /\ p \in Seq(1 .. 9) /\ ToSet(p) = 1 .. 9
         /\ \A g \in [1 .. 9 -> Nat] : SumOver(g, p) = SumOver(g, <<1, 2, 3, 4, 5, 6, 7, 8, 9>>)
<1>1. p \in Seq(1 .. 9) /\ Len(p) = 9
  OBVIOUS
<1>2. p[1] = 1 /\ p[2] = 2 /\ p[3] = 3 /\ p[4] = 4 /\ p[5] = 5 /\ p[6] = 6 /\ p[7] = 7 /\ p[8] = 9 /\ p[9] = 8
  OBVIOUS
<1>3. ToSet(p) = 1 .. 9
  <2>1. DOMAIN p = 1 .. 9
    OBVIOUS
  <2>2. \A i \in 1 .. 9 : p[i] \in 1 .. 9
    BY ONLY <1>1, ElementsOf
  <2>3. \A i \in 1 .. 9 : i = 1 \/ i = 2 \/ i = 3 \/ i = 4 \/ i = 5 \/ i = 6 \/ i = 7 \/ i = 8 \/ i = 9
    OBVIOUS
  <2>4. 1 \in 1 .. 9 /\ 2 \in 1 .. 9 /\ 3 \in 1 .. 9 /\ 4 \in 1 .. 9 /\ 5 \in 1 .. 9 /\ 6 \in 1 .. 9 /\ 7 \in 1 .. 9 /\ 8 \in 1 .. 9 /\ 9 \in 1 .. 9
    OBVIOUS
  <2>5. \A i \in 1 .. 9 : \E j \in 1 .. 9 : p[j] = i
    BY ONLY <1>2, <2>3, <2>4
  <2> QED BY ONLY <2>1, <2>2, <2>5 DEF ToSet
<1>4. ASSUME NEW g \in [1 .. 9 -> Nat] PROVE SumOver(g, p) = SumOver(g, <<1, 2, 3, 4, 5, 6, 7, 8, 9>>)
  <2> PICK w : w = <<1, 2, 3, 4, 5, 6, 7, 8, 9>>
    OBVIOUS
  <2>1. w \in Seq(1 .. 9) /\ Len(w) = 9 /\ \A i \in 1 .. 9 : w[i] = i
    BY ONLY w = <<1, 2, 3, 4, 5, 6, 7, 8, 9>>, Upto9
  <2>2. w[1] = 1 /\ w[2] = 2 /\ w[3] = 3 /\ w[4] = 4 /\ w[5] = 5 /\ w[6] = 6 /\ w[7] = 7 /\ w[8] = 8 /\ w[9] = 9
    <3>1. 1 \in 1 .. 9 /\ 2 \in 1 .. 9 /\ 3 \in 1 .. 9 /\ 4 \in 1 .. 9 /\ 5 \in 1 .. 9 /\ 6 \in 1 .. 9 /\ 7 \in 1 .. 9 /\ 8 \in 1 .. 9 /\ 9 \in 1 .. 9
      OBVIOUS
    <3> QED BY ONLY <2>1, <3>1
  <2>3. SumOver(g, w) = g[w[1]] + g[w[2]] + g[w[3]] + g[w[4]] + g[w[5]] + g[w[6]] + g[w[7]] + g[w[8]] + g[w[9]]
    BY ONLY <2>1, g \in [1 .. 9 -> Nat], SumOver9
  <2>4. SumOver(g, p) = g[p[1]] + g[p[2]] + g[p[3]] + g[p[4]] + g[p[5]] + g[p[6]] + g[p[7]] + g[p[8]] + g[p[9]]
    BY ONLY <1>1, g \in [1 .. 9 -> Nat], SumOver9
  <2>5. SumOver(g, w) = g[1] + g[2] + g[3] + g[4] + g[5] + g[6] + g[7] + g[8] + g[9]
    BY ONLY <2>2, <2>3, Zenon
  <2>6. SumOver(g, p) = g[1] + g[2] + g[3] + g[4] + g[5] + g[6] + g[7] + g[9] + g[8]
    BY ONLY <1>2, <2>4, Zenon
  <2> PICK a1 \in Nat, a2 \in Nat, a3 \in Nat, a4 \in Nat, a5 \in Nat, a6 \in Nat, a7 \in Nat, a8 \in Nat, a9 \in Nat : a1 = g[1] /\ a2 = g[2] /\ a3 = g[3] /\ a4 = g[4] /\ a5 = g[5] /\ a6 = g[6] /\ a7 = g[7] /\ a8 = g[8] /\ a9 = g[9]
    <3>1. \A i \in 1 .. 9 : g[i] \in Nat
      BY ONLY g \in [1 .. 9 -> Nat]
    <3>2. 1 \in 1 .. 9 /\ 2 \in 1 .. 9 /\ 3 \in 1 .. 9 /\ 4 \in 1 .. 9 /\ 5 \in 1 .. 9 /\ 6 \in 1 .. 9 /\ 7 \in 1 .. 9 /\ 8 \in 1 .. 9 /\ 9 \in 1 .. 9
      OBVIOUS
    <3>3. g[1] \in Nat /\ g[2] \in Nat /\ g[3] \in Nat /\ g[4] \in Nat /\ g[5] \in Nat /\ g[6] \in Nat /\ g[7] \in Nat /\ g[8] \in Nat /\ g[9] \in Nat
      BY ONLY <3>1, <3>2
    <3> QED BY ONLY <3>3, Zenon
  <2>7. a1 + a2 + a3 + a4 + a5 + a6 + a7 + a8 + a9 = a1 + a2 + a3 + a4 + a5 + a6 + a7 + a9 + a8
    BY ONLY a1 \in Nat, a2 \in Nat, a3 \in Nat, a4 \in Nat, a5 \in Nat, a6 \in Nat, a7 \in Nat, a8 \in Nat, a9 \in Nat
  <2> QED BY <2>5, <2>6, <2>7, Zenon
<1> QED BY <1>1, <1>3, <1>4

\* And each field of a base station.
LEMMA StationSums ==
  ASSUME NEW p, p = <<1, 2, 3, 4, 5, 6, 9, 7, 8>>
  PROVE  /\ p \in Seq(1 .. 9) /\ ToSet(p) = 1 .. 9
         /\ \A g \in [1 .. 9 -> Nat] : SumOver(g, p) = SumOver(g, <<1, 2, 3, 4, 5, 6, 7, 8, 9>>)
<1>1. p \in Seq(1 .. 9) /\ Len(p) = 9
  OBVIOUS
<1>2. p[1] = 1 /\ p[2] = 2 /\ p[3] = 3 /\ p[4] = 4 /\ p[5] = 5 /\ p[6] = 6 /\ p[7] = 9 /\ p[8] = 7 /\ p[9] = 8
  OBVIOUS
<1>3. ToSet(p) = 1 .. 9
  <2>1. DOMAIN p = 1 .. 9
    OBVIOUS
  <2>2. \A i \in 1 .. 9 : p[i] \in 1 .. 9
    BY ONLY <1>1, ElementsOf
  <2>3. \A i \in 1 .. 9 : i = 1 \/ i = 2 \/ i = 3 \/ i = 4 \/ i = 5 \/ i = 6 \/ i = 7 \/ i = 8 \/ i = 9
    OBVIOUS
  <2>4. 1 \in 1 .. 9 /\ 2 \in 1 .. 9 /\ 3 \in 1 .. 9 /\ 4 \in 1 .. 9 /\ 5 \in 1 .. 9 /\ 6 \in 1 .. 9 /\ 7 \in 1 .. 9 /\ 8 \in 1 .. 9 /\ 9 \in 1 .. 9
    OBVIOUS
  <2>5. \A i \in 1 .. 9 : \E j \in 1 .. 9 : p[j] = i
    BY ONLY <1>2, <2>3, <2>4
  <2> QED BY ONLY <2>1, <2>2, <2>5 DEF ToSet
<1>4. ASSUME NEW g \in [1 .. 9 -> Nat] PROVE SumOver(g, p) = SumOver(g, <<1, 2, 3, 4, 5, 6, 7, 8, 9>>)
  <2> PICK w : w = <<1, 2, 3, 4, 5, 6, 7, 8, 9>>
    OBVIOUS
  <2>1. w \in Seq(1 .. 9) /\ Len(w) = 9 /\ \A i \in 1 .. 9 : w[i] = i
    BY ONLY w = <<1, 2, 3, 4, 5, 6, 7, 8, 9>>, Upto9
  <2>2. w[1] = 1 /\ w[2] = 2 /\ w[3] = 3 /\ w[4] = 4 /\ w[5] = 5 /\ w[6] = 6 /\ w[7] = 7 /\ w[8] = 8 /\ w[9] = 9
    <3>1. 1 \in 1 .. 9 /\ 2 \in 1 .. 9 /\ 3 \in 1 .. 9 /\ 4 \in 1 .. 9 /\ 5 \in 1 .. 9 /\ 6 \in 1 .. 9 /\ 7 \in 1 .. 9 /\ 8 \in 1 .. 9 /\ 9 \in 1 .. 9
      OBVIOUS
    <3> QED BY ONLY <2>1, <3>1
  <2>3. SumOver(g, w) = g[w[1]] + g[w[2]] + g[w[3]] + g[w[4]] + g[w[5]] + g[w[6]] + g[w[7]] + g[w[8]] + g[w[9]]
    BY ONLY <2>1, g \in [1 .. 9 -> Nat], SumOver9
  <2>4. SumOver(g, p) = g[p[1]] + g[p[2]] + g[p[3]] + g[p[4]] + g[p[5]] + g[p[6]] + g[p[7]] + g[p[8]] + g[p[9]]
    BY ONLY <1>1, g \in [1 .. 9 -> Nat], SumOver9
  <2>5. SumOver(g, w) = g[1] + g[2] + g[3] + g[4] + g[5] + g[6] + g[7] + g[8] + g[9]
    BY ONLY <2>2, <2>3, Zenon
  <2>6. SumOver(g, p) = g[1] + g[2] + g[3] + g[4] + g[5] + g[6] + g[9] + g[7] + g[8]
    BY ONLY <1>2, <2>4, Zenon
  <2> PICK a1 \in Nat, a2 \in Nat, a3 \in Nat, a4 \in Nat, a5 \in Nat, a6 \in Nat, a7 \in Nat, a8 \in Nat, a9 \in Nat : a1 = g[1] /\ a2 = g[2] /\ a3 = g[3] /\ a4 = g[4] /\ a5 = g[5] /\ a6 = g[6] /\ a7 = g[7] /\ a8 = g[8] /\ a9 = g[9]
    <3>1. \A i \in 1 .. 9 : g[i] \in Nat
      BY ONLY g \in [1 .. 9 -> Nat]
    <3>2. 1 \in 1 .. 9 /\ 2 \in 1 .. 9 /\ 3 \in 1 .. 9 /\ 4 \in 1 .. 9 /\ 5 \in 1 .. 9 /\ 6 \in 1 .. 9 /\ 7 \in 1 .. 9 /\ 8 \in 1 .. 9 /\ 9 \in 1 .. 9
      OBVIOUS
    <3>3. g[1] \in Nat /\ g[2] \in Nat /\ g[3] \in Nat /\ g[4] \in Nat /\ g[5] \in Nat /\ g[6] \in Nat /\ g[7] \in Nat /\ g[8] \in Nat /\ g[9] \in Nat
      BY ONLY <3>1, <3>2
    <3> QED BY ONLY <3>3, Zenon
  <2>7. a1 + a2 + a3 + a4 + a5 + a6 + a7 + a8 + a9 = a1 + a2 + a3 + a4 + a5 + a6 + a9 + a7 + a8
    BY ONLY a1 \in Nat, a2 \in Nat, a3 \in Nat, a4 \in Nat, a5 \in Nat, a6 \in Nat, a7 \in Nat, a8 \in Nat, a9 \in Nat
  <2> QED BY <2>5, <2>6, <2>7, Zenon
<1> QED BY <1>1, <1>3, <1>4

\* MergeFrom of a base station names every field.
LEMMA StationTaken ==
  ASSUME NEW p, p = <<1, 4, 5, 6, 9, 2, 3, 7, 8>>
  PROVE  /\ p \in Seq(1 .. 9) /\ ToSet(p) = 1 .. 9
         /\ \A g \in [1 .. 9 -> Nat] : SumOver(g, p) = SumOver(g, <<1, 2, 3, 4, 5, 6, 7, 8, 9>>)
<1>1. p \in Seq(1 .. 9) /\ Len(p) = 9
  OBVIOUS
<1>2. p[1] = 1 /\ p[2] = 4 /\ p[3] = 5 /\ p[4] = 6 /\ p[5] = 9 /\ p[6] = 2 /\ p[7] = 3 /\ p[8] = 7 /\ p[9] = 8
  OBVIOUS
<1>3. ToSet(p) = 1 .. 9
  <2>1. DOMAIN p = 1 .. 9
    OBVIOUS
  <2>2. \A i \in 1 .. 9 : p[i] \in 1 .. 9
    BY ONLY <1>1, ElementsOf
  <2>3. \A i \in 1 .. 9 : i = 1 \/ i = 2 \/ i = 3 \/ i = 4 \/ i = 5 \/ i = 6 \/ i = 7 \/ i = 8 \/ i = 9
    OBVIOUS
  <2>4. 1 \in 1 .. 9 /\ 2 \in 1 .. 9 /\ 3 \in 1 .. 9 /\ 4 \in 1 .. 9 /\ 5 \in 1 .. 9 /\ 6 \in 1 .. 9 /\ 7 \in 1 .. 9 /\ 8 \in 1 .. 9 /\ 9 \in 1 .. 9
    OBVIOUS
  <2>5. \A i \in 1 .. 9 : \E j \in 1 .. 9 : p[j] = i
    BY ONLY <1>2, <2>3, <2>4
  <2> QED BY ONLY <2>1, <2>2, <2>5 DEF ToSet
<1>4. ASSUME NEW g \in [1 .. 9 -> Nat] PROVE SumOver(g, p) = SumOver(g, <<1, 2, 3, 4, 5, 6, 7, 8, 9>>)
  <2> PICK w : w = <<1, 2, 3, 4, 5, 6, 7, 8, 9>>
    OBVIOUS
  <2>1. w \in Seq(1 .. 9) /\ Len(w) = 9 /\ \A i \in 1 .. 9 : w[i] = i
    BY ONLY w = <<1, 2, 3, 4, 5, 6, 7, 8, 9>>, Upto9
  <2>2. w[1] = 1 /\ w[2] = 2 /\ w[3] = 3 /\ w[4] = 4 /\ w[5] = 5 /\ w[6] = 6 /\ w[7] = 7 /\ w[8] = 8 /\ w[9] = 9
    <3>1. 1 \in 1 .. 9 /\ 2 \in 1 .. 9 /\ 3 \in 1 .. 9 /\ 4 \in 1 .. 9 /\ 5 \in 1 .. 9 /\ 6 \in 1 .. 9 /\ 7 \in 1 .. 9 /\ 8 \in 1 .. 9 /\ 9 \in 1 .. 9
      OBVIOUS
    <3> QED BY ONLY <2>1, <3>1
  <2>3. SumOver(g, w) = g[w[1]] + g[w[2]] + g[w[3]] + g[w[4]] + g[w[5]] + g[w[6]] + g[w[7]] + g[w[8]] + g[w[9]]
    BY ONLY <2>1, g \in [1 .. 9 -> Nat], SumOver9
  <2>4. SumOver(g, p) = g[p[1]] + g[p[2]] + g[p[3]] + g[p[4]] + g[p[5]] + g[p[6]] + g[p[7]] + g[p[8]] + g[p[9]]
    BY ONLY <1>1, g \in [1 .. 9 -> Nat], SumOver9
  <2>5. SumOver(g, w) = g[1] + g[2] + g[3] + g[4] + g[5] + g[6] + g[7] + g[8] + g[9]
    BY ONLY <2>2, <2>3, Zenon
  <2>6. SumOver(g, p) = g[1] + g[4] + g[5] + g[6] + g[9] + g[2] + g[3] + g[7] + g[8]
    BY ONLY <1>2, <2>4, Zenon
  <2> PICK a1 \in Nat, a2 \in Nat, a3 \in Nat, a4 \in Nat, a5 \in Nat, a6 \in Nat, a7 \in Nat, a8 \in Nat, a9 \in Nat : a1 = g[1] /\ a2 = g[2] /\ a3 = g[3] /\ a4 = g[4] /\ a5 = g[5] /\ a6 = g[6] /\ a7 = g[7] /\ a8 = g[8] /\ a9 = g[9]
    <3>1. \A i \in 1 .. 9 : g[i] \in Nat
      BY ONLY g \in [1 .. 9 -> Nat]
    <3>2. 1 \in 1 .. 9 /\ 2 \in 1 .. 9 /\ 3 \in 1 .. 9 /\ 4 \in 1 .. 9 /\ 5 \in 1 .. 9 /\ 6 \in 1 .. 9 /\ 7 \in 1 .. 9 /\ 8 \in 1 .. 9 /\ 9 \in 1 .. 9
      OBVIOUS
    <3>3. g[1] \in Nat /\ g[2] \in Nat /\ g[3] \in Nat /\ g[4] \in Nat /\ g[5] \in Nat /\ g[6] \in Nat /\ g[7] \in Nat /\ g[8] \in Nat /\ g[9] \in Nat
      BY ONLY <3>1, <3>2
    <3> QED BY ONLY <3>3, Zenon
  <2>7. a1 + a2 + a3 + a4 + a5 + a6 + a7 + a8 + a9 = a1 + a4 + a5 + a6 + a9 + a2 + a3 + a7 + a8
    BY ONLY a1 \in Nat, a2 \in Nat, a3 \in Nat, a4 \in Nat, a5 \in Nat, a6 \in Nat, a7 \in Nat, a8 \in Nat, a9 \in Nat
  <2> QED BY <2>5, <2>6, <2>7, Zenon
<1> QED BY <1>1, <1>3, <1>4

\* And that of a command.
LEMMA CommandTaken ==
  ASSUME NEW p, p = <<2, 3, 4, 1>>
  PROVE  /\ p \in Seq(1 .. 4) /\ ToSet(p) = 1 .. 4
         /\ \A g \in [1 .. 4 -> Nat] : SumOver(g, p) = SumOver(g, <<1, 2, 3, 4>>)
<1>1. p \in Seq(1 .. 4) /\ Len(p) = 4
  OBVIOUS
<1>2. p[1] = 2 /\ p[2] = 3 /\ p[3] = 4 /\ p[4] = 1
  OBVIOUS
<1>3. ToSet(p) = 1 .. 4
  <2>1. DOMAIN p = 1 .. 4
    OBVIOUS
  <2>2. \A i \in 1 .. 4 : p[i] \in 1 .. 4
    BY ONLY <1>1, ElementsOf
  <2>3. \A i \in 1 .. 4 : i = 1 \/ i = 2 \/ i = 3 \/ i = 4
    OBVIOUS
  <2>4. 1 \in 1 .. 4 /\ 2 \in 1 .. 4 /\ 3 \in 1 .. 4 /\ 4 \in 1 .. 4
    OBVIOUS
  <2>5. \A i \in 1 .. 4 : \E j \in 1 .. 4 : p[j] = i
    BY ONLY <1>2, <2>3, <2>4
  <2> QED BY ONLY <2>1, <2>2, <2>5 DEF ToSet
<1>4. ASSUME NEW g \in [1 .. 4 -> Nat] PROVE SumOver(g, p) = SumOver(g, <<1, 2, 3, 4>>)
  <2> PICK w : w = <<1, 2, 3, 4>>
    OBVIOUS
  <2>1. w \in Seq(1 .. 4) /\ Len(w) = 4 /\ \A i \in 1 .. 4 : w[i] = i
    BY ONLY w = <<1, 2, 3, 4>>, Upto4
  <2>2. w[1] = 1 /\ w[2] = 2 /\ w[3] = 3 /\ w[4] = 4
    <3>1. 1 \in 1 .. 4 /\ 2 \in 1 .. 4 /\ 3 \in 1 .. 4 /\ 4 \in 1 .. 4
      OBVIOUS
    <3> QED BY ONLY <2>1, <3>1
  <2>3. SumOver(g, w) = g[w[1]] + g[w[2]] + g[w[3]] + g[w[4]]
    BY ONLY <2>1, g \in [1 .. 4 -> Nat], SumOver4
  <2>4. SumOver(g, p) = g[p[1]] + g[p[2]] + g[p[3]] + g[p[4]]
    BY ONLY <1>1, g \in [1 .. 4 -> Nat], SumOver4
  <2>5. SumOver(g, w) = g[1] + g[2] + g[3] + g[4]
    BY ONLY <2>2, <2>3, Zenon
  <2>6. SumOver(g, p) = g[2] + g[3] + g[4] + g[1]
    BY ONLY <1>2, <2>4, Zenon
  <2> PICK a1 \in Nat, a2 \in Nat, a3 \in Nat, a4 \in Nat : a1 = g[1] /\ a2 = g[2] /\ a3 = g[3] /\ a4 = g[4]
    <3>1. \A i \in 1 .. 4 : g[i] \in Nat
      BY ONLY g \in [1 .. 4 -> Nat]
    <3>2. 1 \in 1 .. 4 /\ 2 \in 1 .. 4 /\ 3 \in 1 .. 4 /\ 4 \in 1 .. 4
      OBVIOUS
    <3>3. g[1] \in Nat /\ g[2] \in Nat /\ g[3] \in Nat /\ g[4] \in Nat
      BY ONLY <3>1, <3>2
    <3> QED BY ONLY <3>3, Zenon
  <2>7. a1 + a2 + a3 + a4 = a2 + a3 + a4 + a1
    BY ONLY a1 \in Nat, a2 \in Nat, a3 \in Nat, a4 \in Nat
  <2> QED BY <2>5, <2>6, <2>7, Zenon
<1> QED BY <1>1, <1>3, <1>4

\* A class that writes its fields in order.
LEMMA ClassInOrder ==
  ASSUME NEW c, NEW m \in Nat, c.written \in Seq(1 .. m), Len(c.written) = m,
         \A i \in 1 .. m : c.written[i] = i,
         DOMAIN c.read = 1 .. m, c.merged = 1 .. m, \A n \in 1 .. m : c.read[n] \in ScalarKinds,
         c.sized \in Seq(1 .. m), \A g \in [1 .. m -> Nat] : SumOver(g, c.sized) = SumOver(g, c.written)
  PROVE  InnerClass(c) /\ SizedClass(c)
<1>1. c.written \in Seq(Nat \ {0})
  <2>1. \A i \in 1 .. m : c.written[i] \in Nat \ {0}
    OBVIOUS
  <2>2. c.written = [i \in 1 .. m |-> c.written[i]]
    OBVIOUS
  <2> QED BY ONLY <2>1, <2>2, m \in Nat
<1>2. DOMAIN c.read = {c.written[i] : i \in 1 .. Len(c.written)}
  OBVIOUS
<1> QED BY <1>1, <1>2 DEF InnerClass, SizedClass

\* The methods of the four inner classes agree on the fields: first those of a terminal.
LEMMA TerminalSound == InnerClass(TerminalInfo) /\ SizedClass(TerminalInfo)
<1> PICK c : c = TerminalInfo
  OBVIOUS
<1>1. /\ c.written = <<1, 2, 3, 4, 5, 6, 7, 8, 9>> /\ c.sized = <<1, 2, 3, 4, 5, 6, 7, 9, 8>>
      /\ c.merged = ToSet(<<1, 2, 3, 4, 5, 6, 7, 9, 8>>)
      /\ c.read = [n \in 1..9 |-> IF n = 8 THEN "bool" ELSE "string"]
  BY DEF TerminalInfo, TerminalInfoWritten, TerminalInfoSized, TerminalInfoMerged, TerminalInfoRead
<1>2. c.written \in Seq(1 .. 9) /\ Len(c.written) = 9 /\ \A i \in 1 .. 9 : c.written[i] = i
  BY ONLY <1>1, Upto9
<1>3. /\ c.sized \in Seq(1 .. 9) /\ c.merged = 1 .. 9
      /\ \A g \in [1 .. 9 -> Nat] : SumOver(g, c.sized) = SumOver(g, c.written)
  BY ONLY <1>1, TerminalSums
<1>4. DOMAIN c.read = 1 .. 9 /\ \A n \in 1 .. 9 : c.read[n] \in ScalarKinds
  BY ONLY <1>1 DEF ScalarKinds
<1>5. InnerClass(c) /\ SizedClass(c)
  BY ONLY <1>2, <1>3, <1>4, 9 \in Nat, ClassInOrder
<1> QED BY <1>5

\* Those of a terminal without field 9.
LEMMA TerminalOfProtoSound == InnerClass(TerminalInfoOfProto) /\ SizedClass(TerminalInfoOfProto)
<1> PICK c : c = TerminalInfoOfProto
  OBVIOUS
<1>1. /\ c.written = <<1, 2, 3, 4, 5, 6, 7, 8>> /\ c.sized = <<1, 2, 3, 4, 5, 6, 7, 8>>
      /\ c.merged = 1 .. 8
      /\ c.read = [n \in 1..8 |-> TerminalInfoRead[n]]
  BY DEF TerminalInfoOfProto
<1>2. c.written \in Seq(1 .. 8) /\ Len(c.written) = 8 /\ \A i \in 1 .. 8 : c.written[i] = i
  BY ONLY <1>1, Upto8
<1>3. /\ c.sized \in Seq(1 .. 8) /\ c.merged = 1 .. 8
      /\ \A g \in [1 .. 8 -> Nat] : SumOver(g, c.sized) = SumOver(g, c.written)
  BY ONLY <1>1, <1>2
<1>4. DOMAIN c.read = 1 .. 8 /\ \A n \in 1 .. 8 : c.read[n] \in ScalarKinds
  <2>1. \A n \in 1 .. 8 : c.read[n] = IF n = 8 THEN "bool" ELSE "string"
    BY <1>1 DEF TerminalInfoRead
  <2> QED BY ONLY <1>1, <2>1 DEF ScalarKinds
<1>5. InnerClass(c) /\ SizedClass(c)
  BY ONLY <1>2, <1>3, <1>4, 8 \in Nat, ClassInOrder
<1> QED BY <1>5

\* Those of a base station.
LEMMA StationSound == InnerClass(BaseStationInfo) /\ SizedClass(BaseStationInfo)
<1> PICK c : c = BaseStationInfo
  OBVIOUS
<1>1. /\ c.written = <<1, 2, 3, 4, 5, 6, 7, 8, 9>> /\ c.sized = <<1, 2, 3, 4, 5, 6, 9, 7, 8>>
      /\ c.merged = ToSet(<<1, 4, 5, 6, 9, 2, 3, 7, 8>>)
      /\ c.read = [n \in 1..9 |-> CASE n \in {1, 4, 5, 6, 9} -> "string"
                                    [] n \in {2, 3} -> "number"
                                    [] n \in {7, 8} -> "bool"]
  BY DEF BaseStationInfo, BaseStationInfoWritten, BaseStationInfoSized, BaseStationInfoMerged, BaseStationInfoRead
<1>2. c.written \in Seq(1 .. 9) /\ Len(c.written) = 9 /\ \A i \in 1 .. 9 : c.written[i] = i
  BY ONLY <1>1, Upto9
<1>3. /\ c.sized \in Seq(1 .. 9)
      /\ \A g \in [1 .. 9 -> Nat] : SumOver(g, c.sized) = SumOver(g, c.written)
  BY ONLY <1>1, StationSums
<1>4. c.merged = 1 .. 9
  BY ONLY <1>1, StationTaken
<1>5. DOMAIN c.read = 1 .. 9 /\ \A n \in 1 .. 9 : c.read[n] \in ScalarKinds
  BY ONLY <1>1 DEF ScalarKinds
<1>6. InnerClass(c) /\ SizedClass(c)
  BY ONLY <1>2, <1>3, <1>4, <1>5, 9 \in Nat, ClassInOrder
<1> QED BY <1>6

\* Those of the two commands.
LEMMA CommandsSound ==
  /\ InnerClass(BaseCommandInfo) /\ SizedClass(BaseCommandInfo)
  /\ InnerClass(TermCommandInfo) /\ SizedClass(TermCommandInfo)
<1> SUFFICES ASSUME NEW c, c \in {BaseCommandInfo, TermCommandInfo}
             PROVE  InnerClass(c) /\ SizedClass(c)
  OBVIOUS
<1>1. /\ c.written = <<1, 2, 3, 4>> /\ c.sized = <<1, 2, 3, 4>> /\ c.merged = ToSet(<<2, 3, 4, 1>>)
      /\ \/ c.read = [n \in 1..4 |-> IF n = 1 THEN "BaseCommandId" ELSE "string"]
         \/ c.read = [n \in 1..4 |-> IF n = 1 THEN "TermCommandId" ELSE "string"]
  <2>1. CASE c = BaseCommandInfo
    BY <2>1 DEF BaseCommandInfo, BaseCommandInfoWritten, BaseCommandInfoSized, BaseCommandInfoMerged,
       BaseCommandInfoRead
  <2>2. CASE c = TermCommandInfo
    BY <2>2 DEF TermCommandInfo, TermCommandInfoWritten, TermCommandInfoSized, TermCommandInfoMerged,
       TermCommandInfoRead
  <2> QED BY <2>1, <2>2
<1>2. c.written \in Seq(1 .. 4) /\ Len(c.written) = 4 /\ \A i \in 1 .. 4 : c.written[i] = i
  BY ONLY <1>1, Upto4
<1>3. /\ c.sized \in Seq(1 .. 4)
      /\ \A g \in [1 .. 4 -> Nat] : SumOver(g, c.sized) = SumOver(g, c.written)
  BY ONLY <1>1, <1>2
<1>4. c.merged = 1 .. 4
  BY ONLY <1>1, CommandTaken
<1>5. DOMAIN c.read = 1 .. 4 /\ \A n \in 1 .. 4 : c.read[n] \in ScalarKinds
  BY ONLY <1>1 DEF ScalarKinds
<1> QED BY ONLY <1>2, <1>3, <1>4, <1>5, 4 \in Nat, ClassInOrder

\* A class whose fields are scalar, messages of sound classes, or lists of such messages.
OuterClass(c) ==
  /\ c.written \in Seq(Nat \ {0})
  /\ DOMAIN c.read = {c.written[i] : i \in 1 .. Len(c.written)}
  /\ \A i, j \in 1 .. Len(c.written) : c.written[i] = c.written[j] => i = j
  /\ c.merged = DOMAIN c.read
  /\ \A n \in DOMAIN c.read :
        \/ c.read[n] \in ScalarKinds
        \/ c.read[n] \in {"message", "repeated"} /\ InnerClass(c.class[n]) /\ SizedClass(c.class[n])

IsInfoList(c, l) == (\E S : l \in Seq(S)) /\ \A i \in 1 .. Len(l) : IsInfo(c, l[i])

\* A value of field n of such a class.
IsValue(c, n, v) ==
  CASE c.read[n] = "message" -> IsInfo(c.class[n], v)
    [] c.read[n] = "repeated" -> IsInfoList(c.class[n], v) /\ Len(v) # 0
    [] OTHER -> v \in ScalarValues(c.read[n])

\* A message of such a class.
IsWhole(c, m) ==
  /\ IsMessage(m)
  /\ DOMAIN m.f \subseteq DOMAIN c.read
  /\ \A n \in DOMAIN m.f : IsValue(c, n, m.f[n])
  /\ \A i \in 1 .. Len(m.unknown) : ~Understood(c, m.unknown[i])

\* The entry of a scalar.
ScalarEntry(c, n, v) == [num |-> n, wire |-> WireType(c.read[n]), val |-> ScalarBytes(c.read[n], v)]

\* It is understood, and brings the value back.
LEMMA ScalarEntryIs ==
  ASSUME NEW c, NEW n \in Nat \ {0}, n \in DOMAIN c.read, c.read[n] \in ScalarKinds,
         NEW v \in ScalarValues(c.read[n])
  PROVE  /\ ScalarEntry(c, n, v) \in WireEntries
         /\ Understood(c, ScalarEntry(c, n, v))
         /\ ScalarOf(c.read[n], ScalarEntry(c, n, v).val) = v
         /\ ScalarEntry(c, n, v).num = n
         /\ Len(EntryBytes(ScalarEntry(c, n, v))) = IF c.read[n] = "string" THEN 2 + Len(v) ELSE 2
<1> PICK kind, e : kind = c.read[n] /\ e = ScalarEntry(c, n, v)
  OBVIOUS
<1>2. kind \in ScalarKinds /\ v \in ScalarValues(kind)
  OBVIOUS
<1> PICK y : y = ScalarBytes(kind, v)
  OBVIOUS
<1>3. /\ y \in Seq(Nat) /\ WireType(kind) \in {0, 2} /\ (WireType(kind) = 0 => Len(y) = 1)
      /\ ScalarOf(kind, y) = v
      /\ kind = "BaseCommandId" => BaseCommandId_IsValid(y[1])
      /\ kind = "TermCommandId" => TermCommandId_IsValid(y[1])
  BY ONLY <1>2, y = ScalarBytes(kind, v), ScalarReturns
<1>4. e = [num |-> n, wire |-> WireType(kind), val |-> y]
  BY DEF ScalarEntry
<1>5. e.num = n /\ e.wire = WireType(kind) /\ e.val = y
  BY ONLY <1>4
<1>6. e \in WireEntries
  BY ONLY n \in Nat \ {0}, <1>3, <1>4, <1>5 DEF WireEntries
<1>7. Understood(c, e)
  BY ONLY n \in DOMAIN c.read, <1>3, <1>5, kind = c.read[n] DEF Understood
<1>8. Len(EntryBytes(e)) = IF kind = "string" THEN 2 + Len(v) ELSE 2
  <2>1. /\ Len(e.val) = IF kind = "string" THEN Len(v) ELSE 1
        /\ e.wire = IF kind = "string" THEN 2 ELSE 0
    BY ONLY <1>2, <1>5, y = ScalarBytes(kind, v), ScalarReturns
  <2>2. Len(EntryBytes(e)) = HeadLength(e) + Len(e.val)
    BY ONLY <1>6, EntryIs
  <2>3. CASE kind = "string"
    BY ONLY <2>1, <2>2, <2>3 DEF HeadLength
  <2>4. CASE kind # "string"
    BY ONLY <2>1, <2>2, <2>4 DEF HeadLength
  <2> QED BY <2>3, <2>4
<1> QED BY ONLY <1>3, <1>5, <1>6, <1>7, <1>8, kind = c.read[n], e = ScalarEntry(c, n, v)

\* The entry of an inner message.
InnerEntry(c, n, x) == [num |-> n, wire |-> 2, val |-> SerializeInfo(c.class[n], x)]

\* It is understood, takes what InnerSize says, and reading its bytes merges the inner message.
LEMMA InnerEntryIs ==
  ASSUME NEW c, NEW n \in Nat \ {0}, n \in DOMAIN c.read, c.read[n] \in {"message", "repeated"},
         InnerClass(c.class[n]), SizedClass(c.class[n]), NEW x, IsInfo(c.class[n], x)
  PROVE  /\ InnerEntry(c, n, x) \in WireEntries
         /\ Understood(c, InnerEntry(c, n, x))
         /\ InnerBytes(c, n, x) = EntryBytes(InnerEntry(c, n, x))
         /\ InnerBytes(c, n, x) \in Seq(Nat) /\ Len(InnerBytes(c, n, x)) = InnerSize(c, n, x)
         /\ InnerEntry(c, n, x).num = n
         /\ \A a : IsMessage(a) => ReadInfo(c.class[n], a, InnerEntry(c, n, x).val)
                                      = [ok |-> TRUE, m |-> MergeInfo(c.class[n], a, x)]
<1> PICK d, e : d = c.class[n] /\ e = InnerEntry(c, n, x)
  OBVIOUS
<1>0. InnerClass(d) /\ SizedClass(d) /\ IsInfo(d, x)
  OBVIOUS
<1> PICK y \in Seq(Nat) : y = SerializeInfo(d, x) /\ InfoByteSize(d, x) = Len(y)
  BY ONLY <1>0, InfoSizes
<1>1. e = [num |-> n, wire |-> 2, val |-> y]
  BY DEF InnerEntry
<1>2. e.num = n /\ e.wire = 2 /\ e.val = y
  BY ONLY <1>1
<1>3. e \in WireEntries
  BY ONLY n \in Nat \ {0}, y \in Seq(Nat), <1>1, <1>2 DEF WireEntries
<1>4. Understood(c, e)
  BY <1>2 DEF Understood, WireType
<1>5. InnerBytes(c, n, x) = EntryBytes(e)
  <2> PICK l \in Nat, h \in Nat : l = Len(y) /\ h = n * 8 + 2
    OBVIOUS
  <2>1. InnerBytes(c, n, x) = <<h, l>> \o y
    BY DEF InnerBytes
  <2>2. EntryBytes(e) = (<<h>> \o <<l>>) \o y
    BY <1>2 DEF EntryBytes
  <2>3. <<h>> \o <<l>> = <<h, l>>
    BY ONLY h \in Nat, l \in Nat, PairJoins
  <2> QED BY <2>1, <2>2, <2>3
<1>6. EntryBytes(e) \in Seq(Nat) /\ Len(EntryBytes(e)) = HeadLength(e) + Len(e.val)
  BY ONLY <1>3, EntryIs
<1>7. HeadLength(e) + Len(e.val) = InnerSize(c, n, x)
  BY <1>2 DEF HeadLength, InnerSize
<1>8. ASSUME NEW a, IsMessage(a) PROVE ReadInfo(d, a, e.val) = [ok |-> TRUE, m |-> MergeInfo(d, a, x)]
  <2>1. InfoMoves(d, SerializeInfo(d, x), a, MergeInfo(d, a, x))
    BY ONLY <1>0, <1>8, InfoReads
  <2> QED BY ONLY <1>2, <2>1, y = SerializeInfo(d, x), InfoMovesRead
<1> QED BY ONLY <1>2, <1>3, <1>4, <1>5, <1>6, <1>7, <1>8, d = c.class[n], e = InnerEntry(c, n, x)

\* How a field of b is merged into message x.
MergedField(c, x, b, n) ==
  CASE c.read[n] = "repeated" -> ListOf(x, n) \o b.f[n]
    [] c.read[n] = "message" -> MergeInfo(c.class[n], SubOf(x, n), b.f[n])
    [] OTHER -> b.f[n]

\* A field set twice has the second value.
LEMMA SetTwice ==
  ASSUME NEW x, IsMessage(x), NEW n, NEW u, NEW v
  PROVE  /\ SetField(SetField(x, n, u), n, v) = SetField(x, n, v)
         /\ IsMessage(SetField(x, n, u)) /\ Present(SetField(x, n, u), n) /\ SetField(x, n, u).f[n] = u
<1> PICK g, w : g = x.f /\ w = x.unknown
  OBVIOUS
<1>1. x = [f |-> g, unknown |-> w]
  BY DEF IsMessage
<1>2. \A z : SetField(x, n, z) = [f |-> Put(g, n, z), unknown |-> w]
  BY ONLY <1>1, SetFieldIs
<1>3. SetField([f |-> Put(g, n, u), unknown |-> w], n, v) = [f |-> Put(Put(g, n, u), n, v), unknown |-> w]
  BY ONLY SetFieldIs
<1>4. Put(Put(g, n, u), n, v) = Put(g, n, v)
  <2>1. DOMAIN Put(g, n, u) = DOMAIN g \cup {n} /\ \A j \in DOMAIN g : j # n => Put(g, n, u)[j] = g[j]
    BY DEF Put
  <2>2. (DOMAIN g \cup {n}) \cup {n} = DOMAIN g \cup {n}
    OBVIOUS
  <2>3. \A j \in DOMAIN g \cup {n} : (IF j = n THEN v ELSE Put(g, n, u)[j]) = (IF j = n THEN v ELSE g[j])
    BY ONLY <2>1
  <2>4. Put(Put(g, n, u), n, v) = [j \in DOMAIN g \cup {n} |-> IF j = n THEN v ELSE Put(g, n, u)[j]]
    BY ONLY <2>1, <2>2 DEF Put
  <2> QED BY ONLY <2>3, <2>4 DEF Put
<1>5. Put(g, n, u) = [j \in DOMAIN Put(g, n, u) |-> Put(g, n, u)[j]] /\ n \in DOMAIN Put(g, n, u) /\ Put(g, n, u)[n] = u
  BY DEF Put
<1> PICK h, y : h = Put(g, n, u) /\ y = SetField(x, n, u)
  OBVIOUS
<1>6. y = [f |-> h, unknown |-> w]
  BY ONLY <1>2, h = Put(g, n, u), y = SetField(x, n, u)
<1>7. y.f = h /\ y.unknown = w
  BY ONLY <1>6
<1>8. w \in Seq(WireEntries)
  BY DEF IsMessage
<1>9. IsMessage(y) /\ Present(y, n) /\ y.f[n] = u
  BY ONLY <1>5, <1>6, <1>7, <1>8, h = Put(g, n, u) DEF IsMessage, Present
<1>10. SetField(y, n, v) = SetField(x, n, v)
  BY ONLY <1>2, <1>3, <1>4, y = SetField(x, n, u)
<1> QED BY ONLY <1>9, <1>10, y = SetField(x, n, u)

\* What is read of a message replaced.
LEMMA ReadExcept ==
  ASSUME NEW p, NEW q, NEW z, NEW r, r = [ok |-> p, m |-> q]
  PROVE  [r EXCEPT !.m = z] = [ok |-> p, m |-> z]
OBVIOUS

\* What is read so far.
SoFar(x) == [ok |-> TRUE, m |-> x]

\* An entry that is taken, of each kind.
LEMMA TakeScalar ==
  ASSUME NEW c, NEW x, NEW e, Understood(c, e), NEW n, e.num = n, c.read[n] \in ScalarKinds
  PROVE  Take(c, SoFar(x), e) = SoFar(SetField(x, n, ScalarOf(c.read[n], e.val)))
<1>1. c.read[n] \notin {"message", "repeated"}
  BY DEF ScalarKinds
<1> PICK r : r = [ok |-> TRUE, m |-> x]
  OBVIOUS
<1> PICK v : v = ScalarOf(c.read[n], e.val)
  OBVIOUS
<1>2. Take(c, r, e) = [r EXCEPT !.m = SetField(@, n, v)]
  BY <1>1 DEF Take
<1>3. [r EXCEPT !.m = SetField(@, n, v)] = [ok |-> TRUE, m |-> SetField(x, n, v)]
  <2>1. [r EXCEPT !.m = SetField(@, n, v)] = [r EXCEPT !.m = SetField(r.m, n, v)]
    OBVIOUS
  <2>2. r.m = x
    BY ONLY r = [ok |-> TRUE, m |-> x]
  <2>3. [r EXCEPT !.m = SetField(x, n, v)] = [ok |-> TRUE, m |-> SetField(x, n, v)]
    BY ONLY r = [ok |-> TRUE, m |-> x], ReadExcept
  <2> QED BY ONLY <2>1, <2>2, <2>3
<1> QED BY ONLY <1>2, <1>3, r = [ok |-> TRUE, m |-> x], v = ScalarOf(c.read[n], e.val) DEF SoFar

\* An inner message.
LEMMA TakeMessage ==
  ASSUME NEW c, NEW x, NEW e, Understood(c, e), NEW n, e.num = n, c.read[n] = "message",
         NEW y, ReadInfo(c.class[n], SubOf(x, n), e.val) = [ok |-> TRUE, m |-> y]
  PROVE  Take(c, SoFar(x), e) = SoFar(SetField(x, n, y))
<1> PICK r : r = [ok |-> TRUE, m |-> x]
  OBVIOUS
<1>1. r.ok = TRUE /\ r.m = x
  BY ONLY r = [ok |-> TRUE, m |-> x]
<1> PICK into : into = ReadInfo(c.class[n], SubOf(x, n), e.val)
  OBVIOUS
<1>2. into.ok = TRUE /\ into.m = y
  BY ONLY into = ReadInfo(c.class[n], SubOf(x, n), e.val),
          ReadInfo(c.class[n], SubOf(x, n), e.val) = [ok |-> TRUE, m |-> y]
<1>3. Take(c, r, e) = [ok |-> r.ok /\ into.ok, m |-> SetField(r.m, n, into.m)]
  BY <1>1 DEF Take
<1> QED BY ONLY <1>1, <1>2, <1>3, r = [ok |-> TRUE, m |-> x] DEF SoFar

\* An element of a list.
LEMMA TakeElement ==
  ASSUME NEW c, NEW x, NEW e, Understood(c, e), NEW n, e.num = n, c.read[n] = "repeated",
         NEW y, ReadInfo(c.class[n], Empty, e.val) = [ok |-> TRUE, m |-> y]
  PROVE  Take(c, SoFar(x), e) = SoFar(SetField(x, n, Append(ListOf(x, n), y)))
<1> PICK r : r = [ok |-> TRUE, m |-> x]
  OBVIOUS
<1>1. r.ok = TRUE /\ r.m = x
  BY ONLY r = [ok |-> TRUE, m |-> x]
<1> PICK into : into = ReadInfo(c.class[n], Empty, e.val)
  OBVIOUS
<1>2. into.ok = TRUE /\ into.m = y
  BY ONLY into = ReadInfo(c.class[n], Empty, e.val), ReadInfo(c.class[n], Empty, e.val) = [ok |-> TRUE, m |-> y]
<1>3. Take(c, r, e) = [ok |-> r.ok /\ into.ok, m |-> SetField(r.m, n, Append(ListOf(r.m, n), into.m))]
  BY <1>1 DEF Take
<1> QED BY ONLY <1>1, <1>2, <1>3, r = [ok |-> TRUE, m |-> x] DEF SoFar

\* An entry that is not understood.
LEMMA TakeUnknown ==
  ASSUME NEW c, NEW g, NEW u, NEW e, ~Understood(c, e)
  PROVE  Take(c, SoFar([f |-> g, unknown |-> u]), e) = SoFar([f |-> g, unknown |-> Append(u, e)])
<1> PICK x, r : x = [f |-> g, unknown |-> u] /\ r = [ok |-> TRUE, m |-> x]
  OBVIOUS
<1>1. Take(c, r, e) = [r EXCEPT !.m.unknown = Append(@, e)]
  BY DEF Take
<1>2. [r EXCEPT !.m.unknown = Append(@, e)] = [r EXCEPT !.m = [r.m EXCEPT !.unknown = Append(r.m.unknown, e)]]
  OBVIOUS
<1>3. [r EXCEPT !.m = [r.m EXCEPT !.unknown = Append(r.m.unknown, e)]]
         = [ok |-> TRUE, m |-> [f |-> g, unknown |-> Append(u, e)]]
  <2> PICK w, y : w = Append(u, e) /\ y = [f |-> g, unknown |-> w]
    OBVIOUS
  <2>1. x.unknown = u /\ [x EXCEPT !.unknown = w] = y
    BY ONLY x = [f |-> g, unknown |-> u], y = [f |-> g, unknown |-> w]
  <2>2. r.m = x
    BY ONLY r = [ok |-> TRUE, m |-> x]
  <2>3. [r.m EXCEPT !.unknown = Append(r.m.unknown, e)] = y
    BY ONLY <2>1, <2>2, w = Append(u, e)
  <2>4. [r EXCEPT !.m = y] = [ok |-> TRUE, m |-> y]
    BY ONLY r = [ok |-> TRUE, m |-> x], ReadExcept
  <2> QED BY ONLY <2>3, <2>4, w = Append(u, e), y = [f |-> g, unknown |-> w]
<1> QED BY ONLY <1>1, <1>2, <1>3, x = [f |-> g, unknown |-> u], r = [ok |-> TRUE, m |-> x] DEF SoFar

\* An empty message is a message, and what is merged into it is as it was.
LEMMA EmptyIs ==
  IsMessage(Empty) /\ DOMAIN Empty.f = {} /\ Empty.unknown = <<>>
<1>1. Empty.f = <<>> /\ Empty.unknown = <<>> /\ Empty = [f |-> Empty.f, unknown |-> Empty.unknown]
  BY DEF Empty
<1>2. <<>> \in Seq(WireEntries) /\ DOMAIN <<>> = {} /\ <<>> = [n \in DOMAIN <<>> |-> <<>>[n]]
  <2>1. <<>> \in Seq(WireEntries)
    BY ONLY EmptySeq
  <2> QED BY ONLY <2>1
<1> QED BY ONLY <1>1, <1>2 DEF IsMessage

\* An inner message merged into an empty one is as it was.
LEMMA EmptyMerges ==
  ASSUME NEW d, InnerClass(d), NEW y, IsInfo(d, y)
  PROVE  MergeInfo(d, Empty, y) = y
<1>1. d.merged \cap DOMAIN y.f = DOMAIN y.f
  BY DEF InnerClass, IsInfo
<1>2. DOMAIN Empty.f \cup DOMAIN y.f = DOMAIN y.f
  BY EmptyIs
<1>3. MergeInfo(d, Empty, y) = [f |-> [n \in DOMAIN y.f |-> y.f[n]], unknown |-> Empty.unknown \o y.unknown]
  BY <1>1, <1>2 DEF MergeInfo
<1>4. Empty.unknown \o y.unknown = y.unknown
  BY EmptyIs, ConcatEmptySeq DEF IsInfo
<1> QED BY <1>3, <1>4 DEF IsInfo

\* A sequence over a larger set.
LEMMA SeqIn ==
  ASSUME NEW S, NEW T, S \subseteq T, NEW s \in Seq(S)
  PROVE  s \in Seq(T)
OBVIOUS

\* The beginning of a sequence and the next element.
LEMMA OneMore ==
  ASSUME NEW S, NEW l \in Seq(S), NEW old \in Seq(S)
  PROVE  /\ SubSeq(l, 1, 0) = <<>> /\ old \o SubSeq(l, 1, 0) = old
         /\ \A j \in Nat : j + 1 <= Len(l)
               => Append(old \o SubSeq(l, 1, j), l[j + 1]) = old \o SubSeq(l, 1, j + 1)
<1>1. SubSeq(l, 1, 0) = <<>>
  BY SubSeqEmpty
<1>2. old \o <<>> = old
  BY ONLY old \in Seq(S), ConcatEmptySeq
<1> SUFFICES ASSUME NEW j \in Nat, NEW k, k = j + 1, k <= Len(l)
             PROVE  Append(old \o SubSeq(l, 1, j), l[k]) = old \o SubSeq(l, 1, k)
  BY <1>1, <1>2
<1>3. k \in 1 .. Len(l) /\ 1 \in 1 .. Len(l) /\ k - 1 = j
  OBVIOUS
<1> PICK p \in Seq(S) : p = SubSeq(l, 1, j)
  <2>1. \A i \in 1 .. j : l[i] \in S
    <3>1. \A i \in 1 .. j : i \in 1 .. Len(l)
      OBVIOUS
    <3> QED BY ONLY <3>1, l \in Seq(S), ElementsOf
  <2>2. j \in Int /\ 1 \in Int
    OBVIOUS
  <2>3. SubSeq(l, 1, j) \in Seq(S)
    BY ONLY <2>1, <2>2, SubSeqProperties
  <2> QED BY <2>3
<1> PICK e \in S : e = l[k]
  BY <1>3
<1>4. SubSeq(l, 1, k) = p \o <<e>>
  <2>1. SubSeq(l, 1, k) = SubSeq(l, 1, k - 1) \o <<l[k]>>
    BY ONLY <1>3, l \in Seq(S), SubSeqRecursiveSecond
  <2> QED BY ONLY <1>3, <2>1, p = SubSeq(l, 1, j), e = l[k]
<1> PICK q \in Seq(S) : q = <<e>>
  BY OneIsSeq
<1>5. (old \o p) \o q = old \o (p \o q)
  BY ONLY old \in Seq(S), p \in Seq(S), q \in Seq(S), ConcatAssociative
<1> PICK z \in Seq(S) : z = old \o p
  BY ConcatProperties
<1>6. Append(z, e) = z \o <<e>>
  BY ONLY z \in Seq(S), e \in S
<1> QED BY ONLY <1>4, <1>5, <1>6, z = old \o p, q = <<e>>, e = l[k], p = SubSeq(l, 1, j)

\* Message x after the first j elements of l have been read into field n.
ListUpto(x, n, l, j) == IF j = 0 THEN x ELSE SetField(x, n, ListOf(x, n) \o SubSeq(l, 1, j))

\* One more element.
LEMMA ListUptoStep ==
  ASSUME NEW x, IsMessage(x), NEW n, NEW S, NEW l \in Seq(S), ListOf(x, n) \in Seq(S),
         NEW j \in Nat, NEW k, k = j + 1, k <= Len(l)
  PROVE  SetField(ListUpto(x, n, l, j), n, Append(ListOf(ListUpto(x, n, l, j), n), l[k])) = ListUpto(x, n, l, k)
<1> PICK old \in Seq(S) : old = ListOf(x, n)
  OBVIOUS
<1>1. /\ old \o SubSeq(l, 1, 0) = old
      /\ Append(old \o SubSeq(l, 1, j), l[k]) = old \o SubSeq(l, 1, k)
  <2>1. /\ old \o SubSeq(l, 1, 0) = old
        /\ \A i \in Nat : i + 1 <= Len(l)
              => Append(old \o SubSeq(l, 1, i), l[i + 1]) = old \o SubSeq(l, 1, i + 1)
    BY ONLY l \in Seq(S), old \in Seq(S), OneMore
  <2> QED BY ONLY <2>1, j \in Nat, k = j + 1, k <= Len(l)
<1>2. ListUpto(x, n, l, k) = SetField(x, n, old \o SubSeq(l, 1, k))
  <2>1. k # 0
    OBVIOUS
  <2> QED BY <2>1 DEF ListUpto
<1>3. CASE j = 0
  <2>1. ListUpto(x, n, l, j) = x
    BY ONLY <1>3 DEF ListUpto
  <2>2. Append(old, l[k]) = old \o SubSeq(l, 1, k)
    BY ONLY <1>1, <1>3
  <2> QED BY ONLY <1>2, <2>1, <2>2, old = ListOf(x, n)
<1>4. CASE j # 0
  <2> PICK u : u = old \o SubSeq(l, 1, j)
    OBVIOUS
  <2>1. ListUpto(x, n, l, j) = SetField(x, n, u)
    BY ONLY <1>4, u = old \o SubSeq(l, 1, j), old = ListOf(x, n) DEF ListUpto
  <2>2. /\ \A v : SetField(SetField(x, n, u), n, v) = SetField(x, n, v)
        /\ Present(SetField(x, n, u), n) /\ SetField(x, n, u).f[n] = u
    BY ONLY IsMessage(x), SetTwice
  <2>3. ListOf(SetField(x, n, u), n) = u
    BY ONLY <2>2 DEF ListOf
  <2> QED BY ONLY <1>1, <1>2, <2>1, <2>2, <2>3, u = old \o SubSeq(l, 1, j)
<1> QED BY <1>3, <1>4

\* A read that has failed.
Failed(r) == \E y : r = [ok |-> FALSE, m |-> y]

\* It stays failed.
LEMMA TakeFailed ==
  ASSUME NEW c, NEW r, Failed(r), NEW e
  PROVE  Failed(Take(c, r, e))
<1> PICK y : r = [ok |-> FALSE, m |-> y]
  BY DEF Failed
<1> PICK no \in BOOLEAN : no = FALSE
  OBVIOUS
<1>0. r = [ok |-> no, m |-> y]
  BY ONLY r = [ok |-> FALSE, m |-> y], no = FALSE
<1>1. CASE ~Understood(c, e)
  <2> PICK z : z = [r.m EXCEPT !.unknown = Append(r.m.unknown, e)]
    OBVIOUS
  <2>1. Take(c, r, e) = [r EXCEPT !.m = z]
    BY <1>1 DEF Take
  <2>2. Take(c, r, e) = [ok |-> no, m |-> z]
    BY ONLY <1>0, <2>1
  <2> QED BY ONLY <2>2, no = FALSE DEF Failed
<1>2. CASE Understood(c, e) /\ c.read[e.num] \notin {"message", "repeated"}
  <2> PICK z : z = SetField(r.m, e.num, ScalarOf(c.read[e.num], e.val))
    OBVIOUS
  <2>1. Take(c, r, e) = [r EXCEPT !.m = z]
    BY <1>2 DEF Take
  <2>2. Take(c, r, e) = [ok |-> no, m |-> z]
    BY ONLY <1>0, <2>1
  <2> QED BY ONLY <2>2, no = FALSE DEF Failed
<1>3. CASE Understood(c, e) /\ c.read[e.num] \in {"message", "repeated"}
  <2> DEFINE into == ReadInfo(c.class[e.num], IF c.read[e.num] = "message" THEN SubOf(r.m, e.num) ELSE Empty, e.val)
  <2> PICK z : z = SetField(r.m, e.num, IF c.read[e.num] = "message" THEN into.m ELSE Append(ListOf(r.m, e.num), into.m))
    OBVIOUS
  <2>1. Take(c, r, e) = [ok |-> r.ok /\ into.ok, m |-> z]
    BY <1>3 DEF Take
  <2>2. (r.ok /\ into.ok) = FALSE
    BY ONLY r = [ok |-> FALSE, m |-> y]
  <2> QED BY ONLY <2>1, <2>2 DEF Failed
<1> QED BY <1>1, <1>2, <1>3

\* Whatever is read behind.
LEMMA AllTakenFailed ==
  ASSUME NEW c, NEW x, Failed(x), NEW es \in Seq(WireEntries)
  PROVE  Failed(AllTaken(c, x, es))
<1> PICK n \in Nat : n = Len(es)
  OBVIOUS
<1> PICK f : TakenOneByOne(c, x, es, n, f)
  BY ONLY n \in Nat, n = Len(es), TakesUnfold
<1>1. f[0] = x /\ AllTaken(c, x, es) = f[n] /\ \A i \in 1 .. n : f[i] = Take(c, f[i - 1], es[i])
  BY ONLY TakenOneByOne(c, x, es, n, f) DEF TakenOneByOne
<1> DEFINE P == {k \in Nat : k <= n => Failed(f[k])}
<1>2. 0 \in P
  BY <1>1
<1>3. ASSUME NEW k \in Nat, k \in P PROVE k + 1 \in P
  <2> SUFFICES ASSUME k + 1 <= n PROVE Failed(f[k + 1])
    BY k + 1 \in Nat
  <2>1. k + 1 \in 1 .. n /\ (k + 1) - 1 = k /\ k <= n
    OBVIOUS
  <2>2. Failed(f[k]) /\ f[k + 1] = Take(c, f[k], es[k + 1])
    BY <1>1, <1>3, <2>1
  <2> QED BY ONLY <2>2, TakeFailed
<1>4. n \in P
  <2> HIDE DEF P
  <2>1. \A k \in Nat : k \in P => k + 1 \in P
    BY <1>3
  <2>2. Nat \subseteq P
    BY ONLY <1>2, <2>1, NatSetInduction
  <2> QED BY <2>2
<1>5. Failed(f[n])
  BY <1>4
<1> QED BY ONLY <1>1, <1>5

\* Reading the bytes s makes y of x, and after each entry it is in R.
Along(c, s, x, y, R) ==
  \E es \in Seq(WireEntries) : /\ s = BytesOf(es) /\ AllTaken(c, x, es) = y
                               /\ \A j \in 0 .. Len(es) : AllTaken(c, x, SubSeq(es, 1, j)) \in R

\* No entry and one entry.
LEMMA FewTaken ==
  ASSUME NEW c, NEW x
  PROVE  AllTaken(c, x, <<>>) = x /\ \A e \in WireEntries : AllTaken(c, x, <<e>>) = Take(c, x, e)
<1>1. AllTaken(c, x, <<>>) = x
  <2> PICK es \in Seq(WireEntries), n \in Nat : es = <<>> /\ n = 0 /\ n = Len(es)
    <3>1. <<>> \in Seq(WireEntries) /\ Len(<<>>) = 0
      BY ONLY EmptySeq
    <3> QED BY <3>1
  <2> PICK f : TakenOneByOne(c, x, es, n, f)
    BY ONLY n \in Nat, n = Len(es), TakesUnfold
  <2> QED BY DEF TakenOneByOne
<1>2. ASSUME NEW e \in WireEntries PROVE AllTaken(c, x, <<e>>) = Take(c, x, e)
  <2>1. <<e>> \in Seq(WireEntries) /\ Len(<<e>>) = 1 /\ <<e>>[1] = e
    BY OneIsSeq
  <2> PICK es : es = <<e>>
    OBVIOUS
  <2> PICK n \in Nat : n = 1
    OBVIOUS
  <2>2. es \in Seq(WireEntries) /\ n = Len(es) /\ es[1] = e
    BY ONLY <2>1, es = <<e>>, n = 1
  <2> PICK f : TakenOneByOne(c, x, es, n, f)
    BY ONLY <2>2, n \in Nat, TakesUnfold
  <2>3. f[0] = x /\ AllTaken(c, x, es) = f[1] /\ \A i \in 1 .. 1 : f[i] = Take(c, f[i - 1], es[i])
    BY DEF TakenOneByOne
  <2>4. 1 \in 1 .. 1 /\ 1 - 1 = 0
    OBVIOUS
  <2> QED BY ONLY <2>2, <2>3, <2>4, es = <<e>>
<1> QED BY <1>1, <1>2

\* Reading no bytes.
LEMMA AlongNone ==
  ASSUME NEW c, NEW x, NEW R, x \in R
  PROVE  Along(c, <<>>, x, x, R)
<1> PICK es \in Seq(WireEntries) : es = <<>> /\ Len(es) = 0
  <2>1. <<>> \in Seq(WireEntries) /\ Len(<<>>) = 0
    BY ONLY EmptySeq
  <2> QED BY <2>1
<1>1. <<>> = BytesOf(es) /\ AllTaken(c, x, es) = x
  BY BytesOfFew, FewTaken
<1>2. ASSUME NEW j \in 0 .. Len(es) PROVE AllTaken(c, x, SubSeq(es, 1, j)) \in R
  <2>1. SubSeq(es, 1, j) = es
    BY SubSeqFull
  <2> QED BY <1>1, <2>1
<1> QED BY ONLY <1>1, <1>2, es \in Seq(WireEntries) DEF Along

\* Reading one entry.
LEMMA AlongOne ==
  ASSUME NEW c, NEW x, NEW e \in WireEntries, NEW R, x \in R, Take(c, x, e) \in R
  PROVE  Along(c, EntryBytes(e), x, Take(c, x, e), R)
<1> PICK es : es = <<e>>
  OBVIOUS
<1>1. es \in Seq(WireEntries) /\ Len(es) = 1
  BY OneIsSeq
<1>2. EntryBytes(e) = BytesOf(es) /\ AllTaken(c, x, es) = Take(c, x, e)
  BY BytesOfFew, FewTaken
<1>3. ASSUME NEW j \in 0 .. Len(es) PROVE AllTaken(c, x, SubSeq(es, 1, j)) \in R
  <2>1. CASE j = 0
    <3>1. SubSeq(es, 1, 0) = <<>>
      BY SubSeqEmpty
    <3> QED BY <2>1, <3>1, FewTaken
  <2>2. CASE j = 1
    <3>1. SubSeq(es, 1, 1) = es
      BY <1>1, SubSeqFull
    <3> QED BY <1>2, <2>2, <3>1
  <2> QED BY <1>1, <2>1, <2>2
<1> QED BY ONLY <1>1, <1>2, <1>3 DEF Along

\* The first entries of two sequences, one behind the other.
LEMMA FirstOfJoined ==
  ASSUME NEW S, NEW es \in Seq(S), NEW fs \in Seq(S), NEW j \in Nat, j <= Len(es)
  PROVE  SubSeq(es \o fs, 1, j) = SubSeq(es, 1, j)
<1> PICK gs : gs = es \o fs
  OBVIOUS
<1> PICK m \in Nat, n \in Nat : m = Len(es) /\ n = Len(fs)
  OBVIOUS
<1>1. gs \in Seq(S) /\ Len(gs) = m + n /\ \A i \in 1 .. m : gs[i] = es[i]
  BY ConcatProperties
<1>2. \A i \in 1 .. j : i \in 1 .. m /\ es[i] \in S /\ gs[i] = es[i]
  <2>1. \A i \in 1 .. j : i \in 1 .. m
    BY ONLY j \in Nat, m \in Nat, j <= Len(es), m = Len(es)
  <2>2. \A i \in 1 .. m : es[i] \in S
    OBVIOUS
  <2> QED BY ONLY <1>1, <2>1, <2>2
<1>3. /\ SubSeq(gs, 1, j) \in Seq(S) /\ Len(SubSeq(gs, 1, j)) = j
      /\ \A i \in 1 .. j : SubSeq(gs, 1, j)[i] = gs[i]
  <2>1. \A i \in 1 .. j : gs[i] \in S
    BY ONLY <1>2
  <2> QED BY ONLY <2>1, j \in Nat, SubSeqProperties
<1>4. /\ SubSeq(es, 1, j) \in Seq(S) /\ Len(SubSeq(es, 1, j)) = j
      /\ \A i \in 1 .. j : SubSeq(es, 1, j)[i] = es[i]
  <2>1. \A i \in 1 .. j : es[i] \in S
    BY ONLY <1>2
  <2> QED BY ONLY <2>1, j \in Nat, SubSeqProperties
<1>5. \A i \in 1 .. j : SubSeq(gs, 1, j)[i] = SubSeq(es, 1, j)[i]
  BY ONLY <1>2, <1>3, <1>4
<1>6. SubSeq(gs, 1, j) = SubSeq(es, 1, j)
  BY ONLY <1>3, <1>4, <1>5, SeqEqual
<1> QED BY ONLY <1>6, gs = es \o fs

\* All of the first and the first of the second.
LEMMA JoinedUpto ==
  ASSUME NEW S, NEW es \in Seq(S), NEW fs \in Seq(S), NEW i \in Nat, i <= Len(fs), NEW j, j = Len(es) + i
  PROVE  SubSeq(es \o fs, 1, j) = es \o SubSeq(fs, 1, i)
<1> PICK gs : gs = es \o fs
  OBVIOUS
<1> PICK m \in Nat, n \in Nat : m = Len(es) /\ n = Len(fs)
  OBVIOUS
<1>0. j \in Nat /\ j = m + i /\ i <= n
  OBVIOUS
<1>1. /\ gs \in Seq(S) /\ Len(gs) = m + n
      /\ \A k \in 1 .. m + n : gs[k] = IF k <= m THEN es[k] ELSE fs[k - m]
  BY ConcatProperties
<1>2. /\ SubSeq(gs, 1, j) \in Seq(S) /\ Len(SubSeq(gs, 1, j)) = j
      /\ \A k \in 1 .. j : SubSeq(gs, 1, j)[k] = gs[k]
  <2>1. \A k \in 1 .. j : k \in 1 .. m + n
    BY ONLY <1>0, m \in Nat, n \in Nat, i \in Nat
  <2>2. \A k \in 1 .. j : gs[k] \in S
    <3>1. \A k \in 1 .. m + n : gs[k] \in S
      BY <1>1
    <3> QED BY ONLY <2>1, <3>1
  <2> QED BY ONLY <1>0, <2>2, SubSeqProperties
<1> PICK p : p = SubSeq(fs, 1, i)
  OBVIOUS
<1>3. p \in Seq(S) /\ Len(p) = i /\ \A k \in 1 .. i : p[k] = fs[k]
  <2>1. \A k \in 1 .. i : fs[k] \in S
    BY <1>0
  <2> QED BY ONLY <2>1, i \in Nat, p = SubSeq(fs, 1, i), SubSeqProperties
<1> PICK hs : hs = es \o p
  OBVIOUS
<1>4. /\ hs \in Seq(S) /\ Len(hs) = m + i
      /\ \A k \in 1 .. m + i : hs[k] = IF k <= m THEN es[k] ELSE p[k - m]
  BY ONLY <1>3, es \in Seq(S), m = Len(es), hs = es \o p, ConcatProperties
<1>5. ASSUME NEW k \in 1 .. j PROVE gs[k] = hs[k]
  <2>1. k \in 1 .. m + i /\ k \in 1 .. m + n
    BY ONLY <1>0, m \in Nat, n \in Nat, i \in Nat, k \in 1 .. j
  <2>2. CASE k <= m
    BY ONLY <1>1, <1>4, <2>1, <2>2
  <2>3. CASE ~(k <= m)
    <3>1. k - m \in 1 .. i
      BY ONLY <1>0, <2>3, m \in Nat, i \in Nat, k \in 1 .. j
    <3>2. p[k - m] = fs[k - m]
      BY ONLY <1>3, <3>1
    <3> QED BY ONLY <1>1, <1>4, <2>1, <2>3, <3>2
  <2> QED BY <2>2, <2>3
<1>6. \A k \in 1 .. j : SubSeq(gs, 1, j)[k] = hs[k]
  BY ONLY <1>2, <1>5
<1>7. SubSeq(gs, 1, j) = hs
  BY ONLY <1>0, <1>2, <1>4, <1>6, SeqEqual
<1> QED BY ONLY <1>7, gs = es \o fs, hs = es \o p, p = SubSeq(fs, 1, i)

\* Reading on.
LEMMA AlongOn ==
  ASSUME NEW c, NEW s, NEW t, NEW x, NEW y, NEW z, NEW R, Along(c, s, x, y, R), Along(c, t, y, z, R)
  PROVE  Along(c, s \o t, x, z, R)
<1> PICK es \in Seq(WireEntries) : /\ s = BytesOf(es) /\ AllTaken(c, x, es) = y
                                   /\ \A j \in 0 .. Len(es) : AllTaken(c, x, SubSeq(es, 1, j)) \in R
  BY DEF Along
<1> PICK fs \in Seq(WireEntries) : /\ t = BytesOf(fs) /\ AllTaken(c, y, fs) = z
                                   /\ \A j \in 0 .. Len(fs) : AllTaken(c, y, SubSeq(fs, 1, j)) \in R
  BY DEF Along
<1> PICK m \in Nat, n \in Nat : m = Len(es) /\ n = Len(fs)
  OBVIOUS
<1>1. es \o fs \in Seq(WireEntries) /\ Len(es \o fs) = m + n
  BY ConcatProperties
<1>2. BytesOf(es \o fs) = s \o t
  BY BytesJoin
<1>3. AllTaken(c, x, es \o fs) = z
  BY TakesJoin
<1>4. ASSUME NEW j \in 0 .. m + n PROVE AllTaken(c, x, SubSeq(es \o fs, 1, j)) \in R
  <2>1. CASE j <= m
    <3>1. SubSeq(es \o fs, 1, j) = SubSeq(es, 1, j)
      <4>1. j \in Nat /\ j <= Len(es)
        BY <2>1
      <4> QED BY ONLY <4>1, es \in Seq(WireEntries), fs \in Seq(WireEntries), FirstOfJoined
    <3>2. j \in 0 .. Len(es)
      BY <2>1
    <3> QED BY <3>1, <3>2
  <2>2. CASE j > m
    <3> PICK i \in 0 .. n : i = j - m
      <4>1. j - m \in 0 .. n
        BY ONLY <2>2, m \in Nat, n \in Nat, j \in 0 .. m + n
      <4> QED BY <4>1
    <3> PICK hs : hs = SubSeq(fs, 1, i)
      OBVIOUS
    <3>1. SubSeq(es \o fs, 1, j) = es \o hs
      <4>1. i \in Nat /\ i <= Len(fs) /\ j = Len(es) + i
        BY ONLY i \in 0 .. n, i = j - m, m \in Nat, n \in Nat, m = Len(es), n = Len(fs), j \in 0 .. m + n
      <4> QED BY ONLY <4>1, hs = SubSeq(fs, 1, i), es \in Seq(WireEntries), fs \in Seq(WireEntries), JoinedUpto
    <3>2. hs \in Seq(WireEntries)
      BY SubSeqProperties
    <3>3. AllTaken(c, x, es \o hs) = AllTaken(c, AllTaken(c, x, es), hs)
      BY ONLY <3>2, es \in Seq(WireEntries), TakesJoin
    <3>4. AllTaken(c, y, hs) \in R
      OBVIOUS
    <3> QED BY ONLY <3>1, <3>3, <3>4, AllTaken(c, x, es) = y
  <2> QED BY <2>1, <2>2
<1> QED BY ONLY <1>1, <1>2, <1>3, <1>4 DEF Along

\* What has been read.
LEMMA AlongMoves ==
  ASSUME NEW c, NEW s, NEW x, NEW y, NEW R, Along(c, s, x, y, R)
  PROVE  Moves(c, s, x, y)
BY DEF Along, Moves

\* Reading the beginning of the bytes fails, or ends after an entry.
LEMMA AlongCut ==
  ASSUME NEW c, NEW s, NEW x, NEW y, NEW R, Along(c, s, SoFar(x), y, R), NEW k \in 0 .. Len(s)
  PROVE  Read(c, x, SubSeq(s, 1, k)).ok => Read(c, x, SubSeq(s, 1, k)) \in R
<1> PICK es \in Seq(WireEntries) : /\ s = BytesOf(es)
                                   /\ \A j \in 0 .. Len(es) : AllTaken(c, SoFar(x), SubSeq(es, 1, j)) \in R
  BY DEF Along
<1> PICK p : p = SubSeq(s, 1, k)
  OBVIOUS
<1> PICK j \in 0 .. Len(es) : \/ p = BytesOf(SubSeq(es, 1, j))
                              \/ Entries(p) = [ok |-> FALSE, list |-> SubSeq(es, 1, j)]
  <2>1. CutOf(es, p)
    BY ONLY es \in Seq(WireEntries), s = BytesOf(es), k \in 0 .. Len(s), p = SubSeq(s, 1, k), CutBytes
  <2> QED BY ONLY <2>1 DEF CutOf
<1> PICK fs : fs = SubSeq(es, 1, j)
  OBVIOUS
<1>1. fs \in Seq(WireEntries)
  BY SubSeqProperties
<1>2. Read(c, x, p) = AllTaken(c, [ok |-> Entries(p).ok, m |-> x], Entries(p).list)
  BY DEF Read, AllTaken
<1>3. CASE p = BytesOf(fs)
  <2>1. Entries(p) = [ok |-> TRUE, list |-> fs]
    BY <1>1, <1>3, EntriesOfBytes
  <2>2. Read(c, x, p) = AllTaken(c, SoFar(x), fs)
    BY ONLY <1>2, <2>1 DEF SoFar
  <2> QED BY <2>2
<1>4. CASE Entries(p) = [ok |-> FALSE, list |-> fs]
  <2>1. Read(c, x, p) = AllTaken(c, [ok |-> FALSE, m |-> x], fs)
    BY ONLY <1>2, <1>4
  <2>2. Failed([ok |-> FALSE, m |-> x])
    BY DEF Failed
  <2>3. Failed(Read(c, x, p))
    BY ONLY <1>1, <2>1, <2>2, AllTakenFailed
  <2>4. ~Read(c, x, p).ok
    BY ONLY <2>3 DEF Failed
  <2> QED BY <2>4
<1> QED BY <1>3, <1>4

\* One more element of a list.
LEMMA ElementAlong ==
  ASSUME NEW c, NEW n \in Nat \ {0}, n \in DOMAIN c.read, c.read[n] = "repeated",
         InnerClass(c.class[n]), SizedClass(c.class[n]), NEW x, NEW y, IsInfo(c.class[n], y),
         NEW R, SoFar(x) \in R, SoFar(SetField(x, n, Append(ListOf(x, n), y))) \in R
  PROVE  Along(c, InnerBytes(c, n, y), SoFar(x), SoFar(SetField(x, n, Append(ListOf(x, n), y))), R)
<1> PICK d, e : d = c.class[n] /\ e = InnerEntry(c, n, y)
  OBVIOUS
<1>0. c.read[n] \in {"message", "repeated"}
  OBVIOUS
<1>1. /\ e \in WireEntries /\ Understood(c, e) /\ InnerBytes(c, n, y) = EntryBytes(e) /\ e.num = n
      /\ \A a : IsMessage(a) => ReadInfo(d, a, e.val) = [ok |-> TRUE, m |-> MergeInfo(d, a, y)]
  BY <1>0, InnerEntryIs
<1>2. ReadInfo(d, Empty, e.val) = [ok |-> TRUE, m |-> y]
  <2>1. MergeInfo(d, Empty, y) = y
    BY EmptyMerges
  <2> QED BY ONLY <1>1, <2>1, EmptyIs
<1>3. Take(c, SoFar(x), e) = SoFar(SetField(x, n, Append(ListOf(x, n), y)))
  BY ONLY <1>1, <1>2, c.read[n] = "repeated", d = c.class[n], TakeElement
<1>4. Along(c, EntryBytes(e), SoFar(x), Take(c, SoFar(x), e), R)
  BY ONLY <1>1, <1>3, SoFar(x) \in R, SoFar(SetField(x, n, Append(ListOf(x, n), y))) \in R, AlongOne
<1> QED BY ONLY <1>1, <1>3, <1>4

\* The bytes of the elements of a list.
ElementBytes(c, n, l) == FlattenSeq([i \in DOMAIN l |-> InnerBytes(c, n, l[i])])

\* The bytes of a list append its elements, one after the other.
LEMMA ListAlong ==
  ASSUME NEW c, NEW n \in Nat \ {0}, n \in DOMAIN c.read, c.read[n] = "repeated",
         InnerClass(c.class[n]), SizedClass(c.class[n]), NEW x, IsMessage(x),
         NEW S, NEW l \in Seq(S), ListOf(x, n) \in Seq(S), Len(l) # 0,
         \A i \in 1 .. Len(l) : IsInfo(c.class[n], l[i]),
         NEW R, \A j \in 0 .. Len(l) : SoFar(ListUpto(x, n, l, j)) \in R
  PROVE  Along(c, ElementBytes(c, n, l), SoFar(x), SoFar(SetField(x, n, ListOf(x, n) \o l)), R)
<1> PICK k \in Nat : k = Len(l)
  OBVIOUS
<1> DEFINE b(i) == InnerBytes(c, n, l[i])
<1> PICK ss : ss = [i \in 1 .. k |-> b(i)]
  OBVIOUS
<1>1. \A i \in 1 .. k : b(i) \in Seq(Nat)
  <2>1. c.read[n] \in {"message", "repeated"}
    OBVIOUS
  <2>2. \A i \in 1 .. k : IsInfo(c.class[n], l[i])
    OBVIOUS
  <2> QED BY <2>1, <2>2, InnerEntryIs
<1>2. ElementBytes(c, n, l) = FlattenSeq(ss)
  <2>1. DOMAIN l = 1 .. k
    OBVIOUS
  <2> QED BY <2>1 DEF ElementBytes
<1>3. \A i \in 1 .. k : ss[i] = InnerBytes(c, n, l[i])
  BY DEF b
<1> HIDE DEF b
<1>4. ss \in Seq(Seq(Nat)) /\ k = Len(ss)
  BY <1>1
<1> PICK flat : OneByOne(Nat, ss, k, flat)
  BY ONLY <1>4, k \in Nat, FlattenUnfolds
<1>5. /\ flat[0] = <<>> /\ FlattenSeq(ss) = flat[k]
      /\ \A i \in 1 .. k : flat[i] = flat[i - 1] \o ss[i]
  BY ONLY OneByOne(Nat, ss, k, flat) DEF OneByOne
<1> DEFINE P == {j \in Nat : j <= k => Along(c, flat[j], SoFar(x), SoFar(ListUpto(x, n, l, j)), R)}
<1>6. 0 \in P
  <2>1. ListUpto(x, n, l, 0) = x
    BY ONLY TRUE DEF ListUpto
  <2>2. Along(c, <<>>, SoFar(x), SoFar(x), R)
    <3>1. 0 \in 0 .. Len(l)
      BY ONLY k \in Nat, k = Len(l)
    <3> QED BY <2>1, <3>1, AlongNone
  <2>3. Along(c, flat[0], SoFar(x), SoFar(ListUpto(x, n, l, 0)), R)
    BY ONLY <1>5, <2>1, <2>2
  <2> QED BY ONLY <2>3, k \in Nat
<1>7. ASSUME NEW j \in Nat, j \in P PROVE j + 1 \in P
  <2> SUFFICES ASSUME NEW i, i = j + 1, i <= k
               PROVE  Along(c, flat[i], SoFar(x), SoFar(ListUpto(x, n, l, i)), R)
    BY j + 1 \in Nat
  <2>1. i \in 1 .. k /\ i - 1 = j /\ j <= k /\ i <= Len(l)
    BY ONLY j \in Nat, k \in Nat, i = j + 1, i <= k, k = Len(l)
  <2>2. Along(c, flat[j], SoFar(x), SoFar(ListUpto(x, n, l, j)), R)
    BY <1>7, <2>1
  <2> PICK z : z = ListUpto(x, n, l, j)
    OBVIOUS
  <2>4. SetField(z, n, Append(ListOf(z, n), l[i])) = ListUpto(x, n, l, i)
    BY <2>1, ListUptoStep
  <2>3. Along(c, InnerBytes(c, n, l[i]), SoFar(z), SoFar(SetField(z, n, Append(ListOf(z, n), l[i]))), R)
    <3>1. IsInfo(c.class[n], l[i])
      BY <2>1
    <3>2. SoFar(z) \in R /\ SoFar(ListUpto(x, n, l, i)) \in R
      <4>1. j \in 0 .. Len(l) /\ i \in 0 .. Len(l)
        BY ONLY <2>1, j \in Nat, k \in Nat, k = Len(l)
      <4> QED BY <4>1
    <3> QED BY <2>4, <3>1, <3>2, ElementAlong
  <2>5. flat[i] = flat[j] \o InnerBytes(c, n, l[i])
    <3>1. flat[i] = flat[i - 1] \o ss[i]
      BY ONLY <1>5, <2>1
    <3> QED BY ONLY <1>3, <2>1, <3>1
  <2> QED BY ONLY <2>2, <2>3, <2>4, <2>5, z = ListUpto(x, n, l, j), AlongOn
<1>8. Along(c, flat[k], SoFar(x), SoFar(ListUpto(x, n, l, k)), R)
  <2>1. Nat \subseteq P
    <3> HIDE DEF P
    <3>1. \A j \in Nat : j \in P => j + 1 \in P
      BY <1>7
    <3> QED BY ONLY <1>6, <3>1, NatSetInduction
  <2>2. k \in P
    BY ONLY <2>1, k \in Nat
  <2>3. k <= k => Along(c, flat[k], SoFar(x), SoFar(ListUpto(x, n, l, k)), R)
    BY ONLY <2>2
  <2>4. k <= k
    BY ONLY k \in Nat
  <2> QED BY ONLY <2>3, <2>4
<1> HIDE DEF P
<1>9. ListUpto(x, n, l, k) = SetField(x, n, ListOf(x, n) \o l)
  <2>1. SubSeq(l, 1, k) = l
    BY SubSeqFull
  <2> QED BY <2>1 DEF ListUpto
<1> QED BY ONLY <1>2, <1>5, <1>8, <1>9

\* What a message is while field n of b is read into x.
FieldPoints(c, x, b, n) ==
  {SoFar(x), SoFar(SetField(x, n, MergedField(c, x, b, n)))}
  \cup {SoFar(ListUpto(x, n, b.f[n], j)) : j \in IF c.read[n] = "repeated" THEN 0 .. Len(b.f[n]) ELSE {}}

\* A field that is written is merged when it is read.
LEMMA FieldAlong ==
  ASSUME NEW c, OuterClass(c), NEW b, IsWhole(c, b), NEW n \in DOMAIN b.f, NEW x, IsMessage(x),
         c.read[n] = "message" => IsMessage(SubOf(x, n)),
         c.read[n] = "repeated" => \E S : ListOf(x, n) \in Seq(S), NEW R, FieldPoints(c, x, b, n) \subseteq R
  PROVE  Along(c, FieldBytes(c, b, n), SoFar(x), SoFar(SetField(x, n, MergedField(c, x, b, n))), R)
<1> PICK v : v = b.f[n]
  OBVIOUS
<1>1. n \in DOMAIN c.read /\ n \in Nat \ {0} /\ IsValue(c, n, v)
  BY DEF OuterClass, IsWhole
<1>2. \/ c.read[n] \in ScalarKinds
      \/ c.read[n] \in {"message", "repeated"} /\ InnerClass(c.class[n]) /\ SizedClass(c.class[n])
  BY <1>1 DEF OuterClass
<1>0. SoFar(x) \in R /\ SoFar(SetField(x, n, MergedField(c, x, b, n))) \in R
  BY DEF FieldPoints
<1>3. CASE c.read[n] \in ScalarKinds
  <2>1. c.read[n] # "message" /\ c.read[n] # "repeated"
    BY <1>3 DEF ScalarKinds
  <2>2. v \in ScalarValues(c.read[n])
    BY <1>1, <2>1 DEF IsValue
  <2> PICK e : e = ScalarEntry(c, n, v)
    OBVIOUS
  <2>3. e \in WireEntries /\ Understood(c, e) /\ ScalarOf(c.read[n], e.val) = v /\ e.num = n
    BY ONLY <1>1, <1>3, <2>2, e = ScalarEntry(c, n, v), ScalarEntryIs
  <2>4. FieldBytes(c, b, n) = EntryBytes(e)
    BY <2>1 DEF FieldBytes, InfoFieldBytes, Present, ScalarEntry
  <2>5. MergedField(c, x, b, n) = v
    BY <2>1 DEF MergedField
  <2>6. Take(c, SoFar(x), e) = SoFar(SetField(x, n, v))
    BY ONLY <1>3, <2>3, TakeScalar
  <2>7. Along(c, EntryBytes(e), SoFar(x), Take(c, SoFar(x), e), R)
    BY ONLY <1>0, <2>3, <2>5, <2>6, AlongOne
  <2> QED BY ONLY <2>4, <2>5, <2>6, <2>7
<1>4. CASE c.read[n] = "message"
  <2>1. InnerClass(c.class[n]) /\ SizedClass(c.class[n]) /\ c.read[n] \in {"message", "repeated"}
    BY <1>2, <1>4 DEF ScalarKinds
  <2>2. IsInfo(c.class[n], v)
    BY <1>1, <1>4 DEF IsValue
  <2> PICK e : e = InnerEntry(c, n, v)
    OBVIOUS
  <2>3. /\ e \in WireEntries /\ Understood(c, e) /\ InnerBytes(c, n, v) = EntryBytes(e) /\ e.num = n
        /\ \A a : IsMessage(a) => ReadInfo(c.class[n], a, e.val) = [ok |-> TRUE, m |-> MergeInfo(c.class[n], a, v)]
    BY ONLY <1>1, <2>1, <2>2, e = InnerEntry(c, n, v), InnerEntryIs
  <2>4. FieldBytes(c, b, n) = EntryBytes(e)
    BY <1>4, <2>3 DEF FieldBytes, Present
  <2> PICK y : y = MergeInfo(c.class[n], SubOf(x, n), v)
    OBVIOUS
  <2>5. MergedField(c, x, b, n) = y
    BY <1>4 DEF MergedField
  <2>6. ReadInfo(c.class[n], SubOf(x, n), e.val) = [ok |-> TRUE, m |-> y]
    BY <1>4, <2>3
  <2>7. Take(c, SoFar(x), e) = SoFar(SetField(x, n, y))
    BY ONLY <1>4, <2>3, <2>6, TakeMessage
  <2>8. Along(c, EntryBytes(e), SoFar(x), Take(c, SoFar(x), e), R)
    BY ONLY <1>0, <2>3, <2>5, <2>7, AlongOne
  <2> QED BY ONLY <2>4, <2>5, <2>7, <2>8
<1>5. CASE c.read[n] = "repeated"
  <2>1. InnerClass(c.class[n]) /\ SizedClass(c.class[n])
    BY <1>2, <1>5 DEF ScalarKinds
  <2>2. IsInfoList(c.class[n], v) /\ Len(v) # 0
    BY <1>1, <1>5 DEF IsValue
  <2> PICK S : v \in Seq(S)
    BY <2>2 DEF IsInfoList
  <2> PICK Q : ListOf(x, n) \in Seq(Q)
    BY <1>5
  <2> PICK T : T = S \cup Q
    OBVIOUS
  <2>3. v \in Seq(T) /\ ListOf(x, n) \in Seq(T)
    <3>1. S \subseteq T /\ Q \subseteq T
      BY ONLY T = S \cup Q
    <3> QED BY ONLY <3>1, v \in Seq(S), ListOf(x, n) \in Seq(Q), SeqIn
  <2>4. \A i \in 1 .. Len(v) : IsInfo(c.class[n], v[i])
    BY <2>2 DEF IsInfoList
  <2>5. Along(c, ElementBytes(c, n, v), SoFar(x), SoFar(SetField(x, n, ListOf(x, n) \o v)), R)
    <3>1. \A j \in 0 .. Len(v) : SoFar(ListUpto(x, n, v, j)) \in R
      BY ONLY <1>5, v = b.f[n], FieldPoints(c, x, b, n) \subseteq R DEF FieldPoints
    <3> QED BY ONLY <1>1, <1>5, <2>1, <2>2, <2>3, <2>4, <3>1, IsMessage(x), ListAlong
  <2>6. FieldBytes(c, b, n) = ElementBytes(c, n, v)
    BY <1>5 DEF FieldBytes, ElementBytes, Present
  <2>7. MergedField(c, x, b, n) = ListOf(x, n) \o v
    BY <1>5 DEF MergedField
  <2> QED BY ONLY <2>5, <2>6, <2>7
<1> QED BY <1>2, <1>3, <1>4, <1>5

\* a after the first k fields of b have been read into it.
WholeUpto(c, a, b, k) ==
  LET taken == {c.written[i] : i \in 1 .. k} \cap DOMAIN b.f
  IN  [f |-> [n \in DOMAIN a.f \cup taken |-> IF n \in taken THEN MergedField(c, a, b, n) ELSE a.f[n]],
       unknown |-> a.unknown]

\* What a whole message has in a field can be merged with.
LEMMA PartsAre ==
  ASSUME NEW c, NEW a, IsWhole(c, a), NEW n
  PROVE  /\ c.read[n] = "message" => IsMessage(SubOf(a, n))
         /\ c.read[n] = "repeated" => \E S : ListOf(a, n) \in Seq(S)
<1>1. CASE n \notin DOMAIN a.f
  <2>1. SubOf(a, n) = Empty /\ ListOf(a, n) = <<>>
    BY <1>1 DEF SubOf, ListOf, Present
  <2>2. <<>> \in Seq({})
    BY ONLY EmptySeq
  <2> QED BY <2>1, <2>2, EmptyIs
<1>2. CASE n \in DOMAIN a.f
  <2> PICK v : v = a.f[n]
    OBVIOUS
  <2>1. SubOf(a, n) = v /\ ListOf(a, n) = v /\ IsValue(c, n, v)
    BY <1>2 DEF SubOf, ListOf, Present, IsWhole
  <2>2. CASE c.read[n] = "message"
    <3>1. IsInfo(c.class[n], v)
      BY <2>1, <2>2 DEF IsValue
    <3>2. IsMessage(v)
      BY ONLY <3>1 DEF IsInfo, IsMessage
    <3> QED BY <2>1, <2>2, <3>2
  <2>3. CASE c.read[n] = "repeated"
    <3>1. IsInfoList(c.class[n], v)
      BY <2>1, <2>3 DEF IsValue
    <3>2. \E S : v \in Seq(S)
      BY ONLY <3>1 DEF IsInfoList
    <3> QED BY <2>1, <2>3, <3>2
  <2> QED BY <2>2, <2>3
<1> QED BY <1>1, <1>2

\* One field more.
LEMMA WholeFieldAlong ==
  ASSUME NEW c, OuterClass(c), NEW b, IsWhole(c, b), NEW a, IsWhole(c, a),
         NEW k \in Nat, NEW l \in Nat, l = k + 1, l <= Len(c.written),
         NEW R, SoFar(WholeUpto(c, a, b, k)) \in R,
         c.written[l] \in DOMAIN b.f => FieldPoints(c, WholeUpto(c, a, b, k), b, c.written[l]) \subseteq R
  PROVE  Along(c, FieldBytes(c, b, c.written[l]), SoFar(WholeUpto(c, a, b, k)), SoFar(WholeUpto(c, a, b, l)), R)
<1> PICK n : n = c.written[l]
  OBVIOUS
<1>1. {c.written[i] : i \in 1 .. l} = {c.written[i] : i \in 1 .. k} \cup {n}
  <2>1. \A i \in 1 .. l : i \in 1 .. k \/ i = l
    OBVIOUS
  <2>2. \A i \in 1 .. k : i \in 1 .. l
    OBVIOUS
  <2>3. l \in 1 .. l
    OBVIOUS
  <2> QED BY ONLY <2>1, <2>2, <2>3, n = c.written[l]
<1>2. n \notin {c.written[i] : i \in 1 .. k}
  <2>1. \A i \in 1 .. k : i \in 1 .. Len(c.written) /\ l \in 1 .. Len(c.written) /\ i # l
    BY DEF OuterClass
  <2>2. \A i, j \in 1 .. Len(c.written) : c.written[i] = c.written[j] => i = j
    BY DEF OuterClass
  <2> QED BY ONLY <2>1, <2>2, n = c.written[l]
<1> PICK old, new : old = {c.written[i] : i \in 1 .. k} \cap DOMAIN b.f
                    /\ new = {c.written[i] : i \in 1 .. l} \cap DOMAIN b.f
  OBVIOUS
<1> PICK x, y : x = WholeUpto(c, a, b, k) /\ y = WholeUpto(c, a, b, l)
  OBVIOUS
<1> DEFINE got(j) == MergedField(c, a, b, j)
<1>3. /\ x = [f |-> [j \in DOMAIN a.f \cup old |-> IF j \in old THEN got(j) ELSE a.f[j]], unknown |-> a.unknown]
      /\ y = [f |-> [j \in DOMAIN a.f \cup new |-> IF j \in new THEN got(j) ELSE a.f[j]], unknown |-> a.unknown]
  BY DEF WholeUpto
<1> PICK v : v = got(n)
  OBVIOUS
<1>4. v = MergedField(c, a, b, n)
  OBVIOUS
<1> HIDE DEF got
<1>5. CASE n \notin DOMAIN b.f
  <2>1. FieldBytes(c, b, n) = <<>>
    BY <1>5 DEF FieldBytes, Present
  <2>2. old = new
    BY <1>1, <1>5
  <2>3. x = y
    BY ONLY <1>3, <2>2
  <2>4. Along(c, <<>>, SoFar(x), SoFar(x), R)
    BY AlongNone
  <2> QED BY <2>1, <2>3, <2>4
<1>6. CASE n \in DOMAIN b.f
  <2>1. new = old \cup {n} /\ n \notin old
    BY <1>1, <1>2, <1>6
  <2> PICK g : g = [j \in DOMAIN a.f \cup old |-> IF j \in old THEN got(j) ELSE a.f[j]]
    OBVIOUS
  <2>2. x.f = g /\ x.unknown = a.unknown /\ x = [f |-> g, unknown |-> a.unknown] /\ DOMAIN g = DOMAIN a.f \cup old
    BY ONLY <1>3, g = [j \in DOMAIN a.f \cup old |-> IF j \in old THEN got(j) ELSE a.f[j]]
  <2>3. IsMessage(x)
    <3>1. a.unknown \in Seq(WireEntries)
      BY DEF IsWhole, IsMessage
    <3>2. g = [j \in DOMAIN g |-> g[j]]
      BY ONLY g = [j \in DOMAIN a.f \cup old |-> IF j \in old THEN got(j) ELSE a.f[j]]
    <3> QED BY ONLY <2>2, <3>1, <3>2 DEF IsMessage
  <2>4. Present(x, n) = Present(a, n) /\ (Present(a, n) => x.f[n] = a.f[n])
    BY ONLY <2>1, <2>2, g = [j \in DOMAIN a.f \cup old |-> IF j \in old THEN got(j) ELSE a.f[j]] DEF Present
  <2>5. SubOf(x, n) = SubOf(a, n) /\ ListOf(x, n) = ListOf(a, n)
    BY ONLY <2>4 DEF SubOf, ListOf
  <2>6. MergedField(c, x, b, n) = v
    BY ONLY <1>4, <2>5 DEF MergedField
  <2>7. /\ c.read[n] = "message" => IsMessage(SubOf(x, n))
        /\ c.read[n] = "repeated" => \E S : ListOf(x, n) \in Seq(S)
    BY <2>5, PartsAre
  <2>8. Along(c, FieldBytes(c, b, n), SoFar(x), SoFar(SetField(x, n, v)), R)
    <3>1. Along(c, FieldBytes(c, b, n), SoFar(x), SoFar(SetField(x, n, MergedField(c, x, b, n))), R)
      BY ONLY OuterClass(c), IsWhole(c, b), <1>6, <2>3, <2>7,
              n = c.written[l], x = WholeUpto(c, a, b, k),
              c.written[l] \in DOMAIN b.f => FieldPoints(c, WholeUpto(c, a, b, k), b, c.written[l]) \subseteq R, FieldAlong
    <3> QED BY ONLY <2>6, <3>1
  <2>9. SetField(x, n, v) = y
    <3>1. SetField([f |-> g, unknown |-> a.unknown], n, v) = [f |-> Put(g, n, v), unknown |-> a.unknown]
      BY ONLY SetFieldIs
    <3>2. Put(g, n, v) = [j \in DOMAIN a.f \cup new |-> IF j \in new THEN got(j) ELSE a.f[j]]
      <4>1. DOMAIN g \cup {n} = DOMAIN a.f \cup new
        BY ONLY <2>1, <2>2
      <4>2. ASSUME NEW j \in DOMAIN g \cup {n}
            PROVE  (IF j = n THEN v ELSE g[j]) = (IF j \in new THEN got(j) ELSE a.f[j])
        BY ONLY <2>1, <2>2, j \in DOMAIN g \cup {n}, v = got(n),
                g = [i \in DOMAIN a.f \cup old |-> IF i \in old THEN got(i) ELSE a.f[i]]
      <4>3. Put(g, n, v) = [j \in DOMAIN g \cup {n} |-> IF j = n THEN v ELSE g[j]]
        BY DEF Put
      <4> QED BY ONLY <4>1, <4>2, <4>3
    <3> QED BY ONLY <1>3, <2>2, <3>1, <3>2
  <2> QED BY ONLY <2>8, <2>9, n = c.written[l], x = WholeUpto(c, a, b, k), y = WholeUpto(c, a, b, l)
<1> QED BY <1>5, <1>6

\* Entries that are not understood are kept behind those there are.
LEMMA UnknownMoves ==
  ASSUME NEW c, NEW x, IsMessage(x), NEW us \in Seq(WireEntries),
         \A i \in 1 .. Len(us) : ~Understood(c, us[i])
  PROVE  Moves(c, BytesOf(us), SoFar(x), SoFar([f |-> x.f, unknown |-> x.unknown \o us]))
<1> PICK n \in Nat : n = Len(us)
  OBVIOUS
<1> PICK f : TakenOneByOne(c, SoFar(x), us, n, f)
  BY ONLY n \in Nat, n = Len(us), TakesUnfold
<1>1. /\ f[0] = SoFar(x) /\ AllTaken(c, SoFar(x), us) = f[n]
      /\ \A i \in 1 .. n : f[i] = Take(c, f[i - 1], us[i])
  BY ONLY TakenOneByOne(c, SoFar(x), us, n, f) DEF TakenOneByOne
<1> PICK old \in Seq(WireEntries) : old = x.unknown
  BY DEF IsMessage
<1>2. /\ SubSeq(us, 1, 0) = <<>> /\ old \o SubSeq(us, 1, 0) = old
      /\ \A j \in Nat : j + 1 <= Len(us)
            => Append(old \o SubSeq(us, 1, j), us[j + 1]) = old \o SubSeq(us, 1, j + 1)
  BY ONLY us \in Seq(WireEntries), old \in Seq(WireEntries), OneMore
<1> DEFINE P == {k \in Nat : k <= n => f[k] = SoFar([f |-> x.f, unknown |-> old \o SubSeq(us, 1, k)])}
<1>3. 0 \in P
  <2>1. x = [f |-> x.f, unknown |-> old]
    BY DEF IsMessage
  <2>2. f[0] = SoFar([f |-> x.f, unknown |-> old \o SubSeq(us, 1, 0)])
    BY ONLY <1>1, <1>2, <2>1
  <2> QED BY ONLY <2>2, n \in Nat
<1>4. ASSUME NEW k \in Nat, k \in P PROVE k + 1 \in P
  <2> SUFFICES ASSUME NEW l, l = k + 1, l <= n
               PROVE  f[l] = SoFar([f |-> x.f, unknown |-> old \o SubSeq(us, 1, l)])
    BY k + 1 \in Nat
  <2>1. l \in 1 .. n /\ l - 1 = k /\ k <= n
    BY ONLY k \in Nat, n \in Nat, l = k + 1, l <= n
  <2> PICK z, e : z = old \o SubSeq(us, 1, k) /\ e = us[l]
    OBVIOUS
  <2>2. f[l] = Take(c, f[k], e)
    BY ONLY <1>1, <2>1, e = us[l]
  <2>3. ~Understood(c, e)
    BY <2>1
  <2>4. f[k] = SoFar([f |-> x.f, unknown |-> z])
    BY <1>4, <2>1
  <2>5. Take(c, SoFar([f |-> x.f, unknown |-> z]), e) = SoFar([f |-> x.f, unknown |-> Append(z, e)])
    BY ONLY <2>3, TakeUnknown
  <2>6. Append(z, e) = old \o SubSeq(us, 1, l)
    BY ONLY <1>2, k \in Nat, l = k + 1, l <= n, n = Len(us), z = old \o SubSeq(us, 1, k), e = us[l]
  <2> QED BY ONLY <2>2, <2>4, <2>5, <2>6
<1>5. n \in P
  <2> HIDE DEF P
  <2>1. \A k \in Nat : k \in P => k + 1 \in P
    BY <1>4
  <2>2. Nat \subseteq P
    BY ONLY <1>3, <2>1, NatSetInduction
  <2> QED BY <2>2
<1>6. n <= n => f[n] = SoFar([f |-> x.f, unknown |-> old \o SubSeq(us, 1, n)])
  BY ONLY <1>5
<1>7. n <= n
  BY ONLY n \in Nat
<1>8. SubSeq(us, 1, n) = us
  BY SubSeqFull
<1> HIDE DEF P
<1>9. AllTaken(c, SoFar(x), us) = SoFar([f |-> x.f, unknown |-> x.unknown \o us])
  BY ONLY <1>1, <1>6, <1>7, <1>8, old = x.unknown
<1> QED BY ONLY <1>9, us \in Seq(WireEntries) DEF Moves

\* What a field is said to take is what it takes.
LEMMA FieldTakes ==
  ASSUME NEW c, OuterClass(c), NEW b, IsWhole(c, b), NEW n \in DOMAIN c.read
  PROVE  /\ FieldBytes(c, b, n) \in Seq(Nat)
         /\ FieldSize(c, b, n) = Len(FieldBytes(c, b, n))
         /\ FieldSize(c, b, n) \in Nat
<1>1. CASE n \notin DOMAIN b.f
  <2>1. FieldBytes(c, b, n) = <<>> /\ FieldSize(c, b, n) = 0
    BY <1>1 DEF FieldBytes, FieldSize, Present
  <2>2. <<>> \in Seq(Nat) /\ Len(<<>>) = 0
    BY ONLY EmptySeq
  <2> QED BY ONLY <2>1, <2>2
<1>2. CASE n \in DOMAIN b.f
  <2> PICK v : v = b.f[n]
    OBVIOUS
  <2>1. n \in Nat \ {0} /\ IsValue(c, n, v)
    BY <1>2 DEF OuterClass, IsWhole
  <2>2. \/ c.read[n] \in ScalarKinds
        \/ c.read[n] \in {"message", "repeated"} /\ InnerClass(c.class[n]) /\ SizedClass(c.class[n])
    BY DEF OuterClass
  <2>3. CASE c.read[n] \in ScalarKinds
    <3>1. c.read[n] # "message" /\ c.read[n] # "repeated"
      BY <2>3 DEF ScalarKinds
    <3>2. v \in ScalarValues(c.read[n])
      BY <2>1, <3>1 DEF IsValue
    <3> PICK e : e = ScalarEntry(c, n, v)
      OBVIOUS
    <3>3. e \in WireEntries /\ Len(EntryBytes(e)) = IF c.read[n] = "string" THEN 2 + Len(v) ELSE 2
      BY ONLY <2>1, <2>3, <3>2, n \in DOMAIN c.read, e = ScalarEntry(c, n, v), ScalarEntryIs
    <3>4. FieldBytes(c, b, n) = EntryBytes(e)
      BY <1>2, <3>1 DEF FieldBytes, InfoFieldBytes, Present, ScalarEntry
    <3>5. FieldSize(c, b, n) = IF c.read[n] = "string" THEN 2 + Len(v) ELSE 2
      BY <1>2, <3>1 DEF FieldSize, InfoFieldSize, Present
    <3>6. EntryBytes(e) \in Seq(Nat)
      BY ONLY <3>3, EntryIs
    <3>7. Len(EntryBytes(e)) \in Nat
      BY ONLY <3>6
    <3> QED BY ONLY <3>3, <3>4, <3>5, <3>6, <3>7
  <2>4. CASE c.read[n] = "message"
    <3>1. InnerClass(c.class[n]) /\ SizedClass(c.class[n]) /\ c.read[n] \in {"message", "repeated"}
      BY <2>2, <2>4 DEF ScalarKinds
    <3>2. IsInfo(c.class[n], v)
      BY <2>1, <2>4 DEF IsValue
    <3>3. InnerBytes(c, n, v) \in Seq(Nat) /\ Len(InnerBytes(c, n, v)) = InnerSize(c, n, v)
      BY ONLY <2>1, <3>1, <3>2, n \in DOMAIN c.read, InnerEntryIs
    <3>4. FieldBytes(c, b, n) = InnerBytes(c, n, v) /\ FieldSize(c, b, n) = InnerSize(c, n, v)
      BY <1>2, <2>4 DEF FieldBytes, FieldSize, Present
    <3>5. Len(InnerBytes(c, n, v)) \in Nat
      BY ONLY <3>3
    <3> QED BY ONLY <3>3, <3>4, <3>5
  <2>5. CASE c.read[n] = "repeated"
    <3>1. InnerClass(c.class[n]) /\ SizedClass(c.class[n]) /\ c.read[n] \in {"message", "repeated"}
      BY <2>2, <2>5 DEF ScalarKinds
    <3>2. IsInfoList(c.class[n], v)
      BY <2>1, <2>5 DEF IsValue
    <3> PICK S : v \in Seq(S)
      BY <3>2 DEF IsInfoList
    <3> PICK k \in Nat : k = Len(v)
      OBVIOUS
    <3>3. \A i \in 1 .. k : IsInfo(c.class[n], v[i])
      BY <3>2 DEF IsInfoList
    <3>4. \A i \in 1 .. k : InnerBytes(c, n, v[i]) \in Seq(Nat) /\ Len(InnerBytes(c, n, v[i])) = InnerSize(c, n, v[i])
      BY ONLY <2>1, <3>1, <3>3, n \in DOMAIN c.read, InnerEntryIs
    <3> DEFINE b1(i) == InnerBytes(c, n, v[i])
               s1(i) == InnerSize(c, n, v[i])
    <3> PICK ss : ss = [i \in 1 .. k |-> b1(i)]
      OBVIOUS
    <3> PICK t : t = [i \in 1 .. k |-> s1(i)]
      OBVIOUS
    <3>5. FieldBytes(c, b, n) = FlattenSeq(ss) /\ FieldSize(c, b, n) = Total(t)
      <4>1. DOMAIN v = 1 .. k
        OBVIOUS
      <4>2. FieldBytes(c, b, n) = FlattenSeq([i \in 1 .. k |-> InnerBytes(c, n, v[i])])
        BY <1>2, <2>5, <4>1 DEF FieldBytes, Present
      <4>3. FieldSize(c, b, n) = Total([i \in 1 .. k |-> InnerSize(c, n, v[i])])
        BY <1>2, <2>5, <4>1 DEF FieldSize, Present
      <4> QED BY <4>2, <4>3
    <3>6. \A i \in 1 .. k : b1(i) \in Seq(Nat) /\ Len(b1(i)) = s1(i)
      BY ONLY <3>4
    <3> HIDE DEF b1, s1
    <3>7. ss \in Seq(Seq(Nat)) /\ k = Len(ss)
      BY <3>6
    <3>8. \A i \in 1 .. k : t[i] \in Nat /\ t[i] = Len(ss[i])
      <4>1. \A i \in 1 .. k : Len(b1(i)) \in Nat
        BY ONLY <3>6
      <4> QED BY ONLY <3>6, <4>1, ss = [i \in 1 .. k |-> b1(i)], t = [i \in 1 .. k |-> s1(i)]
    <3>9. t \in Seq(Nat) /\ k = Len(t)
      BY ONLY <3>8, t = [i \in 1 .. k |-> s1(i)], k \in Nat
    <3>10. Len(FlattenSeq(ss)) = Total(t)
      BY ONLY k \in Nat, <3>7, <3>8, <3>9, FlattenLength
    <3>11. FlattenSeq(ss) \in Seq(Nat)
      BY ONLY <3>7, FlattenJoins
    <3>12. Len(FlattenSeq(ss)) \in Nat
      BY ONLY <3>11
    <3> QED BY ONLY <3>5, <3>10, <3>11, <3>12
  <2> QED BY <2>2, <2>3, <2>4, <2>5
<1> QED BY <1>1, <1>2

\* What is written of the fields, and of the entries that were not understood.
LEMMA WholePieces ==
  ASSUME NEW c, OuterClass(c), NEW b, IsWhole(c, b), NEW n \in Nat, n = Len(c.written)
  PROVE  \E ss \in Seq(Seq(Nat)) : /\ n = Len(ss)
                                   /\ \A i \in 1 .. n : ss[i] = FieldBytes(c, b, c.written[i])
                                   /\ Serialize(c, b) = FlattenSeq(ss) \o BytesOf(b.unknown)
<1> DEFINE x(i) == FieldBytes(c, b, c.written[i])
<1> PICK ss : ss = [i \in 1 .. n |-> x(i)]
  OBVIOUS
<1>1. \A i \in 1 .. n : x(i) \in Seq(Nat)
  <2>1. \A i \in 1 .. n : c.written[i] \in DOMAIN c.read
    BY DEF OuterClass
  <2> QED BY <2>1, FieldTakes
<1>2. DOMAIN c.written = 1 .. n
  BY DEF OuterClass
<1>3. Serialize(c, b) = FlattenSeq(ss) \o BytesOf(b.unknown)
  BY <1>2 DEF Serialize, UnknownBytes, BytesOf
<1>4. \A i \in 1 .. n : ss[i] = FieldBytes(c, b, c.written[i])
  BY DEF x
<1> HIDE DEF x
<1>5. ss \in Seq(Seq(Nat)) /\ n = Len(ss)
  BY <1>1
<1> QED BY <1>3, <1>4, <1>5

\* What a message is while b is read into a.
WholePoints(c, a, b) ==
  {SoFar(WholeUpto(c, a, b, k)) : k \in 0 .. Len(c.written)}
  \cup UNION {FieldPoints(c, WholeUpto(c, a, b, l - 1), b, c.written[l]) :
                l \in {i \in 1 .. Len(c.written) : c.written[i] \in DOMAIN b.f}}

\* All fields, one after the other.
LEMMA FieldsAlong ==
  ASSUME NEW c, OuterClass(c), NEW b, IsWhole(c, b), NEW a, IsWhole(c, a), NEW n \in Nat, n = Len(c.written),
         NEW ss \in Seq(Seq(Nat)), n = Len(ss), \A i \in 1 .. n : ss[i] = FieldBytes(c, b, c.written[i])
  PROVE  Along(c, FlattenSeq(ss), SoFar(a), SoFar(WholeUpto(c, a, b, n)), WholePoints(c, a, b))
<1> PICK R : R = WholePoints(c, a, b)
  OBVIOUS
<1> PICK flat : OneByOne(Nat, ss, n, flat)
  BY ONLY n \in Nat, ss \in Seq(Seq(Nat)), n = Len(ss), FlattenUnfolds
<1>1. /\ flat[0] = <<>> /\ FlattenSeq(ss) = flat[n]
      /\ \A i \in 1 .. n : flat[i] = flat[i - 1] \o ss[i]
  BY ONLY OneByOne(Nat, ss, n, flat) DEF OneByOne
<1>2. IsMessage(a) /\ IsMessage(b)
  BY DEF IsWhole
<1>3. \A k \in 0 .. n : SoFar(WholeUpto(c, a, b, k)) \in R
  BY DEF WholePoints
<1>4. ASSUME NEW k \in Nat, NEW l \in 1 .. n, l - 1 = k, c.written[l] \in DOMAIN b.f
      PROVE  FieldPoints(c, WholeUpto(c, a, b, k), b, c.written[l]) \subseteq R
  BY <1>4 DEF WholePoints
<1> DEFINE P == {k \in Nat : k <= n => Along(c, flat[k], SoFar(a), SoFar(WholeUpto(c, a, b, k)), R)}
<1>5. 0 \in P
  <2>1. WholeUpto(c, a, b, 0) = a
    <3>1. {c.written[i] : i \in 1 .. 0} \cap DOMAIN b.f = {}
      OBVIOUS
    <3>2. WholeUpto(c, a, b, 0) = [f |-> [j \in DOMAIN a.f |-> a.f[j]], unknown |-> a.unknown]
      BY <3>1 DEF WholeUpto
    <3> QED BY <1>2, <3>2 DEF IsMessage
  <2>2. SoFar(a) \in R
    <3>1. 0 \in 0 .. n
      OBVIOUS
    <3> QED BY ONLY <1>3, <2>1, <3>1
  <2>3. Along(c, <<>>, SoFar(a), SoFar(a), R)
    BY ONLY <2>2, AlongNone
  <2>4. Along(c, flat[0], SoFar(a), SoFar(WholeUpto(c, a, b, 0)), R)
    BY ONLY <1>1, <2>1, <2>3
  <2> QED BY ONLY <2>4, n \in Nat
<1>6. ASSUME NEW k \in Nat, k \in P PROVE k + 1 \in P
  <2> SUFFICES ASSUME NEW l \in Nat, l = k + 1, l <= n
               PROVE  Along(c, flat[l], SoFar(a), SoFar(WholeUpto(c, a, b, l)), R)
    BY k + 1 \in Nat
  <2>1. l \in 1 .. n /\ l - 1 = k /\ k <= n /\ l <= Len(c.written) /\ k \in 0 .. n
    BY ONLY k \in Nat, n \in Nat, l = k + 1, l <= n, n = Len(c.written)
  <2>2. Along(c, flat[k], SoFar(a), SoFar(WholeUpto(c, a, b, k)), R)
    BY <1>6, <2>1
  <2>3. SoFar(WholeUpto(c, a, b, k)) \in R
    BY ONLY <1>3, <2>1
  <2>4. c.written[l] \in DOMAIN b.f => FieldPoints(c, WholeUpto(c, a, b, k), b, c.written[l]) \subseteq R
    BY ONLY <1>4, <2>1, k \in Nat
  <2>5. Along(c, FieldBytes(c, b, c.written[l]), SoFar(WholeUpto(c, a, b, k)), SoFar(WholeUpto(c, a, b, l)), R)
    BY ONLY <2>1, <2>3, <2>4, OuterClass(c), IsWhole(c, b), IsWhole(c, a), k \in Nat, l \in Nat, l = k + 1, WholeFieldAlong
  <2>6. flat[l] = flat[k] \o FieldBytes(c, b, c.written[l])
    <3>1. flat[l] = flat[l - 1] \o ss[l]
      BY ONLY <1>1, <2>1
    <3>2. ss[l] = FieldBytes(c, b, c.written[l])
      BY <2>1
    <3> QED BY ONLY <2>1, <3>1, <3>2
  <2> QED BY ONLY <2>2, <2>5, <2>6, AlongOn
<1>7. n \in P
  <2>1. Nat \subseteq P
    <3> HIDE DEF P
    <3>1. \A k \in Nat : k \in P => k + 1 \in P
      BY <1>6
    <3> QED BY ONLY <1>5, <3>1, NatSetInduction
  <2> QED BY ONLY <2>1, n \in Nat
<1>8. Along(c, flat[n], SoFar(a), SoFar(WholeUpto(c, a, b, n)), R)
  <2>1. n <= n => Along(c, flat[n], SoFar(a), SoFar(WholeUpto(c, a, b, n)), R)
    BY ONLY <1>7
  <2> QED BY ONLY <2>1, n \in Nat
<1> HIDE DEF P
<1> QED BY ONLY <1>1, <1>8, R = WholePoints(c, a, b)

\* What interaction writes, it reads as the message merged.
LEMMA WholeMoves ==
  ASSUME NEW c, OuterClass(c), NEW b, IsWhole(c, b), NEW a, IsWhole(c, a)
  PROVE  Moves(c, Serialize(c, b), SoFar(a), SoFar(Merge(c, a, b)))
<1> PICK n \in Nat : n = Len(c.written)
  BY DEF OuterClass
<1> PICK ss \in Seq(Seq(Nat)) : /\ n = Len(ss)
                                /\ \A i \in 1 .. n : ss[i] = FieldBytes(c, b, c.written[i])
                                /\ Serialize(c, b) = FlattenSeq(ss) \o BytesOf(b.unknown)
  BY WholePieces
<1>2. IsMessage(a) /\ IsMessage(b)
  BY DEF IsWhole
<1>5. Moves(c, FlattenSeq(ss), SoFar(a), SoFar(WholeUpto(c, a, b, n)))
  BY FieldsAlong, AlongMoves
<1> PICK x, y, taken, us : x = WholeUpto(c, a, b, n) /\ y = Merge(c, a, b) /\ taken = c.merged \cap DOMAIN b.f
                           /\ us = b.unknown
  OBVIOUS
<1> DEFINE got(j) == MergedField(c, a, b, j)
<1> PICK g : g = [j \in DOMAIN a.f \cup taken |-> IF j \in taken THEN got(j) ELSE a.f[j]]
  OBVIOUS
<1>6. x = [f |-> g, unknown |-> a.unknown]
  <2>1. {c.written[i] : i \in 1 .. n} = c.merged
    BY DEF OuterClass
  <2> QED BY ONLY <2>1, x = WholeUpto(c, a, b, n), taken = c.merged \cap DOMAIN b.f,
                  g = [j \in DOMAIN a.f \cup taken |-> IF j \in taken THEN got(j) ELSE a.f[j]] DEF WholeUpto, got
<1>7. y = [f |-> g, unknown |-> a.unknown \o us]
  <2>1. y = [f |-> [j \in DOMAIN a.f \cup taken |-> IF j \in taken THEN got(j) ELSE a.f[j]],
             unknown |-> a.unknown \o us]
    BY ONLY y = Merge(c, a, b), taken = c.merged \cap DOMAIN b.f, us = b.unknown DEF Merge, MergedField, got
  <2> QED BY ONLY <2>1, g = [j \in DOMAIN a.f \cup taken |-> IF j \in taken THEN got(j) ELSE a.f[j]]
<1>8. g = [j \in DOMAIN g |-> g[j]]
  BY ONLY g = [j \in DOMAIN a.f \cup taken |-> IF j \in taken THEN got(j) ELSE a.f[j]]
<1> HIDE DEF got
<1>9. x.f = g /\ x.unknown = a.unknown
  BY ONLY <1>6
<1>10. IsMessage(x)
  <2>1. a.unknown \in Seq(WireEntries)
    BY ONLY <1>2 DEF IsMessage
  <2> QED BY ONLY <1>6, <1>8, <1>9, <2>1 DEF IsMessage
<1>11. Moves(c, BytesOf(us), SoFar(x), SoFar([f |-> x.f, unknown |-> x.unknown \o us]))
  <2>1. us \in Seq(WireEntries) /\ \A i \in 1 .. Len(us) : ~Understood(c, us[i])
    BY DEF IsWhole, IsMessage
  <2> QED BY ONLY <1>10, <2>1, UnknownMoves
<1>12. Moves(c, BytesOf(us), SoFar(x), SoFar(y))
  BY ONLY <1>7, <1>9, <1>11
<1>13. Serialize(c, b) = FlattenSeq(ss) \o BytesOf(us)
  OBVIOUS
<1> QED BY ONLY <1>5, <1>12, <1>13, x = WholeUpto(c, a, b, n), y = Merge(c, a, b), MovesOn

\* ByteSizeLong of interaction tells how much it writes.
LEMMA WholeSizes ==
  ASSUME NEW c, OuterClass(c), SizedClass(c), NEW b, IsWhole(c, b)
  PROVE  Serialize(c, b) \in Seq(Nat) /\ ByteSize(c, b) = Len(Serialize(c, b))
<1> PICK n \in Nat : n = Len(c.written)
  BY DEF OuterClass
<1> PICK ss \in Seq(Seq(Nat)) : /\ n = Len(ss)
                                /\ \A i \in 1 .. n : ss[i] = FieldBytes(c, b, c.written[i])
                                /\ Serialize(c, b) = FlattenSeq(ss) \o BytesOf(b.unknown)
  BY WholePieces
<1> DEFINE size(k) == FieldSize(c, b, k)
<1> PICK g : g = [k \in DOMAIN c.read |-> size(k)]
  OBVIOUS
<1>1. \A k \in DOMAIN c.read : g[k] = FieldSize(c, b, k) /\ g[k] \in Nat
                               /\ g[k] = Len(FieldBytes(c, b, k))
  BY FieldTakes
<1> HIDE DEF size
<1>2. g \in [DOMAIN c.read -> Nat]
  BY <1>1
<1>3. SumOver(g, c.sized) = SumOver(g, c.written)
  BY <1>2 DEF SizedClass
<1>4. ByteSize(c, b) = Len(UnknownBytes(b)) + SumOver(g, c.sized)
  <2>1. \A i \in DOMAIN c.sized : c.sized[i] \in DOMAIN c.read
    BY DEF SizedClass
  <2>2. [i \in DOMAIN c.sized |-> FieldSize(c, b, c.sized[i])] = [i \in DOMAIN c.sized |-> g[c.sized[i]]]
    BY <1>1, <2>1
  <2> QED BY <2>2 DEF ByteSize, SumOver
<1> DEFINE at(i) == g[c.written[i]]
<1> PICK t : t = [i \in 1 .. n |-> at(i)]
  OBVIOUS
<1>5. DOMAIN c.written = 1 .. n /\ \A i \in 1 .. n : c.written[i] \in DOMAIN c.read
  <2>1. c.written \in Seq(DOMAIN c.read)
    BY DEF SizedClass
  <2> QED BY ONLY <2>1, n = Len(c.written), ElementsOf
<1>6. SumOver(g, c.written) = Total(t)
  BY <1>5 DEF SumOver
<1>7. \A i \in 1 .. n : t[i] \in Nat /\ t[i] = Len(ss[i])
  BY <1>1, <1>5
<1> HIDE DEF at
<1>8. t \in Seq(Nat) /\ n = Len(t)
  BY <1>7
<1>9. Len(FlattenSeq(ss)) = Total(t)
  BY ONLY ss \in Seq(Seq(Nat)), n \in Nat, n = Len(ss), <1>7, <1>8, FlattenLength
<1> PICK x \in Seq(Nat), y \in Seq(Nat) : x = FlattenSeq(ss) /\ y = BytesOf(b.unknown)
  <2>1. FlattenSeq(ss) \in Seq(Nat)
    BY ONLY ss \in Seq(Seq(Nat)), FlattenJoins
  <2>2. BytesOf(b.unknown) \in Seq(Nat)
    BY EntriesOfBytes DEF IsWhole, IsMessage
  <2> QED BY ONLY <2>1, <2>2
<1>10. UnknownBytes(b) = y
  BY DEF UnknownBytes, BytesOf
<1>11. x \o y \in Seq(Nat) /\ Len(x \o y) = Len(x) + Len(y) /\ Len(x) \in Nat /\ Len(y) \in Nat
  BY ONLY x \in Seq(Nat), y \in Seq(Nat), ConcatProperties, LenProperties
<1>12. Serialize(c, b) = x \o y
  BY ONLY Serialize(c, b) = FlattenSeq(ss) \o BytesOf(b.unknown), x = FlattenSeq(ss), y = BytesOf(b.unknown)
<1> QED BY ONLY <1>3, <1>4, <1>6, <1>9, <1>10, <1>11, <1>12, x = FlattenSeq(ss)

\* The empty message, and what is merged into it.
LEMMA EmptyWhole ==
  ASSUME NEW c
  PROVE  IsWhole(c, Empty)
<1>1. \A i \in 1 .. Len(<<>>) : FALSE
  OBVIOUS
<1> QED BY <1>1, EmptyIs DEF IsWhole

\* A field merged into the empty message is as it was.
LEMMA EmptyMergesTo ==
  ASSUME NEW c, OuterClass(c), NEW b, IsWhole(c, b), NEW n \in DOMAIN b.f
  PROVE  MergedField(c, Empty, b, n) = b.f[n]
<1> PICK v : v = b.f[n]
  OBVIOUS
<1>1. n \in DOMAIN c.read /\ IsValue(c, n, v)
  BY DEF IsWhole
<1>2. SubOf(Empty, n) = Empty /\ ListOf(Empty, n) = <<>>
  BY EmptyIs DEF SubOf, ListOf, Present
<1>3. CASE c.read[n] = "message"
  <2>1. InnerClass(c.class[n])
    BY <1>1, <1>3 DEF OuterClass, ScalarKinds
  <2>2. IsInfo(c.class[n], v)
    BY <1>1, <1>3 DEF IsValue
  <2>3. MergeInfo(c.class[n], Empty, v) = v
    BY ONLY <2>1, <2>2, EmptyMerges
  <2> QED BY <1>2, <1>3, <2>3 DEF MergedField
<1>4. CASE c.read[n] = "repeated"
  <2> PICK S : v \in Seq(S)
    BY <1>1, <1>4 DEF IsValue, IsInfoList
  <2>1. <<>> \o v = v
    BY ONLY v \in Seq(S), ConcatEmptySeq
  <2> QED BY <1>2, <1>4, <2>1 DEF MergedField
<1>5. CASE c.read[n] # "message" /\ c.read[n] # "repeated"
  BY <1>5 DEF MergedField
<1> QED BY <1>3, <1>4, <1>5

\* A message merged into the empty one is as it was.
LEMMA WholeIntoEmpty ==
  ASSUME NEW c, OuterClass(c), NEW b, IsWhole(c, b)
  PROVE  Merge(c, Empty, b) = b
<1> DEFINE got(j) == MergedField(c, Empty, b, j)
<1>1. \A n \in DOMAIN b.f : got(n) = b.f[n]
  BY EmptyMergesTo
<1>2. c.merged \cap DOMAIN b.f = DOMAIN b.f
  BY DEF OuterClass, IsWhole
<1>3. DOMAIN Empty.f \cup DOMAIN b.f = DOMAIN b.f
  BY EmptyIs
<1>4. Merge(c, Empty, b) = [f |-> [n \in DOMAIN b.f |-> got(n)], unknown |-> Empty.unknown \o b.unknown]
  BY <1>2, <1>3 DEF Merge, MergedField
<1> HIDE DEF got
<1>5. [n \in DOMAIN b.f |-> got(n)] = [n \in DOMAIN b.f |-> b.f[n]]
  BY ONLY <1>1
<1>6. Empty.unknown \o b.unknown = b.unknown
  BY EmptyIs, ConcatEmptySeq DEF IsWhole, IsMessage
<1>7. b = [f |-> b.f, unknown |-> b.unknown] /\ b.f = [n \in DOMAIN b.f |-> b.f[n]]
  BY DEF IsWhole, IsMessage
<1> QED BY ONLY <1>4, <1>5, <1>6, <1>7

\* m has no field that of has not, and of a list the first elements only.
CutBack(c, m, of) ==
  /\ m.unknown = <<>>
  /\ DOMAIN m.f \subseteq DOMAIN of.f
  /\ \A n \in DOMAIN m.f :
        IF c.read[n] = "repeated" THEN IsPrefix(m.f[n], of.f[n]) ELSE m.f[n] = of.f[n]
  /\ \A n \in DOMAIN m.f, k \in DOMAIN of.f : k < n => k \in DOMAIN m.f

\* Fields are written in the order of their numbers.
Ascending(w) == \A i, j \in 1 .. Len(w) : i < j => w[i] < w[j]

\* The fields written up to the k-th, in the message b.
FieldsUpto(c, b, k) == {c.written[i] : i \in 1 .. k} \cap DOMAIN b.f

\* What has been read after k fields.
LEMMA UptoIs ==
  ASSUME NEW c, OuterClass(c), NEW b, IsWhole(c, b), NEW k
  PROVE  WholeUpto(c, Empty, b, k) = [f |-> [n \in FieldsUpto(c, b, k) |-> b.f[n]], unknown |-> <<>>]
<1> PICK D : D = FieldsUpto(c, b, k)
  OBVIOUS
<1> DEFINE got(j) == MergedField(c, Empty, b, j)
<1>1. \A n \in D : got(n) = b.f[n]
  BY EmptyMergesTo DEF FieldsUpto
<1>2. WholeUpto(c, Empty, b, k)
        = [f |-> [n \in DOMAIN Empty.f \cup D |-> IF n \in D THEN got(n) ELSE Empty.f[n]],
           unknown |-> Empty.unknown]
  BY DEF WholeUpto, FieldsUpto
<1> HIDE DEF got
<1>3. DOMAIN Empty.f \cup D = D /\ Empty.unknown = <<>>
  BY EmptyIs
<1>4. [n \in DOMAIN Empty.f \cup D |-> IF n \in D THEN got(n) ELSE Empty.f[n]] = [n \in D |-> b.f[n]]
  BY ONLY <1>1, <1>3
<1> QED BY ONLY <1>2, <1>3, <1>4, D = FieldsUpto(c, b, k)

\* A list is a beginning of itself, as are its first elements.
LEMMA FirstIsPrefix ==
  ASSUME NEW S, NEW l \in Seq(S), NEW j \in 0 .. Len(l)
  PROVE  IsPrefix(SubSeq(l, 1, j), l) /\ IsPrefix(l, l)
<1> PICK v : v = SubSeq(l, 1, j)
  OBVIOUS
<1>1. v \in Seq(S) /\ Len(v) = j
  BY SubSeqProperties
<1>2. SubSeq(v, 1, Len(v)) = v
  BY ONLY <1>1, SubSeqFull
<1> QED BY <1>1, <1>2 DEF IsPrefix

\* What of a field v may have been read.
FieldIsCut(c, b, n, v) == IF c.read[n] = "repeated" THEN IsPrefix(v, b.f[n]) ELSE v = b.f[n]

\* All of it may.
LEMMA WholeFieldIsCut ==
  ASSUME NEW c, NEW b, IsWhole(c, b), NEW n \in DOMAIN b.f
  PROVE  FieldIsCut(c, b, n, b.f[n])
<1> PICK v : v = b.f[n]
  OBVIOUS
<1>1. CASE c.read[n] = "repeated"
  <2>1. IsValue(c, n, v)
    BY DEF IsWhole
  <2> PICK S : v \in Seq(S)
    BY <1>1, <2>1 DEF IsValue, IsInfoList
  <2>2. 0 \in 0 .. Len(v)
    OBVIOUS
  <2>3. IsPrefix(v, v)
    BY ONLY v \in Seq(S), <2>2, FirstIsPrefix
  <2> QED BY <1>1, <2>3 DEF FieldIsCut
<1>2. CASE c.read[n] # "repeated"
  BY <1>2 DEF FieldIsCut
<1> QED BY <1>1, <1>2

\* A field with a smaller number has been written before.
LEMMA SmallerIsBefore ==
  ASSUME NEW c, OuterClass(c), NEW b, IsWhole(c, b), Ascending(c.written),
         NEW i \in 1 .. Len(c.written), NEW y \in DOMAIN b.f, y < c.written[i]
  PROVE  \E j \in 1 .. Len(c.written) : j < i /\ y = c.written[j]
<1> PICK w : w = c.written
  OBVIOUS
<1>1. w \in Seq(Nat \ {0}) /\ DOMAIN c.read = {w[j] : j \in 1 .. Len(w)}
  BY DEF OuterClass
<1>2. y \in DOMAIN c.read
  BY DEF IsWhole
<1> PICK j \in 1 .. Len(w) : y = w[j]
  BY ONLY <1>1, <1>2
<1>3. w[i] \in Nat /\ w[j] \in Nat /\ Len(w) \in Nat /\ i \in 1 .. Len(w)
  BY <1>1
<1>4. \A p, q \in 1 .. Len(w) : p < q => w[p] < w[q]
  BY DEF Ascending
<1>5. w[j] < w[i]
  OBVIOUS
<1>6. j < i
  <2>1. ~(i < j)
    BY ONLY <1>3, <1>4, <1>5, j \in 1 .. Len(w)
  <2>2. i # j
    BY ONLY <1>3, <1>5
  <2> QED BY ONLY <1>3, <2>1, <2>2, j \in 1 .. Len(w)
<1> QED BY <1>6

\* The fields up to the k-th.
LEMMA UptoIsCut ==
  ASSUME NEW c, OuterClass(c), NEW b, IsWhole(c, b), Ascending(c.written),
         NEW k \in Nat, k <= Len(c.written), NEW g, g = [n \in FieldsUpto(c, b, k) |-> b.f[n]]
  PROVE  CutBack(c, [f |-> g, unknown |-> <<>>], b)
<1> PICK z \in Nat : z = Len(c.written)
  BY DEF OuterClass
<1> PICK m : m = [f |-> g, unknown |-> <<>>]
  OBVIOUS
<1>1. m.f = g /\ m.unknown = <<>> /\ DOMAIN g = FieldsUpto(c, b, k) /\ \A n \in DOMAIN g : g[n] = b.f[n]
  OBVIOUS
<1>2. DOMAIN g \subseteq DOMAIN b.f
  BY <1>1 DEF FieldsUpto
<1>3. ASSUME NEW n \in DOMAIN g
      PROVE  IF c.read[n] = "repeated" THEN IsPrefix(g[n], b.f[n]) ELSE g[n] = b.f[n]
  <2>1. FieldIsCut(c, b, n, b.f[n])
    BY <1>2, WholeFieldIsCut
  <2> QED BY <1>1, <2>1 DEF FieldIsCut
<1>4. ASSUME NEW n \in DOMAIN g, NEW y \in DOMAIN b.f, y < n
      PROVE  y \in DOMAIN g
  <2> PICK i \in 1 .. k : n = c.written[i]
    BY <1>1 DEF FieldsUpto
  <2>1. i \in 1 .. z
    OBVIOUS
  <2> PICK j \in 1 .. z : j < i /\ y = c.written[j]
    BY <1>4, <2>1, SmallerIsBefore
  <2>2. j \in 1 .. k
    OBVIOUS
  <2> QED BY <1>1, <2>2 DEF FieldsUpto
<1> QED BY ONLY <1>1, <1>2, <1>3, <1>4, m = [f |-> g, unknown |-> <<>>] DEF CutBack

\* And the next one as far as it has been read.
LEMMA NextIsCut ==
  ASSUME NEW c, OuterClass(c), NEW b, IsWhole(c, b), Ascending(c.written),
         NEW k \in Nat, NEW l \in Nat, l = k + 1, l <= Len(c.written),
         NEW g, g = [n \in FieldsUpto(c, b, k) |-> b.f[n]],
         NEW n, n = c.written[l], n \in DOMAIN b.f, NEW v, FieldIsCut(c, b, n, v)
  PROVE  CutBack(c, [f |-> Put(g, n, v), unknown |-> <<>>], b)
<1> PICK z \in Nat : z = Len(c.written)
  BY DEF OuterClass
<1> PICK h : h = Put(g, n, v)
  OBVIOUS
<1> PICK m : m = [f |-> h, unknown |-> <<>>]
  OBVIOUS
<1>1. DOMAIN g = FieldsUpto(c, b, k) /\ \A x \in DOMAIN g : g[x] = b.f[x]
  OBVIOUS
<1>2. /\ m.f = h /\ m.unknown = <<>> /\ DOMAIN h = DOMAIN g \cup {n}
      /\ h[n] = v /\ \A x \in DOMAIN g \ {n} : h[x] = g[x]
  BY DEF Put
<1>3. DOMAIN h \subseteq DOMAIN b.f
  BY <1>1, <1>2 DEF FieldsUpto
<1>4. ASSUME NEW x \in DOMAIN h
      PROVE  IF c.read[x] = "repeated" THEN IsPrefix(h[x], b.f[x]) ELSE h[x] = b.f[x]
  <2>1. CASE x = n
    BY <1>2, <2>1 DEF FieldIsCut
  <2>2. CASE x # n
    <3>1. h[x] = b.f[x] /\ x \in DOMAIN b.f
      BY <1>1, <1>2, <1>3, <2>2
    <3>2. FieldIsCut(c, b, x, b.f[x])
      BY <3>1, WholeFieldIsCut
    <3> QED BY <3>1, <3>2 DEF FieldIsCut
  <2> QED BY <2>1, <2>2
<1>5. ASSUME NEW x \in DOMAIN h, NEW y \in DOMAIN b.f, y < x
      PROVE  y \in DOMAIN h
  <2> PICK i \in 1 .. l : x = c.written[i]
    <3>1. CASE x = n
      <4>1. l \in 1 .. l
        OBVIOUS
      <4> QED BY <3>1, <4>1
    <3>2. CASE x # n
      <4> PICK i \in 1 .. k : x = c.written[i]
        BY <1>1, <1>2, <3>2 DEF FieldsUpto
      <4>1. i \in 1 .. l
        OBVIOUS
      <4> QED BY <4>1
    <3> QED BY <3>1, <3>2
  <2>1. i \in 1 .. z
    OBVIOUS
  <2> PICK j \in 1 .. z : j < i /\ y = c.written[j]
    BY <1>5, <2>1, SmallerIsBefore
  <2>2. j \in 1 .. k
    OBVIOUS
  <2> QED BY <1>1, <1>2, <2>2 DEF FieldsUpto
<1> QED BY ONLY <1>2, <1>3, <1>4, <1>5, m = [f |-> h, unknown |-> <<>>], h = Put(g, n, v) DEF CutBack

\* Whatever the message is after an entry, it is the message cut short.
LEMMA PointsAreCut ==
  ASSUME NEW c, OuterClass(c), NEW b, IsWhole(c, b), Ascending(c.written), NEW p \in WholePoints(c, Empty, b)
  PROVE  CutBack(c, p.m, b)
<1> PICK z \in Nat : z = Len(c.written)
  BY DEF OuterClass
<1>1. ASSUME NEW k \in Nat, k <= z PROVE CutBack(c, SoFar(WholeUpto(c, Empty, b, k)).m, b)
  <2> PICK g : g = [n \in FieldsUpto(c, b, k) |-> b.f[n]]
    OBVIOUS
  <2>1. WholeUpto(c, Empty, b, k) = [f |-> g, unknown |-> <<>>]
    BY UptoIs
  <2>2. CutBack(c, [f |-> g, unknown |-> <<>>], b)
    BY <1>1, UptoIsCut
  <2> QED BY <2>1, <2>2 DEF SoFar
<1>2. CASE \E k \in 0 .. z : p = SoFar(WholeUpto(c, Empty, b, k))
  BY <1>1, <1>2
<1>3. CASE \E l \in 1 .. z : c.written[l] \in DOMAIN b.f
                             /\ p \in FieldPoints(c, WholeUpto(c, Empty, b, l - 1), b, c.written[l])
  <2> PICK l \in 1 .. z : /\ c.written[l] \in DOMAIN b.f
                          /\ p \in FieldPoints(c, WholeUpto(c, Empty, b, l - 1), b, c.written[l])
    BY <1>3
  <2> PICK k \in Nat : k = l - 1 /\ l = k + 1 /\ k <= z
    OBVIOUS
  <2> PICK n : n = c.written[l]
    OBVIOUS
  <2> PICK g : g = [i \in FieldsUpto(c, b, k) |-> b.f[i]]
    OBVIOUS
  <2> PICK x : x = WholeUpto(c, Empty, b, k)
    OBVIOUS
  <2>1. x = [f |-> g, unknown |-> <<>>] /\ DOMAIN g = FieldsUpto(c, b, k)
    BY UptoIs
  <2>2. n \notin DOMAIN g
    <3>1. \A i \in 1 .. k : c.written[i] # n
      <4> PICK w : w = c.written
        OBVIOUS
      <4>1. \A i, j \in 1 .. z : w[i] = w[j] => i = j
        BY ONLY OuterClass(c), w = c.written, z = Len(c.written) DEF OuterClass
      <4>2. \A i \in 1 .. k : i \in 1 .. z /\ i # l
        BY ONLY k \in Nat, z \in Nat, k = l - 1, l \in 1 .. z
      <4> QED BY ONLY <4>1, <4>2, n = c.written[l], w = c.written, l \in 1 .. z
    <3> QED BY <2>1, <3>1 DEF FieldsUpto
  <2>3. SubOf(x, n) = SubOf(Empty, n) /\ ListOf(x, n) = <<>> /\ ListOf(Empty, n) = <<>>
    <3>1. n \notin DOMAIN x.f /\ n \notin DOMAIN Empty.f
      BY ONLY <2>1, <2>2, EmptyIs
    <3> QED BY ONLY <3>1 DEF SubOf, ListOf, Present
  <2>4. \A v : FieldIsCut(c, b, n, v) => CutBack(c, SoFar(SetField(x, n, v)).m, b)
    <3> SUFFICES ASSUME NEW v, FieldIsCut(c, b, n, v) PROVE CutBack(c, SoFar(SetField(x, n, v)).m, b)
      OBVIOUS
    <3>1. SetField(x, n, v) = [f |-> Put(g, n, v), unknown |-> <<>>]
      BY ONLY <2>1, SetFieldIs
    <3>2. CutBack(c, [f |-> Put(g, n, v), unknown |-> <<>>], b)
      <4>1. l <= Len(c.written) /\ l \in Nat /\ n \in DOMAIN b.f
        OBVIOUS
      <4> QED BY ONLY <4>1, OuterClass(c), IsWhole(c, b), Ascending(c.written), k \in Nat, l = k + 1, n = c.written[l],
                      g = [i \in FieldsUpto(c, b, k) |-> b.f[i]], FieldIsCut(c, b, n, v), NextIsCut
    <3> QED BY <3>1, <3>2 DEF SoFar
  <2>5. CASE p = SoFar(x)
    BY <1>1, <2>5
  <2>6. CASE p = SoFar(SetField(x, n, MergedField(c, x, b, n)))
    <3>1. MergedField(c, x, b, n) = MergedField(c, Empty, b, n)
      BY ONLY <2>3 DEF MergedField
    <3>2. MergedField(c, x, b, n) = b.f[n]
      BY <3>1, EmptyMergesTo
    <3>3. FieldIsCut(c, b, n, b.f[n])
      BY WholeFieldIsCut
    <3> QED BY <2>4, <2>6, <3>2, <3>3
  <2>7. CASE \E j \in IF c.read[n] = "repeated" THEN 0 .. Len(b.f[n]) ELSE {} : p = SoFar(ListUpto(x, n, b.f[n], j))
    <3>1. c.read[n] = "repeated"
      BY <2>7
    <3> PICK j \in 0 .. Len(b.f[n]) : p = SoFar(ListUpto(x, n, b.f[n], j))
      BY <2>7
    <3>2. IsValue(c, n, b.f[n])
      BY DEF IsWhole
    <3> PICK v : v = b.f[n]
      OBVIOUS
    <3> PICK S : v \in Seq(S)
      BY <3>1, <3>2 DEF IsValue, IsInfoList
    <3>3. CASE j = 0
      BY <2>5, <3>3 DEF ListUpto
    <3>4. CASE j # 0
      <4>1. SubSeq(v, 1, j) \in Seq(S) /\ IsPrefix(SubSeq(v, 1, j), v)
        <5>1. j \in 0 .. Len(v)
          OBVIOUS
        <5>2. \A i \in 1 .. j : v[i] \in S
          BY <5>1
        <5> QED BY <5>1, <5>2, FirstIsPrefix, SubSeqProperties
      <4>2. ListUpto(x, n, v, j) = SetField(x, n, <<>> \o SubSeq(v, 1, j))
        BY <2>3, <3>4 DEF ListUpto
      <4>3. <<>> \o SubSeq(v, 1, j) = SubSeq(v, 1, j)
        BY <4>1, ConcatEmptySeq
      <4>4. FieldIsCut(c, b, n, SubSeq(v, 1, j))
        BY <3>1, <4>1 DEF FieldIsCut
      <4> QED BY <2>4, <4>2, <4>3, <4>4
    <3> QED BY <3>3, <3>4
  <2>8. p \in FieldPoints(c, x, b, n)
    OBVIOUS
  <2> QED BY <2>5, <2>6, <2>7, <2>8 DEF FieldPoints
<1> QED BY <1>2, <1>3 DEF WholePoints

\* The beginning of a message's bytes is refused or read as the message cut short.
LEMMA CutIsRead ==
  ASSUME NEW c, OuterClass(c), NEW b, IsWhole(c, b), b.unknown = <<>>, Ascending(c.written),
         NEW s, s = Serialize(c, b), NEW k \in 0 .. Len(s)
  PROVE  Read(c, Empty, SubSeq(s, 1, k)).ok => CutBack(c, Read(c, Empty, SubSeq(s, 1, k)).m, b)
<1> PICK n \in Nat : n = Len(c.written)
  BY DEF OuterClass
<1> PICK ss \in Seq(Seq(Nat)) : /\ n = Len(ss)
                                /\ \A i \in 1 .. n : ss[i] = FieldBytes(c, b, c.written[i])
                                /\ Serialize(c, b) = FlattenSeq(ss) \o BytesOf(b.unknown)
  BY WholePieces
<1> PICK R : R = WholePoints(c, Empty, b)
  OBVIOUS
<1> PICK y : y = SoFar(WholeUpto(c, Empty, b, n))
  OBVIOUS
<1>1. Along(c, FlattenSeq(ss), SoFar(Empty), y, R)
  <2>1. IsWhole(c, Empty)
    BY EmptyWhole
  <2> QED BY <2>1, FieldsAlong
<1>2. s = FlattenSeq(ss)
  <2>1. FlattenSeq(ss) \in Seq(Nat)
    <3>1. Moves(c, FlattenSeq(ss), SoFar(Empty), y)
      BY ONLY <1>1, AlongMoves
    <3> QED BY ONLY <3>1, MovesRead DEF SoFar
  <2>2. s = FlattenSeq(ss) \o <<>>
    BY BytesOfFew
  <2> QED BY ONLY <2>1, <2>2, ConcatEmptySeq
<1>3. Along(c, s, SoFar(Empty), y, R)
  BY <1>1, <1>2
<1> PICK r : r = Read(c, Empty, SubSeq(s, 1, k))
  OBVIOUS
<1>4. r.ok => r \in R
  BY ONLY <1>3, k \in 0 .. Len(s), r = Read(c, Empty, SubSeq(s, 1, k)), AlongCut
<1>5. r \in R => CutBack(c, r.m, b)
  BY PointsAreCut
<1> QED BY <1>4, <1>5

\* What is written reads as the message; two of them, as the messages merged.
LEMMA WholeReads ==
  ASSUME NEW c, OuterClass(c), NEW a, IsWhole(c, a)
  PROVE  /\ Read(c, Empty, Serialize(c, a)) = [ok |-> TRUE, m |-> a]
         /\ \A b : IsWhole(c, b) => Read(c, Empty, Serialize(c, a) \o Serialize(c, b))
                                       = [ok |-> TRUE, m |-> Merge(c, a, b)]
<1>1. Moves(c, Serialize(c, a), SoFar(Empty), SoFar(a))
  <2>1. IsWhole(c, Empty) /\ Merge(c, Empty, a) = a
    BY EmptyWhole, WholeIntoEmpty
  <2>2. Moves(c, Serialize(c, a), SoFar(Empty), SoFar(Merge(c, Empty, a)))
    BY ONLY OuterClass(c), IsWhole(c, a), <2>1, WholeMoves
  <2> QED BY ONLY <2>1, <2>2
<1>2. ASSUME NEW s, NEW y, Moves(c, s, SoFar(Empty), SoFar(y)) PROVE Read(c, Empty, s) = [ok |-> TRUE, m |-> y]
  <2>1. Moves(c, s, [ok |-> TRUE, m |-> Empty], [ok |-> TRUE, m |-> y])
    BY ONLY <1>2 DEF SoFar
  <2> QED BY ONLY <2>1, MovesRead
<1>3. ASSUME NEW b, IsWhole(c, b)
      PROVE  Read(c, Empty, Serialize(c, a) \o Serialize(c, b)) = [ok |-> TRUE, m |-> Merge(c, a, b)]
  <2>1. Moves(c, Serialize(c, b), SoFar(a), SoFar(Merge(c, a, b)))
    BY ONLY OuterClass(c), IsWhole(c, a), <1>3, WholeMoves
  <2>2. Moves(c, Serialize(c, a) \o Serialize(c, b), SoFar(Empty), SoFar(Merge(c, a, b)))
    BY ONLY <1>1, <2>1, MovesOn
  <2> QED BY ONLY <1>2, <2>2
<1> QED BY <1>1, <1>2, <1>3

\* The sums of interaction.
LEMMA InteractionSums ==
  ASSUME NEW g \in [{1, 2, 3, 4, 5, 6, 7, 9, 10, 11} -> Nat]
  PROVE  SumOver(g, <<1, 10, 11, 9, 2, 3, 5, 6, 4, 7>>) = SumOver(g, <<1, 2, 3, 4, 5, 6, 7, 9, 10, 11>>)
<1> PICK D : D = {1, 2, 3, 4, 5, 6, 7, 9, 10, 11}
  OBVIOUS
<1> PICK p, w : p = <<1, 10, 11, 9, 2, 3, 5, 6, 4, 7>> /\ w = <<1, 2, 3, 4, 5, 6, 7, 9, 10, 11>>
  OBVIOUS
<1>1. p \in Seq(D) /\ Len(p) = 10 /\ w \in Seq(D) /\ Len(w) = 10
  OBVIOUS
<1>2. /\ p[1] = 1 /\ p[2] = 10 /\ p[3] = 11 /\ p[4] = 9 /\ p[5] = 2
      /\ p[6] = 3 /\ p[7] = 5 /\ p[8] = 6 /\ p[9] = 4 /\ p[10] = 7
  BY ONLY p = <<1, 10, 11, 9, 2, 3, 5, 6, 4, 7>>
<1>3. /\ w[1] = 1 /\ w[2] = 2 /\ w[3] = 3 /\ w[4] = 4 /\ w[5] = 5
      /\ w[6] = 6 /\ w[7] = 7 /\ w[8] = 9 /\ w[9] = 10 /\ w[10] = 11
  BY ONLY w = <<1, 2, 3, 4, 5, 6, 7, 9, 10, 11>>
<1>4. /\ SumOver(g, p) = g[p[1]] + g[p[2]] + g[p[3]] + g[p[4]] + g[p[5]] + g[p[6]] + g[p[7]] + g[p[8]] + g[p[9]] + g[p[10]]
      /\ SumOver(g, w) = g[w[1]] + g[w[2]] + g[w[3]] + g[w[4]] + g[w[5]] + g[w[6]] + g[w[7]] + g[w[8]] + g[w[9]] + g[w[10]]
  <2>1. g \in [D -> Nat]
    OBVIOUS
  <2> QED BY ONLY <1>1, <2>1, SumOver10
<1>5. SumOver(g, p) = g[1] + g[10] + g[11] + g[9] + g[2] + g[3] + g[5] + g[6] + g[4] + g[7]
  BY ONLY <1>2, <1>4, Zenon
<1>6. SumOver(g, w) = g[1] + g[2] + g[3] + g[4] + g[5] + g[6] + g[7] + g[9] + g[10] + g[11]
  BY ONLY <1>3, <1>4, Zenon
<1> PICK a1 \in Nat, a2 \in Nat, a3 \in Nat, a4 \in Nat, a5 \in Nat, a6 \in Nat, a7 \in Nat, a9 \in Nat,
         a10 \in Nat, a11 \in Nat :
            /\ a1 = g[1] /\ a2 = g[2] /\ a3 = g[3] /\ a4 = g[4] /\ a5 = g[5]
            /\ a6 = g[6] /\ a7 = g[7] /\ a9 = g[9] /\ a10 = g[10] /\ a11 = g[11]
  <2>1. \A i \in D : g[i] \in Nat
    OBVIOUS
  <2>2. 1 \in D /\ 2 \in D /\ 3 \in D /\ 4 \in D /\ 5 \in D /\ 6 \in D /\ 7 \in D /\ 9 \in D /\ 10 \in D /\ 11 \in D
    BY ONLY D = {1, 2, 3, 4, 5, 6, 7, 9, 10, 11}
  <2>3. /\ g[1] \in Nat /\ g[2] \in Nat /\ g[3] \in Nat /\ g[4] \in Nat /\ g[5] \in Nat
        /\ g[6] \in Nat /\ g[7] \in Nat /\ g[9] \in Nat /\ g[10] \in Nat /\ g[11] \in Nat
    BY ONLY <2>1, <2>2
  <2> QED BY ONLY <2>3, Zenon
<1>7. a1 + a10 + a11 + a9 + a2 + a3 + a5 + a6 + a4 + a7 = a1 + a2 + a3 + a4 + a5 + a6 + a7 + a9 + a10 + a11
  BY ONLY a1 \in Nat, a2 \in Nat, a3 \in Nat, a4 \in Nat, a5 \in Nat, a6 \in Nat, a7 \in Nat, a9 \in Nat,
          a10 \in Nat, a11 \in Nat
<1>8. SumOver(g, p) = SumOver(g, w)
  BY <1>5, <1>6, <1>7, Zenon
<1> QED BY ONLY <1>8, p = <<1, 10, 11, 9, 2, 3, 5, 6, 4, 7>>, w = <<1, 2, 3, 4, 5, 6, 7, 9, 10, 11>>

\* Class interaction, with what its terminals are.
InteractionFields == {1, 2, 3, 4, 5, 6, 7, 9, 10, 11}

\* The parts of the class.
LEMMA InteractionParts ==
  ASSUME NEW t
  PROVE  /\ Interaction(t).written = InteractionWritten /\ Interaction(t).sized = InteractionSized
         /\ Interaction(t).read = InteractionRead /\ Interaction(t).merged = InteractionFields
         /\ DOMAIN InteractionRead = InteractionFields
         /\ InteractionRead[1] = "number"
         /\ \A n \in {2, 3, 5, 6} : InteractionRead[n] = "message"
         /\ \A n \in {4, 7} : InteractionRead[n] = "bool"
         /\ InteractionRead[9] = "string"
         /\ \A n \in {10, 11} : InteractionRead[n] = "repeated"
         /\ \A n \in {2, 10} : Interaction(t).class[n] = t
         /\ \A n \in {5, 11} : Interaction(t).class[n] = BaseStationInfo
         /\ Interaction(t).class[3] = TermCommandInfo /\ Interaction(t).class[6] = BaseCommandInfo
<1> PICK c : c = Interaction(t)
  OBVIOUS
<1>1. /\ c.written = InteractionWritten /\ c.sized = InteractionSized /\ c.read = InteractionRead
      /\ c.merged = ToSet(InteractionMerged) \cup {10, 11}
  BY DEF Interaction
<1>2. c.class = [n \in {2, 3, 5, 6, 10, 11} |->
                   CASE n \in {2, 10} -> t
                     [] n \in {5, 11} -> BaseStationInfo
                     [] n = 3 -> TermCommandInfo
                     [] n = 6 -> BaseCommandInfo]
  BY DEF Interaction
<1>3. /\ \A n \in {2, 10} : c.class[n] = t
      /\ \A n \in {5, 11} : c.class[n] = BaseStationInfo
      /\ c.class[3] = TermCommandInfo /\ c.class[6] = BaseCommandInfo
  BY ONLY <1>2
<1>4. /\ DOMAIN InteractionRead = InteractionFields
      /\ InteractionRead[1] = "number"
      /\ \A n \in {2, 3, 5, 6} : InteractionRead[n] = "message"
      /\ \A n \in {4, 7} : InteractionRead[n] = "bool"
      /\ InteractionRead[9] = "string"
      /\ \A n \in {10, 11} : InteractionRead[n] = "repeated"
  BY DEF InteractionRead, InteractionFields
<1>5. ToSet(InteractionMerged) = {9, 2, 3, 5, 6, 1, 4, 7}
  <2> PICK p : p = <<9, 2, 3, 5, 6, 1, 4, 7>>
    OBVIOUS
  <2>1. DOMAIN p = {1, 2, 3, 4, 5, 6, 7, 8}
    OBVIOUS
  <2>2. p[1] = 9 /\ p[2] = 2 /\ p[3] = 3 /\ p[4] = 5 /\ p[5] = 6 /\ p[6] = 1 /\ p[7] = 4 /\ p[8] = 7
    OBVIOUS
  <2>3. {p[i] : i \in DOMAIN p} = {9, 2, 3, 5, 6, 1, 4, 7}
    BY ONLY <2>1, <2>2
  <2> QED BY <2>3 DEF ToSet, InteractionMerged
<1>6. c.merged = InteractionFields
  BY <1>1, <1>5 DEF InteractionFields
<1> QED BY <1>1, <1>3, <1>4, <1>6

\* Its methods agree on the fields, whatever the class of the terminals, if that is sound.
LEMMA InteractionSound ==
  ASSUME NEW t, InnerClass(t), SizedClass(t)
  PROVE  OuterClass(Interaction(t)) /\ SizedClass(Interaction(t))
<1> PICK c : c = Interaction(t)
  OBVIOUS
<1>1. /\ c.written = InteractionWritten /\ c.sized = InteractionSized
      /\ c.read = InteractionRead /\ c.merged = InteractionFields
      /\ DOMAIN c.read = InteractionFields
  BY InteractionParts
<1> PICK w : w = c.written
  OBVIOUS
<1>2. w = <<1, 2, 3, 4, 5, 6, 7, 9, 10, 11>>
  BY <1>1 DEF InteractionWritten
<1>3. /\ w[1] = 1 /\ w[2] = 2 /\ w[3] = 3 /\ w[4] = 4 /\ w[5] = 5
      /\ w[6] = 6 /\ w[7] = 7 /\ w[8] = 9 /\ w[9] = 10 /\ w[10] = 11
  BY ONLY <1>2
<1>4. w \in Seq(InteractionFields) /\ Len(w) = 10
  BY ONLY <1>2 DEF InteractionFields
<1>5. w \in Seq(Nat \ {0})
  <2>1. InteractionFields \subseteq Nat \ {0}
    BY DEF InteractionFields
  <2> QED BY ONLY <1>4, <2>1, SeqIn
<1>6. \A i \in 1 .. 10 : i = 1 \/ i = 2 \/ i = 3 \/ i = 4 \/ i = 5 \/ i = 6 \/ i = 7 \/ i = 8 \/ i = 9 \/ i = 10
  OBVIOUS
<1>7. InteractionFields = {w[i] : i \in 1 .. 10}
  <2>1. \A i \in 1 .. 10 : w[i] \in InteractionFields
    BY ONLY <1>4, ElementsOf
  <2>2. \A n \in InteractionFields : \E i \in 1 .. 10 : w[i] = n
    <3>1. 1 \in 1 .. 10 /\ 2 \in 1 .. 10 /\ 3 \in 1 .. 10 /\ 4 \in 1 .. 10 /\ 5 \in 1 .. 10 /\ 6 \in 1 .. 10
          /\ 7 \in 1 .. 10 /\ 8 \in 1 .. 10 /\ 9 \in 1 .. 10 /\ 10 \in 1 .. 10
      OBVIOUS
    <3> QED BY ONLY <1>3, <3>1 DEF InteractionFields
  <2> QED BY ONLY <2>1, <2>2
<1>8. \A i, j \in 1 .. 10 : w[i] = w[j] => i = j
  BY ONLY <1>3, <1>6
<1>9. \A n \in InteractionFields :
         \/ c.read[n] \in ScalarKinds
         \/ c.read[n] \in {"message", "repeated"} /\ InnerClass(c.class[n]) /\ SizedClass(c.class[n])
  <2> SUFFICES ASSUME NEW n \in InteractionFields
               PROVE  \/ c.read[n] \in ScalarKinds
                      \/ c.read[n] \in {"message", "repeated"} /\ InnerClass(c.class[n]) /\ SizedClass(c.class[n])
    OBVIOUS
  <2>1. n \in {1, 4, 7, 9} \/ n \in {2, 10} \/ n \in {5, 11} \/ n = 3 \/ n = 6
    BY DEF InteractionFields
  <2>2. ASSUME n \in {1, 4, 7, 9} PROVE c.read[n] \in ScalarKinds
    BY <1>1, <2>2, InteractionParts DEF ScalarKinds
  <2>3. n \in {2, 3, 5, 6, 10, 11} => c.read[n] \in {"message", "repeated"}
    BY <1>1, InteractionParts
  <2>4. ASSUME n \in {2, 10} PROVE InnerClass(c.class[n]) /\ SizedClass(c.class[n])
    BY <2>4, InteractionParts
  <2>5. ASSUME n \in {5, 11} PROVE InnerClass(c.class[n]) /\ SizedClass(c.class[n])
    BY <2>5, InteractionParts, StationSound
  <2>6. ASSUME n = 3 \/ n = 6 PROVE InnerClass(c.class[n]) /\ SizedClass(c.class[n])
    BY <2>6, InteractionParts, CommandsSound
  <2> QED BY <2>1, <2>2, <2>3, <2>4, <2>5, <2>6
<1>10. OuterClass(c)
  <2>1. c.written \in Seq(Nat \ {0})
    BY ONLY <1>5, w = c.written
  <2>2. DOMAIN c.read = {c.written[i] : i \in 1 .. Len(c.written)}
    BY ONLY <1>1, <1>4, <1>7, w = c.written
  <2>3. \A i, j \in 1 .. Len(c.written) : c.written[i] = c.written[j] => i = j
    BY ONLY <1>4, <1>8, w = c.written
  <2>4. c.merged = DOMAIN c.read
    BY ONLY <1>1
  <2>5. \A n \in DOMAIN c.read :
           \/ c.read[n] \in ScalarKinds
           \/ c.read[n] \in {"message", "repeated"} /\ InnerClass(c.class[n]) /\ SizedClass(c.class[n])
    BY ONLY <1>1, <1>9
  <2> QED BY ONLY <2>1, <2>2, <2>3, <2>4, <2>5 DEF OuterClass
<1>11. SizedClass(c)
  <2>1. c.sized = <<1, 10, 11, 9, 2, 3, 5, 6, 4, 7>>
    BY <1>1 DEF InteractionSized
  <2>2. c.sized \in Seq(InteractionFields)
    BY ONLY <2>1 DEF InteractionFields
  <2>3. \A g \in [InteractionFields -> Nat] : SumOver(g, c.sized) = SumOver(g, c.written)
    <3> SUFFICES ASSUME NEW g \in [InteractionFields -> Nat] PROVE SumOver(g, c.sized) = SumOver(g, c.written)
      OBVIOUS
    <3>1. g \in [{1, 2, 3, 4, 5, 6, 7, 9, 10, 11} -> Nat]
      BY DEF InteractionFields
    <3>2. SumOver(g, <<1, 10, 11, 9, 2, 3, 5, 6, 4, 7>>) = SumOver(g, <<1, 2, 3, 4, 5, 6, 7, 9, 10, 11>>)
      BY ONLY <3>1, InteractionSums
    <3> QED BY ONLY <1>2, <2>1, <3>2, w = c.written
  <2> QED BY ONLY <1>1, <1>4, <2>2, <2>3, w = c.written DEF SizedClass
<1> QED BY <1>10, <1>11

\* A message without entries that were not understood.
KnownInfo(c, m) == IsInfo(c, m) /\ m.unknown = <<>>

\* A terminal as a program that does not know field 9 has it.
OfProto(y) ==
  [f |-> [n \in DOMAIN y.f \ {9} |-> y.f[n]],
   unknown |-> IF 9 \in DOMAIN y.f THEN <<FieldEntry(TerminalInfo, y, 9)>> ELSE <<>>]

\* It is a message of the class without field 9, which the bytes of that field follow.
LEMMA OfProtoIs ==
  ASSUME NEW y, KnownInfo(TerminalInfo, y)
  PROVE  /\ IsInfo(TerminalInfoOfProto, OfProto(y))
         /\ BytesOf(OfProto(y).unknown) = InfoFieldBytes(TerminalInfo, y, 9)
         /\ InfoFieldBytes(TerminalInfo, y, 9) \in Seq(Nat)
         /\ \A n \in 1 .. 8 : InfoFieldBytes(TerminalInfoOfProto, OfProto(y), n) = InfoFieldBytes(TerminalInfo, y, n)
<1> PICK c, d, z : c = TerminalInfo /\ d = TerminalInfoOfProto /\ z = OfProto(y)
  OBVIOUS
<1>1. /\ DOMAIN c.read = 1 .. 9 /\ DOMAIN d.read = 1 .. 8 /\ \A n \in 1 .. 8 : d.read[n] = c.read[n]
  BY DEF TerminalInfo, TerminalInfoRead, TerminalInfoOfProto
<1>2. InnerClass(c) /\ IsInfo(c, y) /\ y.unknown = <<>>
  BY TerminalSound DEF KnownInfo
<1>3. /\ z = [f |-> z.f, unknown |-> z.unknown]
      /\ z.f = [n \in DOMAIN y.f \ {9} |-> y.f[n]]
      /\ z.unknown = IF 9 \in DOMAIN y.f THEN <<FieldEntry(c, y, 9)>> ELSE <<>>
  BY ONLY z = OfProto(y), c = TerminalInfo DEF OfProto
<1>4. /\ DOMAIN z.f = DOMAIN y.f \ {9} /\ \A n \in DOMAIN z.f : z.f[n] = y.f[n]
      /\ z.f = [n \in DOMAIN z.f |-> z.f[n]]
  BY ONLY <1>3
<1>5. DOMAIN y.f \subseteq 1 .. 9 /\ \A n \in DOMAIN y.f : y.f[n] \in ScalarValues(c.read[n])
  BY ONLY <1>1, <1>2 DEF IsInfo
<1>6. DOMAIN z.f \subseteq 1 .. 8
  <2>1. \A n \in 1 .. 9 : n = 9 \/ n \in 1 .. 8
    OBVIOUS
  <2> QED BY ONLY <1>4, <1>5, <2>1
<1>7. \A n \in DOMAIN z.f : z.f[n] \in ScalarValues(d.read[n])
  BY ONLY <1>1, <1>4, <1>5, <1>6
<1>8. /\ z.unknown \in Seq(WireEntries) /\ \A i \in 1 .. Len(z.unknown) : ~Understood(d, z.unknown[i])
      /\ BytesOf(z.unknown) = InfoFieldBytes(c, y, 9) /\ InfoFieldBytes(c, y, 9) \in Seq(Nat)
  <2>1. CASE 9 \in DOMAIN y.f
    <3> PICK e : e = FieldEntry(c, y, 9)
      OBVIOUS
    <3>1. e \in WireEntries /\ InfoFieldBytes(c, y, 9) = EntryBytes(e) /\ e.num = 9
      BY ONLY <1>2, <2>1, e = FieldEntry(c, y, 9), FieldEntryIs
    <3>2. z.unknown = <<e>>
      BY ONLY <1>3, <2>1, e = FieldEntry(c, y, 9)
    <3>3. <<e>> \in Seq(WireEntries) /\ Len(<<e>>) = 1 /\ <<e>>[1] = e
      BY ONLY <3>1, OneIsSeq
    <3>4. ~Understood(d, e)
      BY <1>1, <3>1 DEF Understood
    <3>5. \A i \in 1 .. 1 : i = 1
      OBVIOUS
    <3>6. BytesOf(<<e>>) = EntryBytes(e)
      BY ONLY <3>1, BytesOfFew
    <3>7. EntryBytes(e) \in Seq(Nat)
      BY ONLY <3>1, EntryIs
    <3> QED BY ONLY <3>1, <3>2, <3>3, <3>4, <3>5, <3>6, <3>7
  <2>2. CASE 9 \notin DOMAIN y.f
    <3>1. z.unknown = <<>> /\ InfoFieldBytes(c, y, 9) = <<>>
      BY <1>3, <2>2 DEF InfoFieldBytes, Present
    <3>2. <<>> \in Seq(WireEntries) /\ <<>> \in Seq(Nat)
      BY ONLY EmptySeq
    <3>3. \A i \in 1 .. Len(<<>>) : FALSE
      OBVIOUS
    <3> QED BY ONLY <3>1, <3>2, <3>3, BytesOfFew
  <2> QED BY <2>1, <2>2
<1>9. IsInfo(d, z)
  BY ONLY <1>1, <1>3, <1>4, <1>6, <1>7, <1>8 DEF IsInfo
<1>10. ASSUME NEW n \in 1 .. 8 PROVE InfoFieldBytes(d, z, n) = InfoFieldBytes(c, y, n)
  <2>1. n # 9 /\ d.read[n] = c.read[n]
    BY <1>1
  <2>2. Present(z, n) = Present(y, n) /\ (Present(y, n) => z.f[n] = y.f[n])
    BY ONLY <1>4, <2>1 DEF Present
  <2> QED BY ONLY <2>1, <2>2 DEF InfoFieldBytes
<1> QED BY ONLY <1>8, <1>9, <1>10, c = TerminalInfo, d = TerminalInfoOfProto, z = OfProto(y)

\* One piece put together.
LEMMA FlattenOne ==
  ASSUME NEW S, NEW p \in Seq(S)
  PROVE  FlattenSeq(<<p>>) = p
<1> PICK ss : ss = <<p>>
  OBVIOUS
<1> PICK n \in Nat : n = 1
  OBVIOUS
<1>1. ss \in Seq(Seq(S)) /\ n = Len(ss) /\ ss[1] = p
  BY ONLY ss = <<p>>, n = 1, p \in Seq(S), OneIsSeq
<1> PICK flat : OneByOne(S, ss, n, flat)
  BY ONLY n \in Nat, <1>1, FlattenUnfolds
<1>2. flat[0] = <<>> /\ FlattenSeq(ss) = flat[1] /\ \A i \in 1 .. 1 : flat[i] = flat[i - 1] \o ss[i]
  BY ONLY OneByOne(S, ss, n, flat), n = 1 DEF OneByOne
<1>3. 1 \in 1 .. 1 /\ 1 - 1 = 0
  OBVIOUS
<1>4. <<>> \o p = p
  BY ONLY p \in Seq(S), ConcatEmptySeq
<1> QED BY ONLY <1>1, <1>2, <1>3, <1>4, ss = <<p>>

\* Such a terminal is written as it was.
LEMMA OfProtoWrites ==
  ASSUME NEW y, KnownInfo(TerminalInfo, y)
  PROVE  /\ SerializeInfo(TerminalInfoOfProto, OfProto(y)) = SerializeInfo(TerminalInfo, y)
         /\ InfoByteSize(TerminalInfoOfProto, OfProto(y)) = InfoByteSize(TerminalInfo, y)
<1> PICK c, d, z : c = TerminalInfo /\ d = TerminalInfoOfProto /\ z = OfProto(y)
  OBVIOUS
<1>0. /\ c.written = <<1, 2, 3, 4, 5, 6, 7, 8, 9>> /\ d.written = <<1, 2, 3, 4, 5, 6, 7, 8>>
  BY DEF TerminalInfo, TerminalInfoWritten, TerminalInfoOfProto
<1>1. /\ Len(c.written) = 9 /\ \A i \in 1 .. 9 : c.written[i] = i
      /\ Len(d.written) = 8 /\ \A i \in 1 .. 8 : d.written[i] = i
  BY ONLY <1>0, Upto9, Upto8
<1>2. InnerClass(c) /\ SizedClass(c) /\ InnerClass(d) /\ SizedClass(d)
  BY TerminalSound, TerminalOfProtoSound
<1>3. IsInfo(c, y) /\ y.unknown = <<>> /\ IsInfo(d, z)
  BY OfProtoIs DEF KnownInfo
<1> PICK p \in Seq(Nat) : p = InfoFieldBytes(c, y, 9) /\ p = BytesOf(z.unknown)
  BY OfProtoIs
<1> PICK ss \in Seq(Seq(Nat)) : /\ 9 = Len(ss)
                                /\ \A i \in 1 .. 9 : ss[i] = InfoFieldBytes(c, y, c.written[i])
                                /\ SerializeInfo(c, y) = FlattenSeq(ss) \o BytesOf(y.unknown)
  BY ONLY 9 \in Nat, <1>1, <1>2, <1>3, InfoPieces
<1> PICK tt \in Seq(Seq(Nat)) : /\ 8 = Len(tt)
                                /\ \A i \in 1 .. 8 : tt[i] = InfoFieldBytes(d, z, d.written[i])
                                /\ SerializeInfo(d, z) = FlattenSeq(tt) \o BytesOf(z.unknown)
  BY ONLY 8 \in Nat, <1>1, <1>2, <1>3, InfoPieces
<1>4. \A i \in 1 .. 8 : tt[i] = ss[i]
  <2>1. \A i \in 1 .. 8 : InfoFieldBytes(d, z, i) = InfoFieldBytes(c, y, i)
    BY OfProtoIs
  <2>2. \A i \in 1 .. 8 : i \in 1 .. 9
    OBVIOUS
  <2>3. ASSUME NEW i \in 1 .. 8 PROVE tt[i] = ss[i]
    <3>1. tt[i] = InfoFieldBytes(d, z, d.written[i]) /\ d.written[i] = i /\ i \in 1 .. 9
      BY <1>1, <2>2
    <3>2. ss[i] = InfoFieldBytes(c, y, c.written[i]) /\ c.written[i] = i
      BY <1>1, <3>1
    <3>3. InfoFieldBytes(d, z, i) = InfoFieldBytes(c, y, i)
      BY ONLY <2>1, i \in 1 .. 8
    <3> QED BY ONLY <3>1, <3>2, <3>3
  <2> QED BY <2>3
<1>5. ss[9] = p
  <2>1. 9 \in 1 .. 9
    OBVIOUS
  <2> QED BY ONLY <1>1, <2>1, p = InfoFieldBytes(c, y, 9), \A i \in 1 .. 9 : ss[i] = InfoFieldBytes(c, y, c.written[i])
<1> PICK one \in Seq(Seq(Nat)) : one = <<p>> /\ Len(one) = 1 /\ one[1] = p
  BY OneIsSeq
<1>6. ss = tt \o one
  <2> PICK u : u = tt \o one
    OBVIOUS
  <2>1. u \in Seq(Seq(Nat)) /\ Len(u) = 9 /\ \A i \in 1 .. 9 : u[i] = IF i <= 8 THEN tt[i] ELSE one[i - 8]
    <3>1. /\ u \in Seq(Seq(Nat)) /\ Len(u) = Len(tt) + Len(one)
          /\ \A i \in 1 .. Len(tt) + Len(one) : u[i] = IF i <= Len(tt) THEN tt[i] ELSE one[i - Len(tt)]
      BY ONLY u = tt \o one, tt \in Seq(Seq(Nat)), one \in Seq(Seq(Nat)), ConcatProperties
    <3>2. Len(tt) = 8 /\ Len(one) = 1 /\ 8 + 1 = 9
      OBVIOUS
    <3> QED BY ONLY <3>1, <3>2
  <2>2. ASSUME NEW i \in 1 .. 9 PROVE u[i] = ss[i]
    <3>1. CASE i = 9
      <4>1. ~(i <= 8) /\ i - 8 = 1
        BY ONLY <3>1
      <4> QED BY ONLY <1>5, <2>1, <3>1, <4>1, one[1] = p, i \in 1 .. 9
    <3>2. CASE i # 9
      <4>1. i <= 8 /\ i \in 1 .. 8
        BY ONLY <3>2, i \in 1 .. 9
      <4>2. u[i] = tt[i]
        BY ONLY <2>1, <4>1, i \in 1 .. 9
      <4>3. tt[i] = ss[i]
        BY ONLY <1>4, <4>1
      <4> QED BY ONLY <4>2, <4>3
    <3> QED BY <3>1, <3>2
  <2>3. u = ss
    BY ONLY <2>1, <2>2, ss \in Seq(Seq(Nat)), 9 = Len(ss), SeqEqual
  <2> QED BY ONLY <2>3, u = tt \o one
<1>7. FlattenSeq(ss) = FlattenSeq(tt) \o FlattenSeq(one) /\ FlattenSeq(ss) \in Seq(Nat)
  BY ONLY <1>6, tt \in Seq(Seq(Nat)), one \in Seq(Seq(Nat)), ss \in Seq(Seq(Nat)), FlattenJoins
<1>8. FlattenSeq(one) = p
  BY ONLY one = <<p>>, p \in Seq(Nat), FlattenOne
<1>9. BytesOf(y.unknown) = <<>>
  BY <1>3, BytesOfFew
<1>10. FlattenSeq(ss) \o <<>> = FlattenSeq(ss)
  BY ONLY <1>7, ConcatEmptySeq
<1>11. SerializeInfo(d, z) = SerializeInfo(c, y)
  BY ONLY <1>7, <1>8, <1>9, <1>10, p = BytesOf(z.unknown), SerializeInfo(c, y) = FlattenSeq(ss) \o BytesOf(y.unknown),
          SerializeInfo(d, z) = FlattenSeq(tt) \o BytesOf(z.unknown)
<1>12. InfoByteSize(d, z) = InfoByteSize(c, y)
  BY ONLY <1>2, <1>3, <1>11, InfoSizes
<1> QED BY ONLY <1>11, <1>12, c = TerminalInfo, d = TerminalInfoOfProto, z = OfProto(y)

\* A value of field n of interaction, and a message of it, in which everything was understood.
IsKnown(n, v) ==
  CASE n \in {2, 3, 5, 6} -> KnownInfo(interaction.class[n], v)
    [] n \in {10, 11} -> /\ (\E S : v \in Seq(S)) /\ Len(v) # 0
                         /\ \A i \in 1 .. Len(v) : KnownInfo(interaction.class[n], v[i])
    [] OTHER -> v \in ScalarValues(InteractionRead[n])

KnownWhole(m) ==
  /\ m = [f |-> m.f, unknown |-> <<>>]
  /\ m.f = [n \in DOMAIN m.f |-> m.f[n]]
  /\ DOMAIN m.f \subseteq InteractionFields
  /\ \A n \in DOMAIN m.f : IsKnown(n, m.f[n])

\* The kinds of the fields.
LEMMA KindsOfFields ==
  /\ \A n \in InteractionFields : n \in {1, 4, 7, 9} \/ n \in {2, 3, 5, 6} \/ n \in {10, 11}
  /\ \A n \in {1, 4, 7, 9} : /\ n \notin {2, 3, 5, 6} /\ n \notin {10, 11}
                             /\ InteractionRead[n] # "message" /\ InteractionRead[n] # "repeated"
  /\ \A n \in {2, 3, 5, 6} : n \notin {10, 11} /\ InteractionRead[n] = "message"
  /\ \A n \in {10, 11} : n \notin {2, 3, 5, 6} /\ InteractionRead[n] = "repeated"
<1>1. \A n \in InteractionFields : n \in {1, 4, 7, 9} \/ n \in {2, 3, 5, 6} \/ n \in {10, 11}
  BY DEF InteractionFields
<1>2. \A n \in {1, 4, 7, 9} : InteractionRead[n] \in {"number", "bool", "string"}
  BY InteractionParts
<1> QED BY <1>1, <1>2, InteractionParts

\* A message in which field f has g and nothing is unknown.
LEMMA WholeOf ==
  ASSUME NEW c, NEW m, NEW g, m = [f |-> g, unknown |-> <<>>], g = [n \in DOMAIN g |-> g[n]],
         DOMAIN g \subseteq DOMAIN c.read, \A n \in DOMAIN g : IsValue(c, n, g[n])
  PROVE  IsWhole(c, m)
<1>1. m.f = g /\ m.unknown = <<>>
  OBVIOUS
<1>2. <<>> \in Seq(WireEntries)
  BY ONLY EmptySeq
<1>3. \A i \in 1 .. Len(<<>>) : FALSE
  OBVIOUS
<1>4. IsMessage(m)
  BY ONLY <1>1, <1>2, m = [f |-> g, unknown |-> <<>>], g = [n \in DOMAIN g |-> g[n]] DEF IsMessage
<1> QED BY <1>1, <1>3, <1>4 DEF IsWhole

\* All known is a message of the class.
LEMMA KnownIsWhole ==
  ASSUME NEW m, KnownWhole(m)
  PROVE  IsWhole(interaction, m)
<1> PICK c, g : c = interaction /\ g = m.f
  OBVIOUS
<1>1. /\ m = [f |-> g, unknown |-> <<>>] /\ g = [n \in DOMAIN g |-> g[n]]
      /\ DOMAIN g \subseteq InteractionFields /\ \A n \in DOMAIN g : IsKnown(n, g[n])
  BY ONLY KnownWhole(m), g = m.f DEF KnownWhole
<1>2. c.read = InteractionRead /\ DOMAIN c.read = InteractionFields
  BY InteractionParts DEF interaction
<1>3. ASSUME NEW n \in DOMAIN g PROVE IsValue(c, n, g[n])
  <2> PICK v : v = g[n]
    OBVIOUS
  <2>1. IsKnown(n, v) /\ n \in InteractionFields
    BY <1>1
  <2>2. CASE n \in {1, 4, 7, 9}
    <3>1. v \in ScalarValues(InteractionRead[n])
      BY ONLY <2>1, <2>2, KindsOfFields DEF IsKnown
    <3>2. IsValue(c, n, v)
      BY ONLY <1>2, <2>2, <3>1, KindsOfFields DEF IsValue
    <3> QED BY <3>2
  <2>3. CASE n \in {2, 3, 5, 6}
    <3>1. IsInfo(c.class[n], v)
      BY ONLY <2>1, <2>3, c = interaction DEF IsKnown, KnownInfo
    <3>2. IsValue(c, n, v)
      BY ONLY <1>2, <2>3, <3>1, KindsOfFields DEF IsValue
    <3> QED BY <3>2
  <2>4. CASE n \in {10, 11}
    <3>1. IsInfoList(c.class[n], v) /\ Len(v) # 0
      BY ONLY <2>1, <2>4, c = interaction, KindsOfFields DEF IsKnown, KnownInfo, IsInfoList
    <3>2. IsValue(c, n, v)
      BY ONLY <1>2, <2>4, <3>1, KindsOfFields DEF IsValue
    <3> QED BY <3>2
  <2> QED BY <2>1, <2>2, <2>3, <2>4, KindsOfFields
<1>4. IsWhole(c, m)
  BY ONLY <1>1, <1>2, <1>3, WholeOf
<1> QED BY <1>4

\* A field as a program has it that does not know field 9 of terminals.
OfProtoField(n, v) ==
  IF n = 2 THEN OfProto(v) ELSE IF n = 10 THEN [i \in DOMAIN v |-> OfProto(v[i])] ELSE v

\* And a message.
OfProtoWhole(m) == [f |-> [n \in DOMAIN m.f |-> OfProtoField(n, m.f[n])], unknown |-> <<>>]

\* The classes of the two programs.
LEMMA BothClasses ==
  /\ OuterClass(interaction) /\ SizedClass(interaction)
  /\ OuterClass(Interaction(TerminalInfoOfProto)) /\ SizedClass(Interaction(TerminalInfoOfProto))
  /\ interaction.read = InteractionRead /\ Interaction(TerminalInfoOfProto).read = InteractionRead
  /\ interaction.written = Interaction(TerminalInfoOfProto).written
  /\ \A n \in {2, 10} : interaction.class[n] = TerminalInfo
                        /\ Interaction(TerminalInfoOfProto).class[n] = TerminalInfoOfProto
  /\ \A n \in {3, 5, 6, 11} : interaction.class[n] = Interaction(TerminalInfoOfProto).class[n]
<1>1. /\ OuterClass(interaction) /\ SizedClass(interaction)
      /\ OuterClass(Interaction(TerminalInfoOfProto)) /\ SizedClass(Interaction(TerminalInfoOfProto))
  BY TerminalSound, TerminalOfProtoSound, InteractionSound DEF interaction
<1>2. \A n \in {3, 5, 6, 11} : n = 3 \/ n = 6 \/ n \in {5, 11}
  OBVIOUS
<1>3. \A n \in {3, 5, 6, 11} : interaction.class[n] = Interaction(TerminalInfoOfProto).class[n]
  BY <1>2, InteractionParts DEF interaction
<1> QED BY <1>1, <1>3, InteractionParts DEF interaction

\* A field of the one is a value of the other, and is written as it was.
LEMMA OfProtoFieldIs ==
  ASSUME NEW c, NEW d, c = interaction, d = Interaction(TerminalInfoOfProto),
         NEW n \in InteractionFields, NEW v, IsKnown(n, v)
  PROVE  /\ IsValue(d, n, OfProtoField(n, v))
         /\ n \in {2, 3, 5, 6} => InnerBytes(d, n, OfProtoField(n, v)) = InnerBytes(c, n, v)
         /\ n \in {10, 11} => ElementBytes(d, n, OfProtoField(n, v)) = ElementBytes(c, n, v)
         /\ n \in {1, 4, 7, 9} => OfProtoField(n, v) = v
<1>1. /\ d.read = InteractionRead /\ \A k \in {2, 10} : c.class[k] = TerminalInfo /\ d.class[k] = TerminalInfoOfProto
      /\ \A k \in {3, 5, 6, 11} : c.class[k] = d.class[k]
  BY BothClasses
<1>2. CASE n \in {1, 4, 7, 9}
  <2>1. OfProtoField(n, v) = v /\ n \notin {2, 3, 5, 6} /\ n \notin {10, 11}
    BY ONLY <1>2 DEF OfProtoField
  <2>2. v \in ScalarValues(d.read[n])
    BY ONLY <1>1, <2>1, IsKnown(n, v) DEF IsKnown
  <2>3. IsValue(d, n, v)
    BY ONLY <1>1, <1>2, <2>2, KindsOfFields DEF IsValue
  <2> QED BY ONLY <2>1, <2>3
<1>3. CASE n = 2
  <2>1. OfProtoField(n, v) = OfProto(v) /\ n \notin {10, 11} /\ n \notin {1, 4, 7, 9} /\ n \in {2, 10} /\ n \in {2, 3, 5, 6}
    BY ONLY <1>3 DEF OfProtoField
  <2>2. KnownInfo(TerminalInfo, v)
    BY ONLY <1>1, <2>1, IsKnown(n, v), c = interaction DEF IsKnown
  <2>3. IsValue(d, n, OfProto(v))
    <3>1. IsInfo(TerminalInfoOfProto, OfProto(v))
      BY ONLY <2>2, OfProtoIs
    <3> QED BY ONLY <1>1, <2>1, <3>1, KindsOfFields DEF IsValue
  <2>4. InnerBytes(d, n, OfProto(v)) = InnerBytes(c, n, v)
    BY ONLY <1>1, <2>1, <2>2, OfProtoWrites DEF InnerBytes
  <2> QED BY ONLY <2>1, <2>3, <2>4
<1>4. CASE n \in {3, 5, 6}
  <2>1. OfProtoField(n, v) = v /\ n \notin {10, 11} /\ n \notin {1, 4, 7, 9} /\ n \in {3, 5, 6, 11} /\ n \in {2, 3, 5, 6}
    BY ONLY <1>4 DEF OfProtoField
  <2>2. IsInfo(d.class[n], v)
    BY ONLY <1>1, <2>1, IsKnown(n, v), c = interaction DEF IsKnown, KnownInfo
  <2>3. IsValue(d, n, v)
    BY ONLY <1>1, <2>1, <2>2, KindsOfFields DEF IsValue
  <2>4. InnerBytes(d, n, v) = InnerBytes(c, n, v)
    BY ONLY <1>1, <2>1 DEF InnerBytes
  <2> QED BY ONLY <2>1, <2>3, <2>4
<1>5. CASE n = 10
  <2> PICK w : w = OfProtoField(n, v)
    OBVIOUS
  <2>1. w = [i \in DOMAIN v |-> OfProto(v[i])] /\ n \notin {1, 4, 7, 9} /\ n \in {2, 10} /\ n \in {10, 11} /\ n \notin {2, 3, 5, 6}
    BY ONLY <1>5, w = OfProtoField(n, v) DEF OfProtoField
  <2>2. (\E S : v \in Seq(S)) /\ Len(v) # 0 /\ \A i \in 1 .. Len(v) : KnownInfo(TerminalInfo, v[i])
    BY ONLY <1>1, <2>1, IsKnown(n, v), c = interaction DEF IsKnown
  <2> PICK S : v \in Seq(S)
    BY <2>2
  <2> PICK k \in Nat : k = Len(v) /\ DOMAIN v = 1 .. k
    OBVIOUS
  <2> PICK R : R = {w[i] : i \in 1 .. k}
    OBVIOUS
  <2>3. DOMAIN w = 1 .. k /\ w = [i \in 1 .. k |-> w[i]] /\ \A i \in 1 .. k : w[i] = OfProto(v[i]) /\ w[i] \in R
    BY ONLY <2>1, DOMAIN v = 1 .. k, R = {w[i] : i \in 1 .. k}
  <2>4. w \in Seq(R) /\ Len(w) = k
    BY ONLY <2>3, k \in Nat
  <2>5. \A i \in 1 .. k : IsInfo(TerminalInfoOfProto, w[i])
    BY ONLY <2>2, <2>3, k = Len(v), OfProtoIs
  <2>6. IsValue(d, n, w)
    <3>1. IsInfoList(d.class[n], w)
      BY ONLY <1>1, <2>1, <2>4, <2>5 DEF IsInfoList
    <3>2. Len(w) # 0
      BY ONLY <2>2, <2>4, k = Len(v)
    <3> QED BY ONLY <1>1, <2>1, <3>1, <3>2, KindsOfFields DEF IsValue
  <2>7. \A i \in 1 .. k : InnerBytes(d, n, w[i]) = InnerBytes(c, n, v[i])
    <3> SUFFICES ASSUME NEW i \in 1 .. k PROVE InnerBytes(d, n, w[i]) = InnerBytes(c, n, v[i])
      OBVIOUS
    <3>1. KnownInfo(TerminalInfo, v[i]) /\ w[i] = OfProto(v[i])
      BY ONLY <2>2, <2>3, i \in 1 .. k, k = Len(v)
    <3> QED BY ONLY <1>1, <2>1, <3>1, OfProtoWrites DEF InnerBytes
  <2>8. ElementBytes(d, n, w) = ElementBytes(c, n, v)
    <3>1. [i \in 1 .. k |-> InnerBytes(d, n, w[i])] = [i \in 1 .. k |-> InnerBytes(c, n, v[i])]
      BY ONLY <2>7
    <3> QED BY ONLY <2>3, <3>1, DOMAIN v = 1 .. k DEF ElementBytes
  <2> QED BY ONLY <2>1, <2>6, <2>8, w = OfProtoField(n, v)
<1>6. CASE n = 11
  <2>1. OfProtoField(n, v) = v /\ n \notin {1, 4, 7, 9} /\ n \in {3, 5, 6, 11} /\ n \in {10, 11} /\ n \notin {2, 3, 5, 6}
    BY ONLY <1>6 DEF OfProtoField
  <2>2. (\E S : v \in Seq(S)) /\ Len(v) # 0 /\ \A i \in 1 .. Len(v) : IsInfo(d.class[n], v[i])
    BY ONLY <1>1, <2>1, IsKnown(n, v), c = interaction DEF IsKnown, KnownInfo
  <2>3. IsValue(d, n, v)
    <3>1. IsInfoList(d.class[n], v)
      BY ONLY <2>2 DEF IsInfoList
    <3> QED BY ONLY <1>1, <2>1, <2>2, <3>1, KindsOfFields DEF IsValue
  <2>4. \A x : InnerBytes(d, n, x) = InnerBytes(c, n, x)
    BY ONLY <1>1, <2>1 DEF InnerBytes
  <2>5. ElementBytes(d, n, v) = ElementBytes(c, n, v)
    BY ONLY <2>4 DEF ElementBytes
  <2> QED BY ONLY <2>1, <2>3, <2>5
<1> QED
  <2>1. n \in {1, 4, 7, 9} \/ n = 2 \/ n \in {3, 5, 6} \/ n = 10 \/ n = 11
    BY ONLY n \in InteractionFields DEF InteractionFields
  <2> QED BY <2>1, <1>2, <1>3, <1>4, <1>5, <1>6

\* The message such a program has is written as it was.
LEMMA OfProtoReads ==
  ASSUME NEW m, KnownWhole(m), NEW d, d = Interaction(TerminalInfoOfProto)
  PROVE  /\ IsWhole(d, OfProtoWhole(m))
         /\ Serialize(d, OfProtoWhole(m)) = Serialize(interaction, m)
<1> PICK c, z, g : c = interaction /\ z = OfProtoWhole(m) /\ g = m.f
  OBVIOUS
<1>1. /\ m = [f |-> g, unknown |-> <<>>] /\ g = [n \in DOMAIN g |-> g[n]]
      /\ DOMAIN g \subseteq InteractionFields /\ \A n \in DOMAIN g : IsKnown(n, g[n])
  BY ONLY KnownWhole(m), g = m.f DEF KnownWhole
<1> PICK h : h = [n \in DOMAIN g |-> OfProtoField(n, g[n])]
  OBVIOUS
<1>2. DOMAIN h = DOMAIN g /\ h = [n \in DOMAIN h |-> h[n]] /\ \A n \in DOMAIN g : h[n] = OfProtoField(n, g[n])
  BY ONLY h = [n \in DOMAIN g |-> OfProtoField(n, g[n])]
<1>3. z = [f |-> h, unknown |-> <<>>]
  BY ONLY z = OfProtoWhole(m), g = m.f, h = [n \in DOMAIN g |-> OfProtoField(n, g[n])] DEF OfProtoWhole
<1>4. z.f = h /\ z.unknown = <<>> /\ m.unknown = <<>>
  BY ONLY <1>1, <1>3
<1>5. d.read = InteractionRead /\ DOMAIN d.read = InteractionFields /\ c.read = InteractionRead /\ c.written = d.written
  BY BothClasses, InteractionParts
<1>6. ASSUME NEW n \in DOMAIN g
      PROVE  /\ IsValue(d, n, h[n])
             /\ n \in {2, 3, 5, 6} => InnerBytes(d, n, h[n]) = InnerBytes(c, n, g[n])
             /\ n \in {10, 11} => ElementBytes(d, n, h[n]) = ElementBytes(c, n, g[n])
             /\ n \in {1, 4, 7, 9} => h[n] = g[n]
  <2>1. n \in InteractionFields /\ IsKnown(n, g[n]) /\ h[n] = OfProtoField(n, g[n])
    BY <1>1, <1>2
  <2> QED BY ONLY <2>1, c = interaction, d = Interaction(TerminalInfoOfProto), OfProtoFieldIs
<1>7. IsWhole(d, z)
  BY ONLY <1>1, <1>2, <1>3, <1>5, <1>6, WholeOf
<1>8. ASSUME NEW n \in InteractionFields PROVE FieldBytes(d, z, n) = FieldBytes(c, m, n)
  <2>1. Present(z, n) = Present(m, n) /\ (Present(m, n) => n \in DOMAIN g /\ z.f[n] = h[n] /\ m.f[n] = g[n])
    BY ONLY <1>2, <1>4, g = m.f DEF Present
  <2>2. CASE ~Present(m, n)
    BY ONLY <2>1, <2>2 DEF FieldBytes
  <2>3. CASE Present(m, n) /\ n \in {2, 3, 5, 6}
    <3>1. FieldBytes(d, z, n) = InnerBytes(d, n, h[n]) /\ FieldBytes(c, m, n) = InnerBytes(c, n, g[n])
      BY ONLY <1>5, <2>1, <2>3, KindsOfFields DEF FieldBytes
    <3> QED BY ONLY <1>6, <2>1, <2>3, <3>1
  <2>4. CASE Present(m, n) /\ n \in {10, 11}
    <3>1. FieldBytes(d, z, n) = ElementBytes(d, n, h[n]) /\ FieldBytes(c, m, n) = ElementBytes(c, n, g[n])
      BY ONLY <1>5, <2>1, <2>4, KindsOfFields DEF FieldBytes, ElementBytes
    <3> QED BY ONLY <1>6, <2>1, <2>4, <3>1
  <2>5. CASE Present(m, n) /\ n \in {1, 4, 7, 9}
    <3>1. z.f[n] = m.f[n]
      BY ONLY <1>6, <2>1, <2>5
    <3>2. InfoFieldBytes(d, z, n) = InfoFieldBytes(c, m, n)
      BY ONLY <1>5, <2>1, <2>5, <3>1 DEF InfoFieldBytes
    <3>3. FieldBytes(d, z, n) = InfoFieldBytes(d, z, n) /\ FieldBytes(c, m, n) = InfoFieldBytes(c, m, n)
      BY ONLY <1>5, <2>1, <2>5, KindsOfFields DEF FieldBytes
    <3> QED BY ONLY <3>2, <3>3
  <2> QED BY <2>2, <2>3, <2>4, <2>5, KindsOfFields
<1>9. Serialize(d, z) = Serialize(c, m)
  <2>1. \A i \in DOMAIN c.written : c.written[i] \in InteractionFields
    <3>1. c.written \in Seq(DOMAIN c.read)
      BY BothClasses DEF SizedClass
    <3>2. DOMAIN c.written = 1 .. Len(c.written) /\ \A i \in 1 .. Len(c.written) : c.written[i] \in DOMAIN c.read
      BY ONLY <3>1, ElementsOf
    <3> QED BY ONLY <1>5, <3>2
  <2>2. [i \in DOMAIN d.written |-> FieldBytes(d, z, d.written[i])] = [i \in DOMAIN c.written |-> FieldBytes(c, m, c.written[i])]
    BY ONLY <1>5, <1>8, <2>1
  <2>3. UnknownBytes(z) = UnknownBytes(m)
    BY ONLY <1>4 DEF UnknownBytes
  <2> QED BY ONLY <2>2, <2>3 DEF Serialize
<1> QED BY ONLY <1>7, <1>9, c = interaction, z = OfProtoWhole(m)

\* What RoundTrips says of one message.
LEMMA MessageReturns ==
  ASSUME NEW m, KnownWhole(m), NEW s, s = Serialize(interaction, m), NEW d, d = Interaction(TerminalInfoOfProto)
  PROVE  /\ Len(s) = ByteSize(interaction, m)
         /\ Read(interaction, Empty, s) = [ok |-> TRUE, m |-> m]
         /\ Read(d, Empty, s).ok
         /\ Serialize(d, Read(d, Empty, s).m) = s
<1>1. IsWhole(interaction, m) /\ OuterClass(interaction) /\ SizedClass(interaction) /\ OuterClass(d)
  BY KnownIsWhole, BothClasses
<1>2. Len(s) = ByteSize(interaction, m)
  BY ONLY <1>1, s = Serialize(interaction, m), WholeSizes
<1>3. Read(interaction, Empty, s) = [ok |-> TRUE, m |-> m]
  BY ONLY <1>1, s = Serialize(interaction, m), WholeReads
<1> PICK z : z = OfProtoWhole(m)
  OBVIOUS
<1>4. IsWhole(d, z) /\ Serialize(d, z) = s
  BY OfProtoReads
<1>5. Read(d, Empty, s) = [ok |-> TRUE, m |-> z]
  BY ONLY <1>1, <1>4, WholeReads
<1> QED BY ONLY <1>2, <1>3, <1>4, <1>5

\* Nothing is known of the empty message that could be wrong.
LEMMA EmptyIsKnown == KnownWhole(Empty) /\ \A c : KnownInfo(c, Empty)
<1>1. IsMessage(Empty) /\ DOMAIN Empty.f = {} /\ Empty.unknown = <<>>
  BY EmptyIs
<1>2. Empty = [f |-> Empty.f, unknown |-> <<>>]
  BY <1>1 DEF IsMessage
<1>3. KnownWhole(Empty)
  BY ONLY <1>1, <1>2 DEF KnownWhole, IsMessage
<1>4. \A i \in 1 .. Len(<<>>) : FALSE
  OBVIOUS
<1>5. \A c : KnownInfo(c, Empty)
  BY ONLY <1>1, <1>4 DEF KnownInfo, IsInfo, IsMessage
<1> QED BY <1>3, <1>5

\* An inner message with one more or another field.
LEMMA SetKnownInfo ==
  ASSUME NEW c, NEW m, KnownInfo(c, m), NEW k \in DOMAIN c.read, NEW v \in ScalarValues(c.read[k])
  PROVE  KnownInfo(c, SetField(m, k, v))
<1> PICK g, h, z : g = m.f /\ h = Put(g, k, v) /\ z = SetField(m, k, v)
  OBVIOUS
<1>1. /\ m = [f |-> g, unknown |-> <<>>] /\ DOMAIN g \subseteq DOMAIN c.read
      /\ \A n \in DOMAIN g : g[n] \in ScalarValues(c.read[n])
  BY ONLY KnownInfo(c, m), g = m.f DEF KnownInfo, IsInfo
<1>2. z = [f |-> h, unknown |-> <<>>]
  BY ONLY <1>1, h = Put(g, k, v), z = SetField(m, k, v), SetFieldIs
<1>3. /\ h = [n \in DOMAIN h |-> h[n]] /\ DOMAIN h = DOMAIN g \cup {k}
      /\ \A n \in DOMAIN g \cup {k} : h[n] = IF n = k THEN v ELSE g[n]
  <2>1. h = [j \in DOMAIN g \cup {k} |-> IF j = k THEN v ELSE g[j]]
    BY ONLY h = Put(g, k, v) DEF Put
  <2> QED BY ONLY <2>1
<1>4. DOMAIN h \subseteq DOMAIN c.read
  BY ONLY <1>1, <1>3, k \in DOMAIN c.read
<1>5. ASSUME NEW n \in DOMAIN h PROVE h[n] \in ScalarValues(c.read[n])
  BY ONLY <1>1, <1>3, n \in DOMAIN h, v \in ScalarValues(c.read[k])
<1>6. z.f = h /\ z.unknown = <<>>
  BY ONLY <1>2
<1>7. <<>> \in Seq(WireEntries)
  BY ONLY EmptySeq
<1>8. \A i \in 1 .. Len(<<>>) : FALSE
  OBVIOUS
<1>9. IsInfo(c, z)
  BY ONLY <1>2, <1>3, <1>4, <1>5, <1>6, <1>7, <1>8 DEF IsInfo
<1> QED BY ONLY <1>6, <1>9, z = SetField(m, k, v) DEF KnownInfo

\* A message made of known fields.
LEMMA KnownOf ==
  ASSUME NEW g, g = [n \in DOMAIN g |-> g[n]], DOMAIN g \subseteq InteractionFields,
         \A n \in DOMAIN g : IsKnown(n, g[n])
  PROVE  KnownWhole([f |-> g, unknown |-> <<>>])
<1> PICK m : m = [f |-> g, unknown |-> <<>>]
  OBVIOUS
<1>1. m.f = g
  BY ONLY m = [f |-> g, unknown |-> <<>>]
<1>2. KnownWhole(m)
  BY ONLY <1>1, m = [f |-> g, unknown |-> <<>>], g = [n \in DOMAIN g |-> g[n]], DOMAIN g \subseteq InteractionFields,
          \A n \in DOMAIN g : IsKnown(n, g[n]) DEF KnownWhole
<1> QED BY ONLY <1>2, m = [f |-> g, unknown |-> <<>>]

\* A message with one more or another field.
LEMMA SetKnown ==
  ASSUME NEW m, KnownWhole(m), NEW k \in InteractionFields, NEW v, IsKnown(k, v)
  PROVE  KnownWhole(SetField(m, k, v))
<1> PICK g, h : g = m.f /\ h = Put(g, k, v)
  OBVIOUS
<1>1. /\ m = [f |-> g, unknown |-> <<>>] /\ DOMAIN g \subseteq InteractionFields
      /\ \A n \in DOMAIN g : IsKnown(n, g[n])
  BY ONLY KnownWhole(m), g = m.f DEF KnownWhole
<1>2. SetField(m, k, v) = [f |-> h, unknown |-> <<>>]
  BY ONLY <1>1, h = Put(g, k, v), SetFieldIs
<1>3. /\ h = [n \in DOMAIN h |-> h[n]] /\ DOMAIN h = DOMAIN g \cup {k}
      /\ \A n \in DOMAIN g \cup {k} : h[n] = IF n = k THEN v ELSE g[n]
  <2>1. h = [j \in DOMAIN g \cup {k} |-> IF j = k THEN v ELSE g[j]]
    BY ONLY h = Put(g, k, v) DEF Put
  <2> QED BY ONLY <2>1
<1>4. DOMAIN h \subseteq InteractionFields
  BY ONLY <1>1, <1>3, k \in InteractionFields
<1>5. ASSUME NEW n \in DOMAIN h PROVE IsKnown(n, h[n])
  <2>1. CASE n = k
    <3>1. h[n] = v
      BY ONLY <1>3, <2>1
    <3> QED BY ONLY <2>1, <3>1, IsKnown(k, v)
  <2>2. CASE n # k
    <3>1. n \in DOMAIN g /\ h[n] = g[n]
      BY ONLY <1>3, <2>2, n \in DOMAIN h
    <3>2. IsKnown(n, g[n])
      BY ONLY <1>1, <3>1
    <3> QED BY ONLY <3>1, <3>2
  <2> QED BY <2>1, <2>2
<1>6. KnownWhole([f |-> h, unknown |-> <<>>])
  BY ONLY <1>3, <1>4, <1>5, KnownOf
<1> QED BY ONLY <1>2, <1>6

\* A message without a field.
LEMMA UnsetKnown ==
  ASSUME NEW m, KnownWhole(m), NEW n
  PROVE  KnownWhole([m EXCEPT !.f = [k \in DOMAIN m.f \ {n} |-> m.f[k]]])
<1> PICK g, h : g = m.f /\ h = [k \in DOMAIN m.f \ {n} |-> m.f[k]]
  OBVIOUS
<1>1. /\ m = [f |-> g, unknown |-> <<>>] /\ DOMAIN g \subseteq InteractionFields
      /\ \A k \in DOMAIN g : IsKnown(k, g[k])
  BY ONLY KnownWhole(m), g = m.f DEF KnownWhole
<1>2. [m EXCEPT !.f = h] = [f |-> h, unknown |-> <<>>]
  BY ONLY <1>1
<1>3. h = [k \in DOMAIN h |-> h[k]] /\ DOMAIN h \subseteq DOMAIN g /\ \A k \in DOMAIN h : h[k] = g[k]
  BY ONLY g = m.f, h = [k \in DOMAIN m.f \ {n} |-> m.f[k]]
<1>4. DOMAIN h \subseteq InteractionFields
  BY ONLY <1>1, <1>3
<1>5. ASSUME NEW k \in DOMAIN h PROVE IsKnown(k, h[k])
  <2>1. k \in DOMAIN g /\ h[k] = g[k]
    BY ONLY <1>3, k \in DOMAIN h
  <2>2. IsKnown(k, g[k])
    BY ONLY <1>1, <2>1
  <2> QED BY ONLY <2>1, <2>2
<1>6. KnownWhole([f |-> h, unknown |-> <<>>])
  BY ONLY <1>3, <1>4, <1>5, KnownOf
<1> QED BY ONLY <1>2, <1>6, h = [k \in DOMAIN m.f \ {n} |-> m.f[k]]

\* What a message has in a field.
LEMMA FieldKnown ==
  ASSUME NEW m, KnownWhole(m), NEW n
  PROVE  /\ Present(m, n) => n \in InteractionFields /\ IsKnown(n, m.f[n])
         /\ n \in {2, 3, 5, 6} => KnownInfo(interaction.class[n], SubOf(m, n))
         /\ n \in {10, 11} => /\ \E S : ListOf(m, n) \in Seq(S)
                              /\ \A i \in 1 .. Len(ListOf(m, n)) : KnownInfo(interaction.class[n], ListOf(m, n)[i])
<1>1. Present(m, n) => n \in InteractionFields /\ IsKnown(n, m.f[n])
  BY DEF Present, KnownWhole
<1>2. ASSUME n \in {2, 3, 5, 6} PROVE KnownInfo(interaction.class[n], SubOf(m, n))
  <2>1. CASE Present(m, n)
    <3>1. KnownInfo(interaction.class[n], m.f[n])
      BY ONLY <1>1, <1>2, <2>1 DEF IsKnown
    <3> QED BY ONLY <2>1, <3>1 DEF SubOf
  <2>2. CASE ~Present(m, n)
    BY ONLY <2>2, EmptyIsKnown DEF SubOf
  <2> QED BY <2>1, <2>2
<1>3. ASSUME n \in {10, 11}
      PROVE  /\ \E S : ListOf(m, n) \in Seq(S)
             /\ \A i \in 1 .. Len(ListOf(m, n)) : KnownInfo(interaction.class[n], ListOf(m, n)[i])
  <2>1. CASE Present(m, n)
    <3>1. n \notin {2, 3, 5, 6}
      BY ONLY <1>3
    <3>2. /\ \E S : m.f[n] \in Seq(S)
          /\ \A i \in 1 .. Len(m.f[n]) : KnownInfo(interaction.class[n], m.f[n][i])
      BY ONLY <1>1, <1>3, <2>1, <3>1 DEF IsKnown
    <3> QED BY ONLY <2>1, <3>2 DEF ListOf
  <2>2. CASE ~Present(m, n)
    <3>1. <<>> \in Seq(Nat) /\ \A i \in 1 .. Len(<<>>) : FALSE
      OBVIOUS
    <3> QED BY ONLY <2>2, <3>1 DEF ListOf
  <2> QED BY <2>1, <2>2
<1> QED BY <1>1, <1>2, <1>3

\* Two lists of elements with a property, one after the other.
LEMMA ListsJoin ==
  ASSUME NEW S, NEW T, NEW p \in Seq(S), NEW q \in Seq(T)
  PROVE  /\ p \o q \in Seq(S \cup T) /\ Len(p \o q) = Len(p) + Len(q)
         /\ \A i \in 1 .. Len(p \o q) : \/ i \in 1 .. Len(p) /\ (p \o q)[i] = p[i]
                                        \/ i - Len(p) \in 1 .. Len(q) /\ (p \o q)[i] = q[i - Len(p)]
<1>1. p \in Seq(S \cup T) /\ q \in Seq(S \cup T)
  <2>1. S \subseteq S \cup T /\ T \subseteq S \cup T
    OBVIOUS
  <2> QED BY ONLY <2>1, p \in Seq(S), q \in Seq(T), SeqIn
<1> PICK r : r = p \o q
  OBVIOUS
<1> PICK a \in Nat, b \in Nat : a = Len(p) /\ b = Len(q)
  OBVIOUS
<1>2. r \in Seq(S \cup T) /\ Len(r) = a + b /\ \A i \in 1 .. a + b : r[i] = IF i <= a THEN p[i] ELSE q[i - a]
  BY ONLY <1>1, r = p \o q, a = Len(p), b = Len(q), ConcatProperties
<1>3. ASSUME NEW i \in 1 .. a + b PROVE (i \in 1 .. a /\ r[i] = p[i]) \/ (i - a \in 1 .. b /\ r[i] = q[i - a])
  <2>1. i <= a => i \in 1 .. a
    BY ONLY i \in 1 .. a + b, a \in Nat, b \in Nat
  <2>2. ~(i <= a) => i - a \in 1 .. b
    BY ONLY i \in 1 .. a + b, a \in Nat, b \in Nat
  <2> QED BY ONLY <1>2, <2>1, <2>2, i \in 1 .. a + b
<1> QED BY ONLY <1>2, <1>3, r = p \o q, a = Len(p), b = Len(q)

\* A list of a field, with one more element or another list behind it.
LEMMA JoinKnown ==
  ASSUME NEW n \in {10, 11}, NEW p, NEW q, \E S : p \in Seq(S), \E S : q \in Seq(S), Len(q) # 0,
         \A i \in 1 .. Len(p) : KnownInfo(interaction.class[n], p[i]),
         \A i \in 1 .. Len(q) : KnownInfo(interaction.class[n], q[i])
  PROVE  IsKnown(n, p \o q)
<1> PICK S : p \in Seq(S)
  OBVIOUS
<1> PICK T : q \in Seq(T)
  OBVIOUS
<1> PICK r, c, U : r = p \o q /\ c = interaction.class[n] /\ U = S \cup T
  OBVIOUS
<1>1. /\ r \in Seq(U) /\ Len(r) = Len(p) + Len(q)
      /\ \A i \in 1 .. Len(r) : \/ i \in 1 .. Len(p) /\ r[i] = p[i]
                                \/ i - Len(p) \in 1 .. Len(q) /\ r[i] = q[i - Len(p)]
  BY ONLY p \in Seq(S), q \in Seq(T), r = p \o q, U = S \cup T, ListsJoin
<1>2. /\ \A i \in 1 .. Len(p) : KnownInfo(c, p[i])
      /\ \A i \in 1 .. Len(q) : KnownInfo(c, q[i])
  OBVIOUS
<1>3. \A i \in 1 .. Len(r) : KnownInfo(c, r[i])
  BY ONLY <1>1, <1>2
<1>4. Len(r) # 0
  <2>1. Len(p) \in Nat /\ Len(q) \in Nat /\ Len(q) # 0
    OBVIOUS
  <2> QED BY ONLY <1>1, <2>1
<1>5. n \notin {2, 3, 5, 6}
  OBVIOUS
<1>6. IsKnown(n, r)
  BY ONLY <1>1, <1>3, <1>4, <1>5, n \in {10, 11}, c = interaction.class[n] DEF IsKnown
<1> QED BY <1>6

\* And with one more element.
LEMMA AppendKnown ==
  ASSUME NEW n \in {10, 11}, NEW p, \E S : p \in Seq(S), NEW x,
         \A i \in 1 .. Len(p) : KnownInfo(interaction.class[n], p[i]), KnownInfo(interaction.class[n], x)
  PROVE  IsKnown(n, Append(p, x))
<1> PICK S : p \in Seq(S)
  OBVIOUS
<1> PICK q : q = <<x>>
  OBVIOUS
<1>1. q \in Seq({x}) /\ Len(q) = 1 /\ q[1] = x /\ \A i \in 1 .. 1 : i = 1
  BY ONLY q = <<x>>
<1>2. Append(p, x) = p \o q
  <2> PICK T : T = S \cup {x}
    OBVIOUS
  <2>1. p \in Seq(T) /\ x \in T
    <3>1. S \subseteq T
      BY ONLY T = S \cup {x}
    <3> QED BY ONLY <3>1, T = S \cup {x}, p \in Seq(S), SeqIn
  <2> QED BY ONLY <2>1, q = <<x>>
<1>3. \A i \in 1 .. Len(q) : KnownInfo(interaction.class[n], q[i])
  BY <1>1
<1>4. Len(q) # 0
  BY ONLY <1>1
<1>5. IsKnown(n, p \o q)
  BY ONLY n \in {10, 11}, p \in Seq(S), <1>1, <1>3, <1>4, \A i \in 1 .. Len(p) : KnownInfo(interaction.class[n], p[i]), JoinKnown
<1> QED BY ONLY <1>2, <1>5

\* Two inner messages merged.
LEMMA MergeKnownInfo ==
  ASSUME NEW c, InnerClass(c), NEW x, KnownInfo(c, x), NEW y, KnownInfo(c, y)
  PROVE  KnownInfo(c, MergeInfo(c, x, y))
<1> PICK g, h, u, z : /\ g = x.f /\ h = y.f /\ z = MergeInfo(c, x, y)
                      /\ u = [n \in DOMAIN g \cup DOMAIN h |-> IF n \in DOMAIN h THEN h[n] ELSE g[n]]
  OBVIOUS
<1>1. /\ x.unknown = <<>> /\ DOMAIN g \subseteq DOMAIN c.read /\ \A n \in DOMAIN g : g[n] \in ScalarValues(c.read[n])
      /\ y.unknown = <<>> /\ DOMAIN h \subseteq DOMAIN c.read /\ \A n \in DOMAIN h : h[n] \in ScalarValues(c.read[n])
  BY ONLY KnownInfo(c, x), KnownInfo(c, y), g = x.f, h = y.f DEF KnownInfo, IsInfo
<1>2. c.merged \cap DOMAIN h = DOMAIN h
  BY <1>1 DEF InnerClass
<1>3. z = [f |-> u, unknown |-> <<>> \o <<>>]
  BY ONLY <1>1, <1>2, g = x.f, h = y.f, z = MergeInfo(c, x, y),
          u = [n \in DOMAIN g \cup DOMAIN h |-> IF n \in DOMAIN h THEN h[n] ELSE g[n]] DEF MergeInfo
<1>4. <<>> \o <<>> = <<>> /\ <<>> \in Seq(WireEntries) /\ \A i \in 1 .. Len(<<>>) : FALSE
  BY ONLY EmptySeq
<1>5. z = [f |-> u, unknown |-> <<>>] /\ z.f = u /\ z.unknown = <<>>
  BY ONLY <1>3, <1>4
<1>6. /\ u = [n \in DOMAIN u |-> u[n]] /\ DOMAIN u = DOMAIN g \cup DOMAIN h
      /\ \A n \in DOMAIN u : u[n] = IF n \in DOMAIN h THEN h[n] ELSE g[n]
  BY ONLY u = [n \in DOMAIN g \cup DOMAIN h |-> IF n \in DOMAIN h THEN h[n] ELSE g[n]]
<1>7. DOMAIN u \subseteq DOMAIN c.read
  BY ONLY <1>1, <1>6
<1>8. \A n \in DOMAIN u : u[n] \in ScalarValues(c.read[n])
  BY ONLY <1>1, <1>6
<1>9. IsInfo(c, z)
  BY ONLY <1>4, <1>5, <1>6, <1>7, <1>8 DEF IsInfo
<1> QED BY ONLY <1>5, <1>9, z = MergeInfo(c, x, y) DEF KnownInfo

\* Two messages merged.
LEMMA MergeKnown ==
  ASSUME NEW a, KnownWhole(a), NEW b, KnownWhole(b)
  PROVE  KnownWhole(Merge(interaction, a, b))
<1> PICK c, g, h : c = interaction /\ g = a.f /\ h = b.f
  OBVIOUS
<1> DEFINE got(j) == MergedField(c, a, b, j)
           u == [n \in DOMAIN g \cup DOMAIN h |-> IF n \in DOMAIN h THEN got(n) ELSE g[n]]
<1>1. /\ a.unknown = <<>> /\ DOMAIN g \subseteq InteractionFields /\ \A n \in DOMAIN g : IsKnown(n, g[n])
      /\ b.unknown = <<>> /\ DOMAIN h \subseteq InteractionFields /\ \A n \in DOMAIN h : IsKnown(n, h[n])
  BY ONLY KnownWhole(a), KnownWhole(b), g = a.f, h = b.f DEF KnownWhole
<1>2. c.merged = InteractionFields /\ c.read = InteractionRead
  BY InteractionParts DEF interaction
<1>3. c.merged \cap DOMAIN h = DOMAIN h
  BY ONLY <1>1, <1>2
<1>4. Merge(c, a, b) = [f |-> u, unknown |-> <<>> \o <<>>]
  BY ONLY <1>1, <1>3, g = a.f, h = b.f DEF Merge, MergedField
<1>5. <<>> \o <<>> = <<>>
  OBVIOUS
<1>6. ASSUME NEW n \in DOMAIN h PROVE IsKnown(n, got(n))
  <2>1. n \in InteractionFields /\ IsKnown(n, h[n])
    BY ONLY <1>1, n \in DOMAIN h
  <2>2. CASE n \in {1, 4, 7, 9}
    <3>1. got(n) = h[n]
      BY ONLY <1>2, <2>2, h = b.f, KindsOfFields DEF MergedField
    <3> QED BY ONLY <2>1, <3>1
  <2>3. CASE n \in {2, 3, 5, 6}
    <3>1. InnerClass(c.class[n])
      <4>1. c.read[n] = "message" /\ n \in DOMAIN c.read
        BY ONLY <1>2, <2>1, <2>3, InteractionParts, KindsOfFields
      <4>2. OuterClass(c)
        BY BothClasses
      <4> QED BY ONLY <4>1, <4>2 DEF OuterClass, ScalarKinds
    <3>2. KnownInfo(c.class[n], h[n])
      BY ONLY <2>1, <2>3, c = interaction DEF IsKnown
    <3>3. KnownInfo(c.class[n], SubOf(a, n))
      BY ONLY <2>3, KnownWhole(a), c = interaction, FieldKnown
    <3>4. got(n) = MergeInfo(c.class[n], SubOf(a, n), h[n])
      BY ONLY <1>2, <2>3, h = b.f, KindsOfFields DEF MergedField
    <3>5. KnownInfo(c.class[n], got(n))
      BY ONLY <3>1, <3>2, <3>3, <3>4, MergeKnownInfo
    <3> QED BY ONLY <2>3, <3>5, c = interaction DEF IsKnown
  <2>4. CASE n \in {10, 11}
    <3>1. n \notin {2, 3, 5, 6}
      BY ONLY <2>4
    <3>2. /\ \E S : h[n] \in Seq(S)
          /\ Len(h[n]) # 0
          /\ \A i \in 1 .. Len(h[n]) : KnownInfo(interaction.class[n], h[n][i])
      BY ONLY <2>1, <2>4, <3>1 DEF IsKnown
    <3>3. /\ \E S : ListOf(a, n) \in Seq(S)
          /\ \A i \in 1 .. Len(ListOf(a, n)) : KnownInfo(interaction.class[n], ListOf(a, n)[i])
      BY ONLY <2>4, KnownWhole(a), FieldKnown
    <3>4. got(n) = ListOf(a, n) \o h[n]
      BY ONLY <1>2, <2>4, h = b.f, KindsOfFields DEF MergedField
    <3>5. IsKnown(n, ListOf(a, n) \o h[n])
      BY ONLY <2>4, <3>2, <3>3, JoinKnown
    <3> QED BY ONLY <3>4, <3>5
  <2> QED BY <2>1, <2>2, <2>3, <2>4, KindsOfFields
<1> PICK w : w = u
  OBVIOUS
<1>7. /\ w = [n \in DOMAIN w |-> w[n]] /\ DOMAIN w = DOMAIN g \cup DOMAIN h
      /\ \A n \in DOMAIN w : w[n] = IF n \in DOMAIN h THEN got(n) ELSE g[n]
  BY ONLY w = u
<1> HIDE DEF u, got
<1>8. DOMAIN w \subseteq InteractionFields
  BY ONLY <1>1, <1>7
<1>9. ASSUME NEW n \in DOMAIN w PROVE IsKnown(n, w[n])
  <2>1. CASE n \in DOMAIN h
    <3>1. w[n] = got(n)
      BY ONLY <1>7, <2>1, n \in DOMAIN w
    <3> QED BY ONLY <1>6, <2>1, <3>1
  <2>2. CASE n \notin DOMAIN h
    <3>1. w[n] = g[n] /\ n \in DOMAIN g
      BY ONLY <1>7, <2>2, n \in DOMAIN w
    <3>2. IsKnown(n, g[n])
      BY ONLY <1>1, <3>1
    <3> QED BY ONLY <3>1, <3>2
  <2> QED BY <2>1, <2>2
<1>10. KnownWhole([f |-> w, unknown |-> <<>>])
  BY ONLY <1>7, <1>8, <1>9, KnownOf
<1> QED BY ONLY <1>4, <1>5, <1>10, w = u, c = interaction
=============================================================================
