----------------------------- MODULE UuidProofs -----------------------------
(***************************************************************************)
(* Proofs about the library in UUID/.                                      *)
(*                                                                         *)
(* UuidClock, for every number of ticks, every MAX_ADJUSTMENT and every    *)
(* bound: stamps are ordered, and equal ones are neighbours.               *)
(*                                                                         *)
(* UuidFormats and UuidGenerate, for every width of a digit, all bytes and *)
(* times: packing and unpacking are inverse, a UUID has the variant,       *)
(* version and time that its function gave it, texts and bytes are turned  *)
(* into each other without loss, and uuid_compare is a total order.        *)
(***************************************************************************)
EXTENDS UuidClock, UuidGenerate, SequenceTheorems, WellFoundedInduction, TLAPS

-----------------------------------------------------------------------------
(* The clock.                                                              *)

Stamps == [reg : Nat, seq : Seqs]

\* How many settings back ago, modulo SeqMod, a stamp's clock_seq was current.
Age(s) == (clock_seq - s.seq) % SeqMod

Behind == IF now < last THEN 1 ELSE 0

\* No stamp is older than the clock was set back, counting the setting that
\* the next call will notice: so clock_seq has not come round to an old value.
AgesBounded ==
  \A i \in 1 .. Len(issued) : Age(issued[i]) + Behind <= backs

\* A stamp of the current clock_seq is not beyond the last one returned.
NoneAhead ==
  \A i \in 1 .. Len(issued) :
    issued[i].seq = clock_seq
      => issued[i].reg <= last * TicksPerUsec + adjustment

Before == last = Unset => issued = << >>

Inv == TypeOK /\ AgesBounded /\ NoneAhead /\ Before /\ Ordered

-----------------------------------------------------------------------------
LEMMA Facts ==
  /\ TicksPerUsec \in Nat /\ TicksPerUsec > 0 /\ MAX_ADJUSTMENT \in Nat
  /\ SeqMod \in Nat /\ MaxBack \in Nat /\ MaxBack < SeqMod
  /\ MaxTime \in Nat /\ MaxTime > 0 /\ MaxCalls \in Nat
  BY TicksAssumption, SeqAssumption, BoundsAssumption

LEMMA TimesOrdered ==
  ASSUME NEW t \in Nat, NEW a \in Nat, NEW b \in Nat, a < b
  PROVE  a * t + t <= b * t /\ a * t \in Nat /\ b * t \in Nat
<1>1. PICK d \in Nat : b = a + 1 + d
  <2>1. b - a - 1 \in Nat /\ b = a + 1 + (b - a - 1)
    OBVIOUS
  <2> QED BY <2>1
<1>2. b * t = a * t + t + d * t /\ d * t \in Nat /\ a * t \in Nat
  BY <1>1
<1> QED BY <1>2

\* A stamp appended to the history.
LEMMA AppendStamp ==
  ASSUME NEW h \in Seq(Stamps), NEW s \in Stamps
  PROVE  /\ Append(h, s) \in Seq(Stamps)
         /\ Len(Append(h, s)) = Len(h) + 1 /\ Len(h) \in Nat
         /\ \A i \in 1 .. Len(h) : Append(h, s)[i] = h[i] /\ h[i] \in Stamps
         /\ Append(h, s)[Len(h) + 1] = s
  OBVIOUS

\* One year of clock_seq more is one more of age, short of a full round.
LEMMA AgeStep ==
  ASSUME NEW m \in Nat, NEW c \in 0 .. m - 1, NEW s \in 0 .. m - 1,
         ((c - s) % m) + 1 < m
  PROVE  (((c + 1) % m) - s) % m = ((c - s) % m) + 1
<1>1. (c + 1) % m = IF c = m - 1 THEN 0 ELSE c + 1
  OBVIOUS
<1>2. (c - s) % m = IF c >= s THEN c - s ELSE c - s + m
  OBVIOUS
<1>3. CASE c = m - 1
  BY <1>1, <1>2, <1>3
<1>4. CASE c # m - 1
  BY <1>1, <1>2, <1>4
<1> QED BY <1>3, <1>4

LEMMA AgeRange ==
  ASSUME NEW m \in Nat, NEW c \in 0 .. m - 1, NEW s \in 0 .. m - 1
  PROVE  /\ (c - s) % m \in 0 .. m - 1
         /\ (c - s) % m = 0 <=> s = c
<1>1. (c - s) % m = IF c >= s THEN c - s ELSE c - s + m
  OBVIOUS
<1> QED BY <1>1

-----------------------------------------------------------------------------
\* Every pass that returns keeps the invariant if its stamp is not before any
\* other with its clock_seq, and its clock_seq has not come round.
LEMMA ReturnKeepsInv ==
  ASSUME Inv, NEW sq \in Seqs, NEW adj \in 0 .. MAX_ADJUSTMENT,
         Return(sq, adj),
         \A i \in 1 .. Len(issued) : (sq - issued[i].seq) % SeqMod <= backs,
         \A i \in 1 .. Len(issued) :
           issued[i].seq = sq => issued[i].reg <= now * TicksPerUsec + adj
  PROVE  Inv'
<1> DEFINE n == Len(issued)
           s == [reg |-> now * TicksPerUsec + adj, seq |-> sq]
<1>1. /\ clock_seq' = sq /\ adjustment' = adj /\ last' = now /\ now' = now
      /\ backs' = backs /\ pc' = "idle" /\ issued' = Append(issued, s)
  BY DEF Return, clock
<1>2. /\ issued \in Seq(Stamps) /\ now \in 1 .. MaxTime /\ backs \in 0 .. MaxBack
  BY DEF Inv, TypeOK, Stamps
<1>3. s \in Stamps
  <2>1. now * TicksPerUsec \in Nat
    BY <1>2, Facts
  <2> QED BY <2>1, Facts DEF Stamps
<1>4. /\ issued' \in Seq(Stamps) /\ Len(issued') = n + 1 /\ n \in Nat
      /\ \A i \in 1 .. n : issued'[i] = issued[i] /\ issued[i] \in Stamps
      /\ issued'[n + 1] = s
  BY <1>1, <1>2, <1>3, AppendStamp
<1> HIDE DEF n
<1>5. TypeOK'
  BY <1>1, <1>2, <1>4, Facts DEF TypeOK, Stamps
<1>6. AgesBounded'
  <2>1. Behind' = 0
    BY <1>1, <1>2, Facts DEF Behind
  <2>2. ASSUME NEW i \in 1 .. n + 1
        PROVE  (clock_seq' - issued'[i].seq) % SeqMod \in Nat
               /\ (clock_seq' - issued'[i].seq) % SeqMod <= backs'
    <3>1. CASE i = n + 1
      <4>1. (sq - sq) % SeqMod = 0
        BY AgeRange, Facts DEF Seqs
      <4> QED BY <1>1, <1>2, <1>4, <3>1, <4>1
    <3>2. CASE i \in 1 .. n
      <4>1. issued'[i] = issued[i] /\ issued[i].seq \in Seqs
        BY <1>4, <3>2 DEF Stamps
      <4>2. (sq - issued[i].seq) % SeqMod \in 0 .. SeqMod - 1
        BY <4>1, AgeRange, Facts DEF Seqs
      <4>3. (sq - issued[i].seq) % SeqMod <= backs
        BY <3>2 DEF n
      <4>4. (clock_seq' - issued'[i].seq) % SeqMod = (sq - issued[i].seq) % SeqMod
        BY <1>1, <4>1
      <4> DEFINE g == (sq - issued[i].seq) % SeqMod
      <4> HIDE DEF g
      <4>5. g \in Nat /\ g <= backs'
        BY <1>1, <1>2, <4>2, <4>3, Facts DEF g
      <4> QED BY <4>4, <4>5 DEF g
    <3> QED BY <1>4, <3>1, <3>2
  <2> QED BY <1>1, <1>2, <1>4, <2>1, <2>2 DEF AgesBounded, Age
<1>7. NoneAhead'
  <2>1. last' * TicksPerUsec + adjustment' = now * TicksPerUsec + adj
    BY <1>1
  <2>2. now * TicksPerUsec + adj \in Nat
    BY <1>3 DEF Stamps
  <2>3. \A i \in 1 .. n : issued[i].seq = sq
                            => issued[i].reg <= now * TicksPerUsec + adj
    BY DEF n
  <2> QED BY <1>1, <1>4, <2>1, <2>2, <2>3 DEF NoneAhead
<1>8. Before'
  BY <1>1, <1>2 DEF Before, Unset
<1>9. Ordered'
  <2>1. \A i, j \in 1 .. n : i < j /\ issued[i].seq = issued[j].seq
                               => issued[i].reg <= issued[j].reg
    BY DEF Inv, Ordered, n
  <2>2. \A i \in 1 .. n : issued[i].seq = sq => issued[i].reg <= s.reg
    BY DEF n
  <2> HIDE DEF s
  <2>3. s.seq = sq
    BY DEF s
  <2>4. ASSUME NEW i \in 1 .. n + 1, NEW j \in 1 .. n + 1, i < j,
               issued'[i].seq = issued'[j].seq
        PROVE  issued'[i].reg <= issued'[j].reg
    <3>1. i \in 1 .. n
      BY <1>4, <2>4
    <3>2. CASE j = n + 1
      BY <1>4, <2>2, <2>3, <2>4, <3>1, <3>2
    <3>3. CASE j \in 1 .. n
      BY <1>4, <2>1, <2>4, <3>1, <3>3
    <3> QED BY <1>4, <3>2, <3>3
  <2> QED BY <1>4, <2>4 DEF Ordered
<1> QED BY <1>5, <1>6, <1>7, <1>8, <1>9 DEF Inv

\* What the invariant says of an earlier stamp, in numbers.
LEMMA StampFacts ==
  ASSUME Inv, NEW i \in 1 .. Len(issued)
  PROVE  /\ issued[i].seq \in Seqs /\ issued[i].reg \in Nat
         /\ Age(issued[i]) \in 0 .. SeqMod - 1
         /\ Age(issued[i]) <= backs
         /\ now < last => Age(issued[i]) + 1 <= backs
         /\ backs \in 0 .. MaxBack /\ clock_seq \in Seqs
<1>1. issued[i] \in Stamps /\ clock_seq \in Seqs /\ backs \in 0 .. MaxBack
  <2>1. issued \in Seq(Stamps) /\ clock_seq \in Seqs /\ backs \in 0 .. MaxBack
    BY DEF Inv, TypeOK, Stamps
  <2> QED BY <2>1
<1>2. Age(issued[i]) \in 0 .. SeqMod - 1
  BY <1>1, AgeRange, Facts DEF Age, Seqs, Stamps
<1>3. Age(issued[i]) + Behind <= backs
  BY DEF Inv, AgesBounded
<1> QED BY <1>1, <1>2, <1>3, Facts DEF Behind, Stamps

LEMMA FirstPassStep ==
  ASSUME Inv, FirstPass
  PROVE  Inv'
<1>1. PICK r \in Seqs : Return(r, 0)
  BY DEF FirstPass
<1>2. issued = << >>
  BY DEF FirstPass, Inv, Before
<1>3. 0 \in 0 .. MAX_ADJUSTMENT
  BY Facts
<1> QED BY <1>1, <1>2, <1>3, ReturnKeepsInv

\* The clock_seq that a clock set back leads to is not the old stamps'.
LEMMA NewSeqIsFresh ==
  ASSUME Inv, now < last, NEW i \in 1 .. Len(issued)
  PROVE  LET sq == (clock_seq + 1) % SeqMod
         IN  /\ sq \in Seqs
             /\ (sq - issued[i].seq) % SeqMod <= backs
             /\ issued[i].seq # sq
<1> DEFINE sq == (clock_seq + 1) % SeqMod
           a == issued[i].seq
           g == Age(issued[i])
<1>1. /\ a \in 0 .. SeqMod - 1 /\ g \in 0 .. SeqMod - 1
      /\ g + 1 <= backs /\ backs \in 0 .. MaxBack
      /\ clock_seq \in 0 .. SeqMod - 1
  BY StampFacts DEF Seqs
<1>2. g + 1 < SeqMod /\ sq \in 0 .. SeqMod - 1
  BY <1>1, Facts
<1>3. (sq - a) % SeqMod = g + 1
  BY <1>1, <1>2, AgeStep, Facts DEF Age
<1>4. a # sq
  <2>1. g + 1 # 0
    BY <1>1
  <2> HIDE DEF a, g, sq
  <2> QED BY <1>1, <1>2, <1>3, <2>1, AgeRange, Facts
<1> QED BY <1>1, <1>2, <1>3, <1>4 DEF Seqs

LEMMA ClockWentBackStep ==
  ASSUME Inv, ClockWentBack
  PROVE  Inv'
<1> DEFINE sq == (clock_seq + 1) % SeqMod
<1>1. now < last /\ Return(sq, 0)
  BY DEF ClockWentBack
<1>2. sq \in Seqs /\ 0 \in 0 .. MAX_ADJUSTMENT
  BY Facts DEF Inv, TypeOK, Seqs
<1>3. \A i \in 1 .. Len(issued) : /\ (sq - issued[i].seq) % SeqMod <= backs
                                  /\ issued[i].seq # sq
  BY <1>1, NewSeqIsFresh
<1> HIDE DEF sq
<1> QED BY <1>1, <1>2, <1>3, ReturnKeepsInv

LEMMA SameInstantStep ==
  ASSUME Inv, SameInstant
  PROVE  Inv'
<1>1. /\ now = last /\ adjustment < MAX_ADJUSTMENT
      /\ Return(clock_seq, adjustment + 1)
  BY DEF SameInstant
<1>2. clock_seq \in Seqs /\ adjustment \in 0 .. MAX_ADJUSTMENT /\ now \in 1 .. MaxTime
  BY DEF Inv, TypeOK
<1>3. adjustment + 1 \in 0 .. MAX_ADJUSTMENT
  BY <1>1, <1>2, Facts
<1>4. ASSUME NEW i \in 1 .. Len(issued)
      PROVE  /\ (clock_seq - issued[i].seq) % SeqMod <= backs
             /\ issued[i].seq = clock_seq
                  => issued[i].reg <= now * TicksPerUsec + (adjustment + 1)
  <2>1. issued[i].seq = clock_seq
          => issued[i].reg <= now * TicksPerUsec + adjustment
    BY <1>1 DEF Inv, NoneAhead
  <2>2. now * TicksPerUsec \in Nat /\ issued[i].reg \in Nat
    BY <1>2, Facts, StampFacts
  <2> QED BY <1>2, <2>1, <2>2, Facts, StampFacts DEF Age
<1> QED BY <1>1, <1>2, <1>3, <1>4, ReturnKeepsInv

\* The adjustments of one microsecond must not run into the next but one.
Fits == MAX_ADJUSTMENT <= TicksPerUsec

LEMMA Advance ==
  ASSUME TypeOK, now > last
  PROVE  last * TicksPerUsec + TicksPerUsec <= now * TicksPerUsec
         /\ last * TicksPerUsec \in Nat /\ now * TicksPerUsec \in Nat
         /\ adjustment \in 0 .. MAX_ADJUSTMENT
<1>1. last \in Nat /\ now \in Nat /\ last < now /\ adjustment \in 0 .. MAX_ADJUSTMENT
  BY Facts DEF TypeOK
<1> QED BY <1>1, TimesOrdered, Facts

LEMMA ClockAdvancedStep ==
  ASSUME Inv, Fits, ClockAdvanced
  PROVE  Inv'
<1>1. now > last /\ Return(clock_seq, 0) /\ TypeOK
  BY DEF ClockAdvanced, Inv
<1>2. clock_seq \in Seqs /\ 0 \in 0 .. MAX_ADJUSTMENT
  BY Facts DEF Inv, TypeOK
<1>3. ASSUME NEW i \in 1 .. Len(issued)
      PROVE  /\ (clock_seq - issued[i].seq) % SeqMod <= backs
             /\ issued[i].seq = clock_seq
                  => issued[i].reg <= now * TicksPerUsec + 0
  <2>1. issued[i].seq = clock_seq
          => issued[i].reg <= last * TicksPerUsec + adjustment
    BY DEF Inv, NoneAhead
  <2>2. last * TicksPerUsec + adjustment <= now * TicksPerUsec
    <3> DEFINE x == last * TicksPerUsec
               y == now * TicksPerUsec
    <3>1. x + TicksPerUsec <= y /\ x \in Nat /\ y \in Nat
          /\ adjustment \in 0 .. MAX_ADJUSTMENT
      BY <1>1, Advance
    <3> HIDE DEF x, y
    <3>2. x + adjustment <= y
      BY <3>1, Facts DEF Fits
    <3> QED BY <3>2 DEF x, y
  <2>3. /\ issued[i].reg \in Nat /\ now * TicksPerUsec \in Nat
        /\ last * TicksPerUsec + adjustment \in Nat
    BY <1>1, Advance, StampFacts, Facts
  <2> QED BY <2>1, <2>2, <2>3, StampFacts DEF Age
<1> QED BY <1>1, <1>2, <1>3, ReturnKeepsInv

LEMMA ClockStep ==
  ASSUME Inv, Tick \/ SetBack
  PROVE  Inv'
<1>1. /\ now' \in 1 .. MaxTime /\ backs' \in 0 .. MaxBack
      /\ backs \in 0 .. MaxBack /\ now \in 1 .. MaxTime /\ last \in 0 .. MaxTime
      /\ UNCHANGED <<pc, adjustment, last, clock_seq, issued>>
      /\ \/ now' = now + 1 /\ backs' = backs
         \/ backs' = backs + 1
  BY Facts DEF Tick, SetBack, statics, Inv, TypeOK
<1>2. TypeOK' /\ NoneAhead' /\ Before' /\ Ordered'
  BY <1>1 DEF Inv, TypeOK, NoneAhead, Before, Ordered
<1>3. ASSUME NEW i \in 1 .. Len(issued)
      PROVE  Age(issued[i]) + Behind' <= backs'
  <2>1. /\ Age(issued[i]) \in 0 .. SeqMod - 1
        /\ Age(issued[i]) <= backs /\ (now < last => Age(issued[i]) + 1 <= backs)
    BY StampFacts
  <2>2. Behind' = IF now' < last THEN 1 ELSE 0
    BY <1>1 DEF Behind
  <2> QED BY <1>1, <2>1, <2>2, Facts
<1>4. AgesBounded'
  BY <1>1, <1>3 DEF AgesBounded, Age
<1> QED BY <1>2, <1>4 DEF Inv

LEMMA OtherStep ==
  ASSUME Inv, Call \/ UNCHANGED vars
  PROVE  Inv'
<1>1. /\ UNCHANGED <<now, backs, adjustment, last, clock_seq, issued>>
      /\ pc' \in {"idle", "trying"}
  BY DEF Call, vars, clock, statics, Inv, TypeOK
<1> QED BY <1>1 DEF Inv, TypeOK, AgesBounded, Age, Behind, NoneAhead, Before, Ordered

LEMMA InitInv ==
  ASSUME Init
  PROVE  Inv
<1>1. TypeOK
  BY Facts DEF Init, TypeOK, Seqs, Unset
<1> QED BY <1>1 DEF Init, Inv, AgesBounded, NoneAhead, Before, Ordered

LEMMA NextInv ==
  ASSUME Inv, Fits, [Next]_vars
  PROVE  Inv'
  BY FirstPassStep, ClockWentBackStep, SameInstantStep, ClockAdvancedStep,
     ClockStep, OtherStep DEF Next, GetClock

\* Stamps are handed out in order under each clock_seq, however the clock is
\* set, as long as MAX_ADJUSTMENT is at most the ticks of a microsecond: it
\* is equal to them in the code (lines 208 and 241).
THEOREM StampsOrdered ==
  ASSUME Fits
  PROVE  Spec => [](TypeOK /\ Ordered)
<1>1. Init => Inv
  BY InitInv
<1>2. Inv /\ [Next]_vars => Inv'
  BY NextInv
<1> QED BY <1>1, <1>2, PTL DEF Spec, Inv

-----------------------------------------------------------------------------
\* One tick less, and no stamp reaches into the next microsecond.
BelowEdge == MAX_ADJUSTMENT < TicksPerUsec

LEMMA ReturnIsNew ==
  ASSUME Inv, NoDuplicates, NEW sq \in Seqs, NEW adj \in 0 .. MAX_ADJUSTMENT,
         Return(sq, adj),
         \A i \in 1 .. Len(issued) :
           issued[i].seq = sq => issued[i].reg < now * TicksPerUsec + adj
  PROVE  NoDuplicates'
<1> DEFINE n == Len(issued)
           s == [reg |-> now * TicksPerUsec + adj, seq |-> sq]
<1>1. issued' = Append(issued, s)
  BY DEF Return
<1>2. issued \in Seq(Stamps) /\ s \in Stamps
  <2>1. now * TicksPerUsec \in Nat
    BY Facts DEF Inv, TypeOK
  <2> QED BY <2>1, Facts DEF Inv, TypeOK, Stamps
<1>3. /\ Len(issued') = n + 1 /\ n \in Nat
      /\ \A i \in 1 .. n : issued'[i] = issued[i] /\ issued[i] \in Stamps
      /\ issued'[n + 1] = s
  BY <1>1, <1>2, AppendStamp
<1>4. \A i, j \in 1 .. n : i < j => issued[i] # issued[j]
  BY DEF NoDuplicates
<1>5. \A i \in 1 .. n : issued[i] # s
  <2>1. \A i \in 1 .. n : issued[i].seq = s.seq => issued[i].reg < s.reg
    OBVIOUS
  <2> HIDE DEF s
  <2> QED BY <1>2, <1>3, <2>1 DEF Stamps
<1> HIDE DEF n, s
<1>6. ASSUME NEW i \in 1 .. n + 1, NEW j \in 1 .. n + 1, i < j
      PROVE  issued'[i] # issued'[j]
  <2>1. i \in 1 .. n
    BY <1>3, <1>6
  <2>2. CASE j = n + 1
    BY <1>3, <1>5, <2>1, <2>2
  <2>3. CASE j \in 1 .. n
    BY <1>3, <1>4, <1>6, <2>1, <2>3
  <2> QED BY <1>3, <2>2, <2>3
<1> QED BY <1>3, <1>6 DEF NoDuplicates

LEMMA GetClockIsNew ==
  ASSUME Inv, NoDuplicates, BelowEdge, GetClock
  PROVE  NoDuplicates'
<1>0. 0 \in 0 .. MAX_ADJUSTMENT /\ clock_seq \in Seqs /\ TypeOK
      /\ now \in 1 .. MaxTime
  BY Facts DEF Inv, TypeOK
<1>1. CASE FirstPass
  <2>1. issued = << >>
    BY <1>1 DEF FirstPass, Inv, Before
  <2> QED BY <1>0, <1>1, <2>1, ReturnIsNew DEF FirstPass
<1>2. CASE ClockWentBack
  <2> DEFINE sq == (clock_seq + 1) % SeqMod
  <2>1. now < last /\ Return(sq, 0)
    BY <1>2 DEF ClockWentBack
  <2>2. sq \in Seqs
    BY <1>0, Facts DEF Seqs
  <2>3. \A i \in 1 .. Len(issued) : issued[i].seq # sq
    BY <2>1, NewSeqIsFresh
  <2> HIDE DEF sq
  <2> QED BY <1>0, <2>1, <2>2, <2>3, ReturnIsNew
<1>3. CASE SameInstant
  <2>1. /\ now = last /\ adjustment < MAX_ADJUSTMENT
        /\ Return(clock_seq, adjustment + 1)
        /\ adjustment \in 0 .. MAX_ADJUSTMENT
    BY <1>0, <1>3 DEF SameInstant, TypeOK
  <2>2. adjustment + 1 \in 0 .. MAX_ADJUSTMENT
    BY <2>1, Facts
  <2>3. ASSUME NEW i \in 1 .. Len(issued), issued[i].seq = clock_seq
        PROVE  issued[i].reg < now * TicksPerUsec + (adjustment + 1)
    <3>1. issued[i].reg <= now * TicksPerUsec + adjustment
      BY <2>1, <2>3 DEF Inv, NoneAhead
    <3>2. now * TicksPerUsec \in Nat /\ issued[i].reg \in Nat
      BY <1>0, Facts, StampFacts
    <3> QED BY <2>1, <3>1, <3>2, Facts
  <2> QED BY <1>0, <2>1, <2>2, <2>3, ReturnIsNew
<1>4. CASE ClockAdvanced
  <2>1. now > last /\ Return(clock_seq, 0)
    BY <1>4 DEF ClockAdvanced
  <2>2. ASSUME NEW i \in 1 .. Len(issued), issued[i].seq = clock_seq
        PROVE  issued[i].reg < now * TicksPerUsec + 0
    <3> DEFINE x == last * TicksPerUsec
               y == now * TicksPerUsec
    <3>1. issued[i].reg <= x + adjustment /\ issued[i].reg \in Nat
      BY <2>2, StampFacts DEF Inv, NoneAhead
    <3>2. x + TicksPerUsec <= y /\ x \in Nat /\ y \in Nat
          /\ adjustment \in 0 .. MAX_ADJUSTMENT
      BY <1>0, <2>1, Advance
    <3> HIDE DEF x, y
    <3>3. issued[i].reg < y + 0
      BY <3>1, <3>2, Facts DEF BelowEdge
    <3> QED BY <3>3 DEF y
  <2> QED BY <1>0, <2>1, <2>2, ReturnIsNew
<1> QED BY <1>1, <1>2, <1>3, <1>4 DEF GetClock

\* Had MAX_ADJUSTMENT been less than the ticks of a microsecond, no UUID would
\* be handed out twice, whatever the clock does.
THEOREM NoDuplicatesBelowEdge ==
  ASSUME BelowEdge
  PROVE  Spec => []NoDuplicates
<1>1. Init => Inv /\ NoDuplicates
  <2>1. ASSUME Init PROVE NoDuplicates
    BY <2>1 DEF Init, NoDuplicates
  <2> QED BY <2>1, InitInv
<1>2. Fits
  BY Facts DEF Fits, BelowEdge
<1>3. Inv /\ NoDuplicates /\ [Next]_vars => Inv' /\ NoDuplicates'
  <2> SUFFICES ASSUME Inv, NoDuplicates, [Next]_vars
               PROVE  Inv' /\ NoDuplicates'
    OBVIOUS
  <2>1. Inv'
    BY <1>2, NextInv
  <2>2. CASE GetClock
    BY <2>1, <2>2, GetClockIsNew
  <2>3. CASE UNCHANGED issued
    BY <2>1, <2>3 DEF NoDuplicates
  <2> QED BY <2>1, <2>2, <2>3 DEF Next, Tick, SetBack, Call, vars
<1> QED BY <1>1, <1>3, PTL DEF Spec

-----------------------------------------------------------------------------
\* With an adjustment, only the last stamp reaches as far as it does.
OnlyLastReaches ==
  adjustment > 0 =>
    \A i \in 1 .. Len(issued) :
      issued[i].seq = clock_seq /\ i # Len(issued)
        => issued[i].reg < last * TicksPerUsec + adjustment

\* A whole number of microseconds leaves no rest.
LEMMA WholeMicroseconds ==
  ASSUME NEW t \in Nat, t > 0, NEW a \in Nat
  PROVE  (a * t) % t = 0
  OBVIOUS

\* A pass whose stamp can only be equal to the last one, and then without an
\* adjustment, keeps duplicates on the edge.
LEMMA ReturnIsOnTheEdge ==
  ASSUME Inv, DuplicatesOnlyOnTheEdge, NEW sq \in Seqs, NEW adj \in 0 .. MAX_ADJUSTMENT,
         Return(sq, adj),
         \A i \in 1 .. Len(issued) :
           issued[i].seq = sq /\ issued[i].reg = now * TicksPerUsec + adj
             => i = Len(issued) /\ adj = 0
  PROVE  DuplicatesOnlyOnTheEdge'
<1> DEFINE n == Len(issued)
           s == [reg |-> now * TicksPerUsec + adj, seq |-> sq]
<1>1. issued' = Append(issued, s)
  BY DEF Return
<1>2. issued \in Seq(Stamps) /\ now \in Nat /\ now * TicksPerUsec \in Nat
  BY Facts DEF Inv, TypeOK, Stamps
<1>3. s \in Stamps
  BY <1>2, Facts DEF Stamps
<1>4. /\ Len(issued') = n + 1 /\ n \in Nat
      /\ \A i \in 1 .. n : issued'[i] = issued[i] /\ issued[i] \in Stamps
      /\ issued'[n + 1] = s
  BY <1>1, <1>2, <1>3, AppendStamp
<1>5. \A i, j \in 1 .. n : i < j /\ issued[i] = issued[j]
                             => j = i + 1 /\ issued[i].reg % TicksPerUsec = 0
  BY DEF DuplicatesOnlyOnTheEdge
<1>6. ASSUME NEW i \in 1 .. n, issued[i] = s
      PROVE  i = n /\ issued[i].reg % TicksPerUsec = 0
  <2>1. i = n /\ adj = 0
    BY <1>6
  <2>2. issued[i].reg = now * TicksPerUsec
    BY <1>2, <1>6, <2>1
  <2>3. (now * TicksPerUsec) % TicksPerUsec = 0
    BY <1>2, WholeMicroseconds, Facts
  <2> QED BY <2>1, <2>2, <2>3
<1> HIDE DEF n, s
<1>7. ASSUME NEW i \in 1 .. n + 1, NEW j \in 1 .. n + 1, i < j, issued'[i] = issued'[j]
      PROVE  j = i + 1 /\ issued'[i].reg % TicksPerUsec = 0
  <2>1. i \in 1 .. n
    BY <1>4, <1>7
  <2>2. CASE j = n + 1
    BY <1>4, <1>6, <1>7, <2>1, <2>2
  <2>3. CASE j \in 1 .. n
    BY <1>4, <1>5, <1>7, <2>1, <2>3
  <2> QED BY <1>4, <2>2, <2>3
<1> QED BY <1>4, <1>7 DEF DuplicatesOnlyOnTheEdge

\* One get_clock keeps duplicates on the edge: the clock advances by whole
\* microseconds, and an adjustment does not reach across one.
LEMMA GetClockIsOnTheEdge ==
  ASSUME Inv, OnlyLastReaches, DuplicatesOnlyOnTheEdge, Fits, GetClock
  PROVE  DuplicatesOnlyOnTheEdge'
<1>0. 0 \in 0 .. MAX_ADJUSTMENT /\ clock_seq \in Seqs /\ TypeOK
      /\ now \in 1 .. MaxTime
  BY Facts DEF Inv, TypeOK
<1>1. CASE FirstPass
  <2>1. issued = << >>
    BY <1>1 DEF FirstPass, Inv, Before
  <2> QED BY <1>0, <1>1, <2>1, ReturnIsOnTheEdge DEF FirstPass
<1>2. CASE ClockWentBack
  <2> DEFINE sq == (clock_seq + 1) % SeqMod
  <2>1. now < last /\ Return(sq, 0)
    BY <1>2 DEF ClockWentBack
  <2>2. sq \in Seqs
    BY <1>0, Facts DEF Seqs
  <2>3. \A i \in 1 .. Len(issued) : issued[i].seq # sq
    BY <2>1, NewSeqIsFresh
  <2> HIDE DEF sq
  <2> QED BY <1>0, <2>1, <2>2, <2>3, ReturnIsOnTheEdge
<1>3. CASE SameInstant
  <2>1. /\ now = last /\ adjustment < MAX_ADJUSTMENT
        /\ Return(clock_seq, adjustment + 1)
        /\ adjustment \in 0 .. MAX_ADJUSTMENT
    BY <1>0, <1>3 DEF SameInstant, TypeOK
  <2>2. adjustment + 1 \in 0 .. MAX_ADJUSTMENT
    BY <2>1, Facts
  <2>3. ASSUME NEW i \in 1 .. Len(issued), issued[i].seq = clock_seq
        PROVE  issued[i].reg # now * TicksPerUsec + (adjustment + 1)
    <3>1. issued[i].reg <= now * TicksPerUsec + adjustment
      BY <2>1, <2>3 DEF Inv, NoneAhead
    <3>2. now * TicksPerUsec \in Nat /\ issued[i].reg \in Nat
      BY <1>0, Facts, StampFacts
    <3> QED BY <2>1, <3>1, <3>2, Facts
  <2> QED BY <1>0, <2>1, <2>2, <2>3, ReturnIsOnTheEdge
<1>4. CASE ClockAdvanced
  <2>1. now > last /\ Return(clock_seq, 0)
    BY <1>4 DEF ClockAdvanced
  <2>2. ASSUME NEW i \in 1 .. Len(issued), issued[i].seq = clock_seq,
               issued[i].reg = now * TicksPerUsec + 0
        PROVE  i = Len(issued) /\ 0 = 0
    <3> DEFINE x == last * TicksPerUsec
               y == now * TicksPerUsec
    <3>1. issued[i].reg <= x + adjustment /\ issued[i].reg \in Nat
      BY <2>2, StampFacts DEF Inv, NoneAhead
    <3>2. x + TicksPerUsec <= y /\ x \in Nat /\ y \in Nat
          /\ adjustment \in 0 .. MAX_ADJUSTMENT
      BY <1>0, <2>1, Advance
    <3>3. issued[i].reg = y + 0
      BY <2>2
    <3>4. adjustment > 0 /\ i # Len(issued) => issued[i].reg < x + adjustment
      BY <2>2 DEF OnlyLastReaches
    <3> HIDE DEF x, y
    <3>5. adjustment > 0 /\ issued[i].reg = x + adjustment
      BY <3>1, <3>2, <3>3, Facts DEF Fits
    <3> QED BY <3>1, <3>2, <3>4, <3>5, Facts
  <2> QED BY <1>0, <2>1, <2>2, ReturnIsOnTheEdge
<1> QED BY <1>1, <1>2, <1>3, <1>4 DEF GetClock

\* One get_clock keeps the strengthening: an adjustment goes up with each stamp.
LEMMA GetClockLastReaches ==
  ASSUME Inv, GetClock
  PROVE  OnlyLastReaches'
<1>1. CASE FirstPass \/ ClockWentBack \/ ClockAdvanced
  <2>1. adjustment' = 0
    BY <1>1 DEF FirstPass, ClockWentBack, ClockAdvanced, Return
  <2> QED BY <2>1 DEF OnlyLastReaches
<1>2. CASE SameInstant
  <2> DEFINE n == Len(issued)
             s == [reg |-> now * TicksPerUsec + (adjustment + 1), seq |-> clock_seq]
  <2>1. /\ now = last /\ last' = now /\ adjustment' = adjustment + 1
        /\ clock_seq' = clock_seq /\ issued' = Append(issued, s)
    BY <1>2 DEF SameInstant, Return
  <2>2. /\ issued \in Seq(Stamps) /\ now * TicksPerUsec \in Nat /\ clock_seq \in Seqs
        /\ adjustment \in Nat
    BY Facts DEF Inv, TypeOK, Stamps
  <2>3. s \in Stamps
    BY <2>2 DEF Stamps
  <2>4. /\ Len(issued') = n + 1 /\ n \in Nat
        /\ \A i \in 1 .. n : issued'[i] = issued[i] /\ issued[i] \in Stamps
    BY <2>1, <2>2, <2>3, AppendStamp
  <2>5. ASSUME NEW i \in 1 .. n, issued[i].seq = clock_seq
        PROVE  issued[i].reg < now * TicksPerUsec + (adjustment + 1)
    <3>1. issued[i].reg <= now * TicksPerUsec + adjustment
      BY <2>1, <2>5 DEF Inv, NoneAhead
    <3> QED BY <2>2, <2>4, <3>1 DEF Stamps
  <2> HIDE DEF n, s
  <2>6. ASSUME NEW i \in 1 .. n + 1, issued'[i].seq = clock_seq, i # n + 1
        PROVE  issued'[i].reg < now * TicksPerUsec + (adjustment + 1)
    BY <2>4, <2>5, <2>6
  <2> QED BY <2>1, <2>4, <2>6 DEF OnlyLastReaches
<1> QED BY <1>1, <1>2 DEF GetClock

\* With the MAX_ADJUSTMENT of the code, which is the ticks of a microsecond, a
\* stamp is returned twice at most, to consecutive calls across the edge of a
\* microsecond, whatever the clock does.
THEOREM DuplicatesAreOnTheEdge ==
  ASSUME Fits
  PROVE  Spec => []DuplicatesOnlyOnTheEdge
<1>1. Init => Inv /\ OnlyLastReaches /\ DuplicatesOnlyOnTheEdge
  <2>1. ASSUME Init PROVE OnlyLastReaches /\ DuplicatesOnlyOnTheEdge
    BY <2>1 DEF Init, OnlyLastReaches, DuplicatesOnlyOnTheEdge
  <2> QED BY <2>1, InitInv
<1>2. Inv /\ OnlyLastReaches /\ DuplicatesOnlyOnTheEdge /\ [Next]_vars
        => Inv' /\ OnlyLastReaches' /\ DuplicatesOnlyOnTheEdge'
  <2> SUFFICES ASSUME Inv, OnlyLastReaches, DuplicatesOnlyOnTheEdge, [Next]_vars
               PROVE  Inv' /\ OnlyLastReaches' /\ DuplicatesOnlyOnTheEdge'
    OBVIOUS
  <2>1. Inv'
    BY NextInv
  <2>2. CASE GetClock
    BY <2>1, <2>2, GetClockIsOnTheEdge, GetClockLastReaches
  <2>3. CASE UNCHANGED <<statics, issued>>
    BY <2>1, <2>3 DEF OnlyLastReaches, DuplicatesOnlyOnTheEdge, statics
  <2> QED BY <2>1, <2>2, <2>3 DEF Next, Tick, SetBack, Call, vars
<1> QED BY <1>1, <1>2, PTL DEF Spec

-----------------------------------------------------------------------------
(* Numbers: two digits of a number, for every base.                        *)

\* The quotient and the rest, named.
LEMMA DivMod ==
  ASSUME NEW a \in Nat, NEW m \in Nat \ {0}
  PROVE  \E q \in Nat, r \in 0 .. m - 1 : q = a \div m /\ r = a % m /\ q * m + r = a
<1>1. a % m \in 0 .. m - 1
  OBVIOUS
<1>2. a \div m \in Nat
  OBVIOUS
<1>3. a % m = a - (a \div m) * m
  OBVIOUS
<1> PICK q \in Nat, r \in 0 .. m - 1 : q = a \div m /\ r = a % m
  BY <1>1, <1>2
<1>4. r = a - q * m
  BY <1>3
<1>5. q * m \in Nat
  OBVIOUS
<1>6. q * m + r = a
  BY <1>4, <1>5
<1> QED BY <1>6

\* Products keep the order.
LEMMA NotSmaller ==
  ASSUME NEW m \in Nat, NEW a \in Nat, NEW b \in Nat, a < b
  PROVE  a * m + m <= b * m
<1>1. PICK d \in Nat : b = a + 1 + d
  <2>1. b - a - 1 \in Nat /\ b = a + 1 + (b - a - 1)
    OBVIOUS
  <2> QED BY <2>1
<1>2. b * m = a * m + m + d * m /\ d * m \in Nat /\ a * m \in Nat
  BY <1>1
<1> QED BY <1>2

\* A quotient and a rest are the only ones.
LEMMA DivIs ==
  ASSUME NEW m \in Nat \ {0}, NEW q \in Nat, NEW r \in 0 .. m - 1, NEW a, q * m + r = a
  PROVE  a \div m = q /\ a % m = r
<1>1. a \in Nat
  OBVIOUS
<1> PICK p \in Nat, s \in 0 .. m - 1 : p = a \div m /\ s = a % m /\ p * m + s = a
  BY <1>1, DivMod
<1>2. q * m \in Nat /\ p * m \in Nat
  BY ONLY q \in Nat, p \in Nat, m \in Nat \ {0}
<1>3. CASE p < q
  <2>1. p * m + m <= q * m
    BY <1>3, NotSmaller
  <2> QED BY <1>2, <2>1
<1>4. CASE q < p
  <2>1. q * m + m <= p * m
    BY <1>4, NotSmaller
  <2> QED BY <1>2, <2>1
<1>5. CASE p = q
  <2> PICK k \in Nat : k = q * m /\ k + r = a /\ k + s = a
    BY <1>2, <1>5
  <2>1. k + r = a /\ k + s = a
    OBVIOUS
  <2>2. r = s
    BY ONLY <2>1, k \in Nat, r \in 0 .. m - 1, s \in 0 .. m - 1, m \in Nat \ {0}
  <2> QED BY <1>5, <2>2
<1>6. p < q \/ q < p \/ p = q
  BY ONLY p \in Nat, q \in Nat
<1> QED BY <1>3, <1>4, <1>5, <1>6

\* The widths of the fields.
LEMMA Sizes ==
  /\ Nibble \in Nat /\ Nibble >= 8 /\ Byte \in Nat /\ Byte > 0 /\ Word \in Nat /\ Word > 0
  /\ Long \in Nat /\ Long > 0 /\ Version \in Nat /\ Version > 0 /\ Word = Nibble * Version
  /\ Word \div 4 \in Nat /\ Word \div 4 > 0 /\ Word = 4 * (Word \div 4)
  /\ Word \div 2 = 2 * (Word \div 4)
<1> PICK n \in Nat : n = Nibble /\ n > 0 /\ n % 8 = 0
  BY NibbleAssumption
<1> PICK e \in Nat : 8 * e = n /\ e > 0
  <2> PICK q \in Nat, r \in 0 .. 8 - 1 : q = n \div 8 /\ r = n % 8 /\ q * 8 + r = n
    BY DivMod
  <2>1. 8 * q = n /\ q > 0
    OBVIOUS
  <2> QED BY <2>1
<1> PICK b \in Nat : b = Byte /\ b = n * n /\ b > 0
  BY DEF Byte
<1> PICK v \in Nat : v = b * n /\ v > 0
  OBVIOUS
<1>1. Word = b * b /\ b * b \in Nat /\ b * b = v * n
  <2>1. b * b = (b * n) * n
    OBVIOUS
  <2> QED BY <2>1 DEF Word
<1> PICK w \in Nat : w = Word /\ w > 0 /\ w = v * n
  BY <1>1
<1>2. v * n + 0 = w /\ n \in Nat \ {0} /\ 0 \in 0 .. n - 1
  OBVIOUS
<1>3. w \div n = v
  BY ONLY v \in Nat, <1>2, DivIs
<1>4. w * w \in Nat /\ w * w > 0
  OBVIOUS
<1> PICK u \in Nat : u = v * e /\ u > 0
  OBVIOUS
<1>5. w = 8 * u
  <2>1. v * (8 * e) = 8 * (v * e)
    OBVIOUS
  <2> QED BY <1>1, <2>1
<1>6. w \div 4 = 2 * u /\ w \div 2 = 4 * u
  BY <1>5
<1>7. Version = v
  BY <1>3 DEF Version
<1> QED BY <1>1, <1>4, <1>5, <1>6, <1>7 DEF Long

-----------------------------------------------------------------------------
(* Sequences of a fixed length: what stands where when they are joined.    *)

\* Sequences over S of length n.
Row(S, n) == [1 .. n -> S]

Places(c, s, m, n) == \A i \in 1 .. n : c[m + i] = s[i]

LEMMA RowIsSeq ==
  ASSUME NEW S, NEW n \in Nat, NEW f \in Row(S, n)
  PROVE  f \in Seq(S) /\ Len(f) = n
<1>1. f \in Seq(S)
  BY SeqDef DEF Row
<1>2. 1 .. Len(f) = 1 .. n /\ Len(f) \in Nat
  BY <1>1, LenProperties DEF Row
<1> QED BY <1>1, <1>2

LEMMA SeqIsRow ==
  ASSUME NEW S, NEW n \in Nat, NEW f \in Seq(S), Len(f) = n
  PROVE  f \in Row(S, n)
BY LenProperties DEF Row

LEMMA RowPlace ==
  ASSUME NEW S, NEW n \in Nat, NEW f \in Row(S, n), NEW i \in 1 .. n
  PROVE  f[i] \in S
BY DEF Row

LEMMA RowsEqual ==
  ASSUME NEW S, NEW n \in Nat, NEW f \in Row(S, n), NEW g \in Row(S, n), Places(f, g, 0, n)
  PROVE  f = g
<1>1. \A i \in 1 .. n : 0 + i = i
  OBVIOUS
<1>2. \A i \in 1 .. n : f[i] = g[i]
  BY <1>1 DEF Places
<1> QED BY <1>2 DEF Row

LEMMA RowsJoin ==
  ASSUME NEW S, NEW m \in Nat, NEW n \in Nat, NEW k, k = m + n, NEW s \in Row(S, m), NEW t \in Row(S, n)
  PROVE  /\ s \o t \in Row(S, k) /\ Places(s \o t, s, 0, m) /\ Places(s \o t, t, m, n)
<1> PICK c : c = s \o t
  OBVIOUS
<1>1. s \in Seq(S) /\ Len(s) = m /\ t \in Seq(S) /\ Len(t) = n
  BY RowIsSeq
<1>2. c \in Seq(S) /\ Len(c) = k
  <2>1. c \in Seq(S) /\ Len(c) = Len(s) + Len(t)
    BY <1>1, ConcatProperties
  <2> QED BY <1>1, <2>1, Zenon
<1>3. c \in Row(S, k)
  <2>1. k \in Nat
    OBVIOUS
  <2> QED BY <1>2, <2>1, SeqIsRow
<1>4. ASSUME NEW i \in 1 .. m PROVE c[0 + i] = s[i]
  BY ONLY <1>1, c = s \o t, m \in Nat, n \in Nat, i \in 1 .. m
<1>5. ASSUME NEW i \in 1 .. n PROVE c[m + i] = t[i]
  BY ONLY <1>1, c = s \o t, m \in Nat, n \in Nat, i \in 1 .. n
<1> QED BY <1>3, <1>4, <1>5 DEF Places

LEMMA RowPart ==
  ASSUME NEW S, NEW m \in Nat, NEW n \in Nat, NEW k, k = m + n, NEW a, a = m + 1, NEW s \in Row(S, k)
  PROVE  SubSeq(s, a, k) \in Row(S, n) /\ Places(s, SubSeq(s, a, k), m, n)
<1> PICK c : c = SubSeq(s, a, k)
  OBVIOUS
<1>0. a \in Int /\ k \in Int /\ k \in Nat
  OBVIOUS
<1>1. \A i \in a .. k : s[i] \in S
  BY DEF Row
<1>2. /\ c \in Seq(S) /\ Len(c) = IF a <= k THEN k - a + 1 ELSE 0
      /\ \A i \in 1 .. k - a + 1 : c[i] = s[a + i - 1]
  BY ONLY <1>0, <1>1, c = SubSeq(s, a, k), SubSeqProperties
<1>3. Len(c) = n
  BY ONLY <1>2, a = m + 1, k = m + n, m \in Nat, n \in Nat
<1>4. c \in Row(S, n)
  BY <1>2, <1>3, SeqIsRow
<1>5. ASSUME NEW i \in 1 .. n PROVE s[m + i] = c[i]
  <2>1. i \in 1 .. k - a + 1 /\ a + i - 1 = m + i
    OBVIOUS
  <2> QED BY <1>2, <2>1
<1> QED BY <1>4, <1>5 DEF Places

LEMMA RowTail ==
  ASSUME NEW S, NEW m \in Nat, NEW n \in Nat, NEW s \in Row(S, m), NEW t \in Row(S, n)
  PROVE  SubSeq(s \o t, m + 1, m + n) = t
<1> PICK a, k : a = m + 1 /\ k = m + n
  OBVIOUS
<1> PICK c : c = s \o t
  OBVIOUS
<1>1. c \in Row(S, k) /\ Places(c, t, m, n)
  BY RowsJoin
<1> PICK u : u = SubSeq(c, a, k)
  OBVIOUS
<1>2. u \in Row(S, n) /\ Places(c, u, m, n)
  BY <1>1, RowPart
<1>3. Places(u, t, 0, n)
  <2>1. ASSUME NEW i \in 1 .. n PROVE u[0 + i] = t[i]
    <3>1. 0 + i = i
      OBVIOUS
    <3>2. c[m + i] = t[i] /\ c[m + i] = u[i]
      BY <1>1, <1>2 DEF Places
    <3> QED BY <3>1, <3>2
  <2> QED BY <2>1 DEF Places
<1> QED BY <1>2, <1>3, RowsEqual

LEMMA NodeFollows ==
  ASSUME NEW S, NEW h \in Row(S, 10), NEW nd \in Row(S, 6)
  PROVE  /\ h \o nd \in Row(S, 16) /\ Places(h \o nd, h, 0, 10)
         /\ Places(h \o nd, nd, 10, 6)
         /\ SubSeq(h \o nd, 11, 16) = nd
<1>1. 10 \in Nat /\ 6 \in Nat /\ 16 = 10 + 6 /\ 11 = 10 + 1
  OBVIOUS
<1>2. h \o nd \in Row(S, 16) /\ Places(h \o nd, h, 0, 10) /\ Places(h \o nd, nd, 10, 6)
  BY <1>1, RowsJoin
<1>3. SubSeq(h \o nd, 11, 16) = nd
  <2> PICK m \in Nat, n \in Nat, k \in Nat, a \in Nat : m = 10 /\ n = 6 /\ k = 16 /\ a = 11
    OBVIOUS
  <2>1. k = m + n /\ a = m + 1 /\ h \in Row(S, m) /\ nd \in Row(S, n)
    OBVIOUS
  <2>2. SubSeq(h \o nd, a, k) = nd
    BY ONLY <2>1, m \in Nat, n \in Nat, RowTail
  <2> QED BY <2>2
<1> QED BY <1>2, <1>3

LEMMA NotSmallerOrEqual ==
  ASSUME NEW m \in Nat, NEW a \in Nat, NEW b \in Nat, a <= b
  PROVE  a * m <= b * m
<1>1. CASE a = b
  BY <1>1
<1>2. CASE a < b
  <2>1. a * m + m <= b * m
    BY <1>2, NotSmaller
  <2>2. a * m \in Nat /\ b * m \in Nat
    BY ONLY a \in Nat, b \in Nat, m \in Nat
  <2> QED BY <2>1, <2>2
<1> QED BY <1>1, <1>2

\* A number below n * m has two digits, the first below n and the second below m.
TwoDigits(a, n, m, q, r) ==
  q = a \div m /\ r = a % m /\ q \in 0 .. n - 1 /\ r \in 0 .. m - 1 /\ q * m + r = a

LEMMA Split ==
  ASSUME NEW m \in Nat \ {0}, NEW n \in Nat \ {0}, NEW a \in Nat, a < n * m
  PROVE  \E q \in Nat, r \in Nat : TwoDigits(a, n, m, q, r)
<1> PICK q \in Nat, r \in 0 .. m - 1 : q = a \div m /\ r = a % m /\ q * m + r = a
  BY DivMod
<1>0. ~(n <= q)
  <2> SUFFICES ASSUME n <= q PROVE FALSE
    OBVIOUS
  <2>1. n * m <= q * m
    BY ONLY n <= q, q \in Nat, n \in Nat \ {0}, m \in Nat \ {0}, NotSmallerOrEqual
  <2> PICK x \in Nat, y \in Nat : x = n * m /\ y = q * m
    BY ONLY q \in Nat, n \in Nat \ {0}, m \in Nat \ {0}
  <2>2. a < x /\ x <= y /\ y + r = a
    BY <2>1
  <2> QED BY ONLY <2>2, x \in Nat, y \in Nat, a \in Nat, r \in 0 .. m - 1, m \in Nat \ {0}
<1>1. q < n
  BY ONLY <1>0, q \in Nat, n \in Nat \ {0}
<1>2. q \in 0 .. n - 1 /\ r \in Nat
  BY ONLY <1>1, q \in Nat, n \in Nat \ {0}, r \in 0 .. m - 1, m \in Nat \ {0}
<1>3. q = a \div m /\ r = a % m /\ q * m + r = a
  OBVIOUS
<1>4. TwoDigits(a, n, m, q, r)
  BY ONLY <1>2, <1>3, r \in 0 .. m - 1 DEF TwoDigits
<1> QED BY <1>2, <1>4

\* The two digits, seen from the number that they make.
LEMMA Digits ==
  ASSUME NEW m \in Nat \ {0}, NEW n \in Nat \ {0}, NEW q \in 0 .. n - 1, NEW r \in 0 .. m - 1,
         NEW a, q * m + r = a
  PROVE  a \in Nat /\ a < n * m /\ a \div m = q /\ a % m = r
<1>0. q \in Nat /\ q * m + r = a
  BY ONLY q \in 0 .. n - 1, n \in Nat \ {0}, q * m + r = a
<1>1. a \div m = q /\ a % m = r
  BY ONLY <1>0, r \in 0 .. m - 1, m \in Nat \ {0}, DivIs
<1> PICK x \in Nat : x = q * m
  BY ONLY q \in 0 .. n - 1, n \in Nat \ {0}, m \in Nat \ {0}
<1>2. x + r = a
  OBVIOUS
<1>3. q < n /\ q \in Nat
  BY ONLY q \in 0 .. n - 1, n \in Nat \ {0}
<1>4. q * m + m <= n * m
  BY ONLY <1>3, n \in Nat \ {0}, m \in Nat \ {0}, NotSmaller
<1> PICK y \in Nat : y = n * m
  BY ONLY n \in Nat \ {0}, m \in Nat \ {0}
<1>5. x + m <= y
  BY <1>4
<1>6. a \in Nat /\ a < y
  BY ONLY <1>2, <1>5, x \in Nat, y \in Nat, r \in 0 .. m - 1, m \in Nat \ {0}
<1> QED BY <1>1, <1>6

\* Dividing twice.
LEMMA DivDiv ==
  ASSUME NEW m \in Nat \ {0}, NEW n \in Nat \ {0}, NEW a \in Nat
  PROVE  (a \div m) \div n = a \div (n * m) /\ (a % (n * m)) \div m = (a \div m) % n
<1> PICK q \in Nat, r \in 0 .. m - 1 : q = a \div m /\ r = a % m /\ q * m + r = a
  BY DivMod
<1> PICK s \in Nat, t \in 0 .. n - 1 : s = q \div n /\ t = q % n /\ s * n + t = q
  BY DivMod
<1> PICK k \in Nat : k = t * m + r
  BY ONLY t \in 0 .. n - 1, n \in Nat \ {0}, r \in 0 .. m - 1, m \in Nat \ {0}
<1>1. k < n * m /\ k \div m = t
  <2>1. t * m + r = k
    OBVIOUS
  <2> QED BY ONLY <2>1, t \in 0 .. n - 1, n \in Nat \ {0}, r \in 0 .. m - 1, m \in Nat \ {0}, Digits
<1> PICK nm \in Nat \ {0} : nm = n * m
  BY ONLY n \in Nat \ {0}, m \in Nat \ {0}
<1>2. s * nm + k = a
  <2>1. (s * n + t) * m = s * (n * m) + t * m
    BY ONLY s \in Nat, n \in Nat \ {0}, t \in 0 .. n - 1, m \in Nat \ {0}
  <2>2. (s * n + t) * m = q * m
    OBVIOUS
  <2> PICK x \in Nat, y \in Nat, z \in Nat : x = s * nm /\ y = t * m /\ z = q * m
    BY ONLY s \in Nat, nm \in Nat \ {0}, n \in Nat \ {0}, t \in 0 .. n - 1, m \in Nat \ {0}, q \in Nat
  <2>3. z = x + y /\ z + r = a /\ k = y + r
    BY <2>1, <2>2
  <2>4. x + k = a
    BY ONLY <2>3, x \in Nat, y \in Nat, z \in Nat, k \in Nat, a \in Nat, r \in 0 .. m - 1, m \in Nat \ {0}
  <2> QED BY <2>4
<1>3. k \in 0 .. nm - 1
  BY ONLY <1>1, k \in Nat, nm \in Nat \ {0}, nm = n * m
<1>4. a \div nm = s /\ a % nm = k
  BY ONLY <1>2, <1>3, s \in Nat, nm \in Nat \ {0}, DivIs
<1> QED BY <1>1, <1>4

LEMMA ModSmall ==
  ASSUME NEW m \in Nat, NEW a \in Nat, a < m
  PROVE  a % m = a
OBVIOUS

-----------------------------------------------------------------------------
Octets == 0 .. Byte - 1

\* The structs that 16 bytes hold.
Structs == [time_low : 0 .. Long - 1, time_mid : 0 .. Word - 1, time_hi_and_version : 0 .. Word - 1,
            clock_seq : 0 .. Word - 1, node : Row(Octets, 6)]

\* Two bytes are one field.
TwoBytes(w, q, r) ==
  q = w \div Byte /\ (w \div Byte) % Byte = q /\ r = w % Byte /\ q * Byte + r = w

LEMMA WordOfBytes ==
  ASSUME NEW w \in 0 .. Word - 1
  PROVE  \E q \in Octets, r \in Octets : TwoBytes(w, q, r)
<1> PICK b \in Nat \ {0} : b = Byte /\ w < b * b /\ w \in Nat
  <2>1. Byte \in Nat \ {0} /\ Word \in Nat /\ Word = Byte * Byte
    BY Sizes DEF Word
  <2>2. w < Byte * Byte /\ w \in Nat
    BY <2>1
  <2> QED BY <2>1, <2>2
<1>1. \E q \in Nat, r \in Nat : TwoDigits(w, b, b, q, r)
  BY ONLY b \in Nat \ {0}, w \in Nat, w < b * b, Split
<1> PICK q \in Nat, r \in Nat : TwoDigits(w, b, b, q, r)
  BY <1>1
<1>2. /\ q = w \div b /\ r = w % b /\ q * b + r = w /\ q \in 0 .. b - 1 /\ r \in 0 .. b - 1
  BY ONLY TwoDigits(w, b, b, q, r) DEF TwoDigits
<1>3. q < b /\ b \in Nat
  BY ONLY <1>2, q \in Nat, b \in Nat \ {0}
<1>4. q % b = q
  BY ONLY <1>3, q \in Nat, ModSmall
<1>5. (w \div b) % b = q
  BY ONLY <1>2, <1>4
<1>6. TwoBytes(w, q, r)
  BY ONLY <1>2, <1>5, b = Byte DEF TwoBytes
<1>7. q \in Octets /\ r \in Octets
  BY ONLY <1>2, b = Byte DEF Octets
<1> QED BY <1>6, <1>7

\* Four bytes are one field.
FourBytes(l, p, q, r, s) ==
  /\ p = (l \div (Byte * Word)) % Byte /\ q = (l \div Word) % Byte
  /\ r = (l \div Byte) % Byte /\ s = l % Byte
  /\ ((p * Byte + q) * Byte + r) * Byte + s = l

LEMMA LongOfBytes ==
  ASSUME NEW l \in 0 .. Long - 1
  PROVE  \E p \in Octets, q \in Octets, r \in Octets, s \in Octets : FourBytes(l, p, q, r, s)
<1> PICK b \in Nat \ {0}, w \in Nat \ {0}, v \in Nat \ {0} :
       b = Byte /\ w = Word /\ w = b * b /\ v = w * b
  BY Sizes DEF Word
<1>1. l \in Nat /\ l < v * b
  <2>1. (w * b) * b = w * w
    BY ONLY w \in Nat \ {0}, b \in Nat \ {0}, w = b * b
  <2>2. Long = w * w /\ Long \in Nat
    BY Sizes DEF Long
  <2>3. v * b = Long
    BY <2>1, <2>2
  <2> QED BY ONLY <2>2, <2>3, l \in 0 .. Long - 1
<1>2. \E x \in Nat, s \in Nat : TwoDigits(l, v, b, x, s)
  BY ONLY <1>1, v \in Nat \ {0}, b \in Nat \ {0}, Split
<1> PICK x \in Nat, s \in Nat : TwoDigits(l, v, b, x, s)
  BY <1>2
<1>3. x = l \div b /\ s = l % b /\ x \in 0 .. v - 1 /\ s \in 0 .. b - 1 /\ x * b + s = l
  BY ONLY TwoDigits(l, v, b, x, s) DEF TwoDigits
<1>4. x < w * b
  BY ONLY <1>3, v = w * b, v \in Nat \ {0}
<1>5. \E y \in Nat, r \in Nat : TwoDigits(x, w, b, y, r)
  BY ONLY <1>4, x \in Nat, w \in Nat \ {0}, b \in Nat \ {0}, Split
<1> PICK y \in Nat, r \in Nat : TwoDigits(x, w, b, y, r)
  BY <1>5
<1>6. y = x \div b /\ r = x % b /\ y \in 0 .. w - 1 /\ r \in 0 .. b - 1 /\ y * b + r = x
  BY ONLY TwoDigits(x, w, b, y, r) DEF TwoDigits
<1>7. y < b * b
  BY ONLY <1>6, w = b * b, w \in Nat \ {0}
<1>8. \E p \in Nat, q \in Nat : TwoDigits(y, b, b, p, q)
  BY ONLY <1>7, y \in Nat, b \in Nat \ {0}, Split
<1> PICK p \in Nat, q \in Nat : TwoDigits(y, b, b, p, q)
  BY <1>8
<1>9. p = y \div b /\ q = y % b /\ p \in 0 .. b - 1 /\ q \in 0 .. b - 1 /\ p * b + q = y
  BY ONLY TwoDigits(y, b, b, p, q) DEF TwoDigits
<1>10. y = l \div w
  <2>1. (l \div b) \div b = l \div (b * b)
    BY ONLY <1>1, b \in Nat \ {0}, DivDiv
  <2> QED BY ONLY <2>1, <1>3, <1>6, w = b * b
<1>11. p = l \div (b * w)
  <2>1. (l \div w) \div b = l \div (b * w)
    BY ONLY <1>1, b \in Nat \ {0}, w \in Nat \ {0}, DivDiv
  <2> QED BY ONLY <2>1, <1>9, <1>10
<1>12. p % b = p
  <2>1. p < b /\ b \in Nat
    BY ONLY <1>9, p \in Nat, b \in Nat \ {0}
  <2> QED BY ONLY <2>1, p \in Nat, ModSmall
<1>13. FourBytes(l, p, q, r, s)
  <2>1. p = (l \div (Byte * Word)) % Byte
    BY ONLY <1>11, <1>12, b = Byte, w = Word
  <2>2. q = (l \div Word) % Byte
    BY ONLY <1>9, <1>10, b = Byte, w = Word
  <2>3. r = (l \div Byte) % Byte /\ s = l % Byte
    BY ONLY <1>3, <1>6, b = Byte
  <2>4. ((p * Byte + q) * Byte + r) * Byte + s = l
    BY ONLY <1>3, <1>6, <1>9, b = Byte, Zenon
  <2> QED BY ONLY <2>1, <2>2, <2>3, <2>4 DEF FourBytes
<1>14. p \in Octets /\ q \in Octets /\ r \in Octets /\ s \in Octets
  BY ONLY <1>3, <1>6, <1>9, b = Byte DEF Octets
<1> QED BY <1>13, <1>14
Uuids == Row(Octets, 16)

\* A struct packed and unpacked is the same struct.
LEMMA PackUnpack ==
  ASSUME NEW uu \in Structs
  PROVE  uuid_pack(uu) \in Uuids /\ uuid_unpack(uuid_pack(uu)) = uu
<1>1. /\ uu.time_low \in 0 .. Long - 1 /\ uu.time_mid \in 0 .. Word - 1
      /\ uu.time_hi_and_version \in 0 .. Word - 1 /\ uu.clock_seq \in 0 .. Word - 1
      /\ uu.node \in Row(Octets, 6)
      /\ uu = [time_low |-> uu.time_low, time_mid |-> uu.time_mid,
               time_hi_and_version |-> uu.time_hi_and_version, clock_seq |-> uu.clock_seq,
               node |-> uu.node]
  BY DEF Structs
<1> PICK a \in Octets, b \in Octets, c \in Octets, d \in Octets : FourBytes(uu.time_low, a, b, c, d)
  BY <1>1, LongOfBytes
<1> PICK e \in Octets, f \in Octets : TwoBytes(uu.time_mid, e, f)
  BY <1>1, WordOfBytes
<1> PICK g \in Octets, h \in Octets : TwoBytes(uu.time_hi_and_version, g, h)
  BY <1>1, WordOfBytes
<1> PICK i \in Octets, j \in Octets : TwoBytes(uu.clock_seq, i, j)
  BY <1>1, WordOfBytes
<1> PICK t : t = <<a, b, c, d, e, f, g, h, i, j>>
  OBVIOUS
<1>2. t \in Row(Octets, 10)
  BY DEF Row
<1> PICK p : p = t \o uu.node
  OBVIOUS
<1>3. uuid_pack(uu) = p
  <2>1. /\ (uu.time_low \div (Byte * Word)) % Byte = a /\ (uu.time_low \div Word) % Byte = b
        /\ (uu.time_low \div Byte) % Byte = c /\ uu.time_low % Byte = d
    BY DEF FourBytes
  <2>2. /\ (uu.time_mid \div Byte) % Byte = e /\ uu.time_mid % Byte = f
        /\ (uu.time_hi_and_version \div Byte) % Byte = g /\ uu.time_hi_and_version % Byte = h
        /\ (uu.clock_seq \div Byte) % Byte = i /\ uu.clock_seq % Byte = j
    BY DEF TwoBytes
  <2> QED BY <2>1, <2>2 DEF uuid_pack
<1>4. p \in Uuids /\ (\A k \in 1 .. 10 : p[k] = t[k]) /\ SubSeq(p, 11, 16) = uu.node
  <2>1. /\ t \o uu.node \in Row(Octets, 16) /\ Places(t \o uu.node, t, 0, 10)
        /\ SubSeq(t \o uu.node, 11, 16) = uu.node
    BY <1>1, <1>2, NodeFollows
  <2>2. ASSUME NEW k \in 1 .. 10 PROVE p[k] = t[k]
    <3>1. 0 + k = k
      OBVIOUS
    <3> QED BY <2>1, <3>1 DEF Places
  <2> QED BY <2>1, <2>2 DEF Uuids
<1>5. /\ p[1] = a /\ p[2] = b /\ p[3] = c /\ p[4] = d /\ p[5] = e /\ p[6] = f /\ p[7] = g
      /\ p[8] = h /\ p[9] = i /\ p[10] = j
  BY <1>4
<1>6. ((p[1] * Byte + p[2]) * Byte + p[3]) * Byte + p[4] = uu.time_low
  BY <1>5 DEF FourBytes
<1>7. /\ p[5] * Byte + p[6] = uu.time_mid /\ p[7] * Byte + p[8] = uu.time_hi_and_version
      /\ p[9] * Byte + p[10] = uu.clock_seq
  BY <1>5 DEF TwoBytes
<1>8. uuid_unpack(p) = uu
  BY <1>1, <1>4, <1>6, <1>7 DEF uuid_unpack
<1> QED BY <1>3, <1>4, <1>8

LEMMA BytesOfWord ==
  ASSUME NEW q \in Octets, NEW r \in Octets, NEW w, w = q * Byte + r
  PROVE  w \in 0 .. Word - 1 /\ TwoBytes(w, q, r)
<1> PICK b \in Nat \ {0} : b = Byte /\ Word = b * b
  BY Sizes DEF Word
<1>1. q * b + r = w /\ q \in 0 .. b - 1 /\ r \in 0 .. b - 1
  BY DEF Octets
<1>2. w \in Nat /\ w < b * b /\ w \div b = q /\ w % b = r
  BY ONLY <1>1, b \in Nat \ {0}, Digits
<1>3. q < b /\ q \in Nat /\ b \in Nat
  BY ONLY <1>1, b \in Nat \ {0}
<1>4. q % b = q
  BY ONLY <1>3, ModSmall
<1>5. TwoBytes(w, q, r)
  BY ONLY <1>1, <1>2, <1>4, b = Byte DEF TwoBytes
<1> PICK v \in Nat : v = Word /\ w < v
  BY <1>2, Sizes
<1>6. w \in 0 .. v - 1
  BY ONLY <1>2, v \in Nat, w < v
<1> QED BY <1>5, <1>6

LEMMA BytesOfLong ==
  ASSUME NEW p \in Octets, NEW q \in Octets, NEW r \in Octets, NEW s \in Octets,
         NEW l, l = ((p * Byte + q) * Byte + r) * Byte + s
  PROVE  l \in 0 .. Long - 1 /\ FourBytes(l, p, q, r, s)
<1> PICK b \in Nat \ {0}, w \in Nat \ {0}, v \in Nat \ {0} :
       b = Byte /\ w = Word /\ w = b * b /\ v = w * b
  BY Sizes DEF Word
<1>1. p \in 0 .. b - 1 /\ q \in 0 .. b - 1 /\ r \in 0 .. b - 1 /\ s \in 0 .. b - 1
  BY DEF Octets
<1> PICK y : y = p * b + q
  OBVIOUS
<1>2. p * b + q = y
  OBVIOUS
<1>3. y \in Nat /\ y < b * b /\ y \div b = p /\ y % b = q
  BY ONLY <1>1, <1>2, b \in Nat \ {0}, Digits, SMTT(30)
<1>4. y \in 0 .. w - 1
  BY ONLY <1>3, w = b * b, w \in Nat \ {0}
<1> PICK x : x = y * b + r
  OBVIOUS
<1>5. y * b + r = x
  OBVIOUS
<1>6. x \in Nat /\ x < w * b /\ x \div b = y /\ x % b = r
  <2>1. r \in 0 .. b - 1
    BY <1>1
  <2>3. x \in Nat /\ x < w * b
    BY ONLY <1>4, <1>5, <2>1, b \in Nat \ {0}, w \in Nat \ {0}, Digits
  <2>4. x \div b = y /\ x % b = r
    BY ONLY <1>4, <1>5, <2>1, b \in Nat \ {0}, y \in Nat, DivIs
  <2> QED BY <2>3, <2>4
<1>7. x \in 0 .. v - 1
  BY ONLY <1>6, v = w * b, v \in Nat \ {0}
<1>8. x * b + s = l
  OBVIOUS
<1>9. l \in Nat /\ l < v * b /\ l \div b = x /\ l % b = s
  <2>1. s \in 0 .. b - 1
    BY <1>1
  <2>3. l \in Nat /\ l < v * b
    BY ONLY <1>7, <1>8, <2>1, b \in Nat \ {0}, v \in Nat \ {0}, Digits
  <2>4. l \div b = x /\ l % b = s
    BY ONLY <1>7, <1>8, <2>1, b \in Nat \ {0}, x \in Nat, DivIs
  <2> QED BY <2>3, <2>4
<1>10. l \in 0 .. Long - 1
  <2>1. (w * b) * b = w * w
    BY ONLY w \in Nat \ {0}, b \in Nat \ {0}, w = b * b
  <2>2. Long = w * w /\ Long \in Nat
    BY Sizes DEF Long
  <2>3. v * b = Long
    BY <2>1, <2>2
  <2> QED BY ONLY <1>9, <2>2, <2>3
<1>11. l \div w = y /\ l \div (b * w) = p
  <2>1. (l \div b) \div b = l \div (b * b)
    BY ONLY <1>9, b \in Nat \ {0}, DivDiv
  <2>2. l \div w = y
    BY ONLY <2>1, <1>9, <1>6, w = b * b
  <2>3. (l \div w) \div b = l \div (b * w)
    BY ONLY <1>9, b \in Nat \ {0}, w \in Nat \ {0}, DivDiv
  <2> QED BY ONLY <2>2, <2>3, <1>3
<1>12. p % b = p
  <2>1. p < b /\ b \in Nat /\ p \in Nat
    BY ONLY <1>1, b \in Nat \ {0}
  <2> QED BY ONLY <2>1, ModSmall
<1>13. FourBytes(l, p, q, r, s)
  <2>1. p = (l \div (Byte * Word)) % Byte
    BY ONLY <1>11, <1>12, b = Byte, w = Word
  <2>2. q = (l \div Word) % Byte
    BY ONLY <1>3, <1>11, b = Byte, w = Word
  <2>3. r = (l \div Byte) % Byte /\ s = l % Byte
    BY ONLY <1>6, <1>9, b = Byte
  <2> QED BY <2>1, <2>2, <2>3 DEF FourBytes
<1> QED BY <1>10, <1>13

\* Sixteen bytes unpacked and packed are the same bytes.
LEMMA UnpackPack ==
  ASSUME NEW in \in Uuids
  PROVE  uuid_unpack(in) \in Structs /\ uuid_pack(uuid_unpack(in)) = in
<1>1. \A k \in 1 .. 16 : in[k] \in Octets
  BY DEF Uuids, Row
<1> PICK a \in Octets, b \in Octets, c \in Octets, d \in Octets, e \in Octets, f \in Octets,
         g \in Octets, h \in Octets, i \in Octets, j \in Octets :
      /\ a = in[1] /\ b = in[2] /\ c = in[3] /\ d = in[4] /\ e = in[5] /\ f = in[6] /\ g = in[7]
      /\ h = in[8] /\ i = in[9] /\ j = in[10]
  BY <1>1
<1> PICK t : t = <<a, b, c, d, e, f, g, h, i, j>>
  OBVIOUS
<1> PICK n : n = SubSeq(in, 11, 16)
  OBVIOUS
<1>2. in \in Row(Octets, 16) /\ t \in Row(Octets, 10)
  BY DEF Uuids, Row
<1>3. n \in Row(Octets, 6) /\ Places(in, n, 10, 6)
  <2> PICK j0 \in Nat, j1 \in Nat : j0 = 10 /\ j1 = 6
    OBVIOUS
  <2>1. 16 = j0 + j1 /\ 11 = j0 + 1
    OBVIOUS
  <2>2. SubSeq(in, j0 + 1, j0 + j1) \in Row(Octets, j1) /\ Places(in, SubSeq(in, j0 + 1, j0 + j1), j0, j1)
    <3>1. in \in Row(Octets, j0 + j1)
      BY <1>2, <2>1
    <3> QED BY ONLY <3>1, j0 \in Nat, j1 \in Nat, RowPart
  <2>3. SubSeq(in, j0 + 1, j0 + j1) = n
    BY <2>1
  <2> QED BY <2>2, <2>3
<1>5. t \o n = in
  <2> PICK z : z = t \o n
    OBVIOUS
  <2>1. z \in Row(Octets, 16) /\ Places(z, t, 0, 10) /\ Places(z, n, 10, 6)
    BY <1>2, <1>3, NodeFollows
  <2>2. ASSUME NEW k \in 1 .. 10 PROVE z[k] = in[k]
    <3>1. z[k] = t[k]
      <4>1. 0 + k = k
        OBVIOUS
      <4> QED BY <2>1, <4>1 DEF Places
    <3>2. k \in {1, 2, 3, 4, 5, 6, 7, 8, 9, 10}
      OBVIOUS
    <3>3. /\ t[1] = a /\ t[2] = b /\ t[3] = c /\ t[4] = d /\ t[5] = e /\ t[6] = f
          /\ t[7] = g /\ t[8] = h /\ t[9] = i /\ t[10] = j
      OBVIOUS
    <3> QED BY <3>1, <3>2, <3>3
  <2>3. ASSUME NEW k \in 1 .. 6 PROVE z[10 + k] = in[10 + k]
    BY <1>3, <2>1 DEF Places
  <2>4. ASSUME NEW k \in 1 .. 16 PROVE z[k] = in[k]
    <3>1. CASE k <= 10
      BY <2>2, <3>1
    <3>2. CASE k > 10
      <4> PICK o \in 1 .. 6 : k = 10 + o
        <5>1. k - 10 \in 1 .. 6 /\ k = 10 + (k - 10)
          BY <3>2
        <5> QED BY <5>1
      <4> QED BY <2>3
    <3> QED BY <3>1, <3>2
  <2>5. z = in
    BY <1>2, <2>1, <2>4 DEF Row
  <2> QED BY <2>5
<1> PICK l, m, v, s :
      /\ l = ((a * Byte + b) * Byte + c) * Byte + d /\ m = e * Byte + f
      /\ v = g * Byte + h /\ s = i * Byte + j
  OBVIOUS
<1>6. l \in 0 .. Long - 1 /\ FourBytes(l, a, b, c, d)
  BY BytesOfLong
<1>7. /\ m \in 0 .. Word - 1 /\ TwoBytes(m, e, f) /\ v \in 0 .. Word - 1 /\ TwoBytes(v, g, h)
      /\ s \in 0 .. Word - 1 /\ TwoBytes(s, i, j)
  BY BytesOfWord
<1> PICK uu : uu = [time_low |-> l, time_mid |-> m, time_hi_and_version |-> v, clock_seq |-> s,
                    node |-> n]
  OBVIOUS
<1>8. uu \in Structs
  BY <1>3, <1>6, <1>7 DEF Structs
<1>9. uuid_unpack(in) = uu
  BY DEF uuid_unpack
<1>10. uuid_pack(uu) = t \o n
  <2>1. /\ (l \div (Byte * Word)) % Byte = a /\ (l \div Word) % Byte = b
        /\ (l \div Byte) % Byte = c /\ l % Byte = d
    BY <1>6 DEF FourBytes
  <2>2. /\ (m \div Byte) % Byte = e /\ m % Byte = f /\ (v \div Byte) % Byte = g /\ v % Byte = h
        /\ (s \div Byte) % Byte = i /\ s % Byte = j
    BY <1>7 DEF TwoBytes
  <2> QED BY <2>1, <2>2 DEF uuid_pack
<1> QED BY <1>5, <1>8, <1>9, <1>10

-----------------------------------------------------------------------------
\* A byte that is not the last one of its range and even can be made odd.
LEMMA OddByte ==
  ASSUME NEW r \in Octets, r % 2 = 0
  PROVE  r + 1 \in Octets
<1> PICK n \in Nat : n = Nibble /\ n > 0 /\ n % 8 = 0
  BY NibbleAssumption
<1> PICK q \in Nat : q * 8 + 0 = n
  <2> PICK x \in Nat, y \in 0 .. 8 - 1 : x = n \div 8 /\ y = n % 8 /\ x * 8 + y = n
    BY DivMod
  <2> QED OBVIOUS
<1> PICK h \in Nat : h = (4 * q) * n
  OBVIOUS
<1>1. n * n = 2 * h
  <2>1. (8 * q) * n = 2 * ((4 * q) * n)
    BY ONLY q \in Nat, n \in Nat
  <2>2. 8 * q = n
    OBVIOUS
  <2> QED BY <2>1, <2>2
<1>2. Byte = 2 * h
  BY <1>1 DEF Byte
<1>3. r \in 0 .. 2 * h - 1
  BY <1>2 DEF Octets
<1>4. r + 1 \in 0 .. 2 * h - 1
  BY ONLY <1>3, h \in Nat, r % 2 = 0
<1> QED BY <1>2, <1>4 DEF Octets

Quarter == Word \div 4

\* The variant of a clock_seq in the third quarter.
LEMMA ThirdQuarter ==
  ASSUME NEW c \in 0 .. Quarter - 1
  PROVE  /\ c + Word \div 2 \in 0 .. Word - 1
         /\ \A in : uuid_unpack(in).clock_seq = c + Word \div 2 => uuid_variant(in) = "DCE"
<1> PICK q \in Nat \ {0} : q = Word \div 4 /\ Word = 4 * q /\ Word \div 2 = 2 * q
  BY Sizes
<1> PICK s \in Nat : s = c + 2 * q /\ c \in 0 .. q - 1
  BY DEF Quarter
<1>1. s \in 0 .. 4 * q - 1 /\ ~(s < 2 * q) /\ s >= 2 * q /\ ~(s >= 3 * q)
  BY ONLY s = c + 2 * q, c \in 0 .. q - 1, q \in Nat \ {0}
<1>2. s % (2 * q) = c /\ c < q
  <2> PICK d \in Nat \ {0} : d = 2 * q
    OBVIOUS
  <2>1. c \in 0 .. d - 1 /\ 1 * d + c = s /\ 1 \in Nat /\ c < q
    BY ONLY d = 2 * q, s = c + 2 * q, c \in 0 .. q - 1, q \in Nat \ {0}
  <2>2. s % d = c
    BY ONLY <2>1, d \in Nat \ {0}, DivIs
  <2> QED BY <2>1, <2>2
<1>3. ASSUME NEW in, uuid_unpack(in).clock_seq = s PROVE uuid_variant(in) = "DCE"
  BY <1>1, <1>2, <1>3 DEF uuid_variant
<1> QED BY <1>1, <1>3

\* The version over the lower twelve bits.
LEMMA VersionOverTime ==
  ASSUME NEW h \in 0 .. Version - 1, NEW v \in 1 .. 4
  PROVE  /\ h + v * Version \in 0 .. Word - 1
         /\ ((h + v * Version) \div Version) % Nibble = v
         /\ (h + v * Version) % Version = h
<1> PICK n \in Nat, w \in Nat \ {0} : n = Nibble /\ n >= 8 /\ w = Version /\ Word = n * w
  BY Sizes
<1> PICK k : k = h + v * w
  OBVIOUS
<1>1. v * w + h = k /\ h \in 0 .. w - 1 /\ v \in 0 .. n - 1 /\ v \in Nat /\ n \in Nat \ {0} /\ v < n
  <2>1. v * w \in Nat
    OBVIOUS
  <2> QED BY <2>1
<1>2. k \in Nat /\ k < n * w
  BY ONLY <1>1, w \in Nat \ {0}, Digits
<1>3. k \div w = v /\ k % w = h
  BY ONLY <1>1, w \in Nat \ {0}, DivIs
<1>4. v % n = v
  BY ONLY <1>1, ModSmall
<1> PICK nw \in Nat : nw = Word
  BY Sizes
<1>5. k \in 0 .. nw - 1
  BY <1>2
<1>6. h + v * Version = k
  OBVIOUS
<1> QED BY <1>3, <1>4, <1>5, <1>6

\* A time in its three fields.
LEMMA ThreeFields ==
  ASSUME NEW reg \in Nat, reg \div Long < Word * Version
  PROVE  /\ reg % Long \in 0 .. Long - 1 /\ (reg \div Long) % Word \in 0 .. Word - 1
         /\ ((reg \div Long) \div Word) % Version \in 0 .. Version - 1
         /\ (reg % Long) + Long * (((reg \div Long) % Word) + Word * (((reg \div Long) \div Word) % Version)) = reg
<1> PICK l \in Nat \ {0}, w \in Nat \ {0}, v \in Nat \ {0} : l = Long /\ w = Word /\ v = Version
  BY Sizes
<1> PICK a \in Nat, b \in 0 .. l - 1 : a = reg \div l /\ b = reg % l /\ a * l + b = reg
  BY DivMod
<1>1. a < v * w
  <2>1. w * v = v * w
    OBVIOUS
  <2> QED BY <2>1
<1>2. \E c \in Nat, d \in Nat : TwoDigits(a, v, w, c, d)
  BY ONLY <1>1, a \in Nat, v \in Nat \ {0}, w \in Nat \ {0}, Split
<1> PICK c \in Nat, d \in Nat : TwoDigits(a, v, w, c, d)
  BY <1>2
<1>3. c = a \div w /\ d = a % w /\ c \in 0 .. v - 1 /\ d \in 0 .. w - 1 /\ c * w + d = a
  BY ONLY TwoDigits(a, v, w, c, d) DEF TwoDigits
<1>4. c % v = c
  <2>1. c < v /\ v \in Nat
    BY ONLY <1>3, c \in Nat, v \in Nat \ {0}
  <2> QED BY ONLY <2>1, c \in Nat, ModSmall
<1>5. b + l * (d + w * c) = reg
  <2>1. d + w * c = a
    <3>1. w * c = c * w /\ c * w \in Nat
      BY ONLY w \in Nat \ {0}, c \in Nat
    <3> PICK x \in Nat : x = c * w /\ x = w * c
      BY <3>1
    <3>2. x + d = a
      BY <1>3
    <3> QED BY ONLY <3>2, x \in Nat, d \in Nat, x = w * c
  <2>2. l * a = a * l /\ a * l \in Nat
    BY ONLY l \in Nat \ {0}, a \in Nat
  <2> PICK y \in Nat : y = a * l /\ y = l * a
    BY <2>2
  <2>3. y + b = reg
    OBVIOUS
  <2>4. b + y = reg
    BY ONLY <2>3, y \in Nat, b \in 0 .. l - 1, l \in Nat \ {0}
  <2> QED BY <2>1, <2>4
<1> QED BY <1>3, <1>4, <1>5

\* Ticks of a time of day, and back.
LEMMA TicksToTime ==
  ASSUME NEW t \in Nat, NEW adj \in Nat, NEW a, a = t * Ticks + adj
  PROVE  /\ a \div (Usec * Ticks) = (t + adj \div Ticks) \div Usec
         /\ (a % (Usec * Ticks)) \div Ticks = (t + adj \div Ticks) % Usec
<1> PICK k \in Nat \ {0}, u \in Nat \ {0} : k = Ticks /\ u = Usec
  BY EpochAssumption
<1> PICK q \in Nat, r \in 0 .. k - 1 : q = adj \div k /\ r = adj % k /\ q * k + r = adj
  BY DivMod
<1>1. (t + q) * k + r = a
  <2>1. (t + q) * k = t * k + q * k
    BY ONLY t \in Nat, q \in Nat, k \in Nat \ {0}
  <2> PICK x \in Nat, y \in Nat, z \in Nat : x = t * k /\ y = q * k /\ z = (t + q) * k /\ z = x + y
    BY <2>1
  <2>2. y + r = adj /\ x + adj = a
    OBVIOUS
  <2>3. z + r = a
    BY ONLY <2>2, z = x + y, x \in Nat, y \in Nat, r \in 0 .. k - 1, k \in Nat \ {0}, adj \in Nat
  <2> QED BY <2>3
<1>2. t + q \in Nat
  OBVIOUS
<1>3. a \div k = t + q /\ a \in Nat
  <2>1. a \div k = t + q
    <3> PICK p \in Nat : p = t + q
      BY <1>2
    <3>1. p * k + r = a
      BY <1>1
    <3>2. a \div k = p
      BY ONLY <3>1, p \in Nat, r \in 0 .. k - 1, k \in Nat \ {0}, DivIs
    <3> QED BY <3>2
  <2>2. t * k \in Nat
    BY ONLY t \in Nat, k \in Nat \ {0}
  <2> QED BY <2>1, <2>2
<1>4. (a \div k) \div u = a \div (u * k) /\ (a % (u * k)) \div k = (a \div k) % u
  BY ONLY <1>3, k \in Nat \ {0}, u \in Nat \ {0}, DivDiv
<1> QED BY <1>3, <1>4

-----------------------------------------------------------------------------
(* The generating functions. *)

MadeUuids == [u : Uuids, how : {"random", "time"}, t : Nat, adj : Nat]

\* x has the variant, the version and the time it should have.
WellFormed(x) ==
  LET us == x.t + (x.adj \div Ticks)
  IN  /\ uuid_variant(x.u) = "DCE"
      /\ uuid_type(x.u) = IF x.how = "random" THEN 4 ELSE 1
      /\ x.how = "time" =>
            uuid_time(x.u) = [tv_sec |-> us \div Usec, tv_usec |-> us % Usec]

GenTypes ==
  /\ how \in {"idle", "random", "time"}
  /\ job \in {NoJob, "uuid", "node", "seq"}
  /\ node \in Row(Octets, 6) \cup {<<>>}
  /\ seq \in (0 .. Quarter - 1) \cup {-1}
  /\ made \in Seq(MadeUuids)

\* Bytes are drawn for the function that runs.
JobIsWanted == /\ how = "idle" => job = NoJob
               /\ job = "uuid" => how = "random"
               /\ job \in {"node", "seq"} => how = "time"

NewestIsWellFormed == made # <<>> => WellFormed(made[Len(made)])

GenInv == GenTypes /\ JobIsWanted /\ NewestIsWellFormed

\* A UUID of random bytes.
LEMMA RandomIsWellFormed ==
  ASSUME NEW r \in RandomBytes, NEW u,
         u = uuid_pack([uuid_unpack(r) EXCEPT
                          !.clock_seq = (@ % (Word \div 4)) + (Word \div 2),
                          !.time_hi_and_version = (@ % Version) + 4 * Version])
  PROVE  u \in Uuids /\ uuid_variant(u) = "DCE" /\ uuid_type(u) = 4
<1>1. r \in Uuids
  BY BytesAssumption DEF Uuids, Octets, Row
<1> PICK uu : uu = uuid_unpack(r)
  OBVIOUS
<1>2. uu \in Structs
  BY <1>1, UnpackPack
<1> PICK c, h : c = uu.clock_seq % (Word \div 4) /\ h = uu.time_hi_and_version % Version
  OBVIOUS
<1>3. c \in 0 .. Quarter - 1 /\ h \in 0 .. Version - 1
  <2>1. uu.clock_seq \in Nat /\ uu.time_hi_and_version \in Nat
    <3>1. uu.clock_seq \in 0 .. Word - 1 /\ uu.time_hi_and_version \in 0 .. Word - 1 /\ Word \in Nat
      BY <1>2, Sizes DEF Structs
    <3> QED BY ONLY <3>1
  <2>2. Quarter \in Nat \ {0} /\ Version \in Nat \ {0} /\ Quarter = Word \div 4
    BY Sizes DEF Quarter
  <2> QED BY <2>1, <2>2
<1> PICK s, k : s = c + Word \div 2 /\ k = h + 4 * Version
  OBVIOUS
<1>4. s \in 0 .. Word - 1 /\ \A in : uuid_unpack(in).clock_seq = s => uuid_variant(in) = "DCE"
  BY <1>3, ThirdQuarter
<1>5. k \in 0 .. Word - 1 /\ (k \div Version) % Nibble = 4
  <2>1. 4 \in 1 .. 4
    OBVIOUS
  <2> QED BY <1>3, <2>1, VersionOverTime
<1> PICK vv : vv = [uu EXCEPT !.clock_seq = s, !.time_hi_and_version = k]
  OBVIOUS
<1>6. vv \in Structs /\ vv.clock_seq = s /\ vv.time_hi_and_version = k
  BY <1>2, <1>4, <1>5 DEF Structs
<1>7. u = uuid_pack(vv)
  OBVIOUS
<1>8. u \in Uuids /\ uuid_unpack(u) = vv
  BY <1>6, <1>7, PackUnpack
<1>9. uuid_variant(u) = "DCE"
  BY <1>4, <1>6, <1>8
<1>10. uuid_type(u) = 4
  BY <1>5, <1>6, <1>8 DEF uuid_type
<1> QED BY <1>8, <1>9, <1>10

\* A UUID of a time.
LEMMA StampIsWellFormed ==
  ASSUME NEW t \in Times, NEW adj \in 0 .. MaxAdjustment, NEW s \in 0 .. Quarter - 1,
         node \in Row(Octets, 6), NEW u, u = StampOf(t, adj, s)
  PROVE  /\ u \in Uuids /\ uuid_variant(u) = "DCE" /\ uuid_type(u) = 1
         /\ uuid_time(u) = [tv_sec |-> (t + adj \div Ticks) \div Usec,
                            tv_usec |-> (t + adj \div Ticks) % Usec]
<1>1. t \in Nat /\ adj \in Nat /\ MaxAdjustment \in Nat
  BY TimesAssumption, GiveUpAssumption
<1> PICK ticks \in Nat : ticks = t * Ticks
  BY <1>1, EpochAssumption
<1> PICK a \in Nat : a = ticks + adj
  BY <1>1
<1> PICK reg \in Nat : reg = t * Ticks + adj + Epoch /\ reg = a + Epoch
  BY EpochAssumption
<1> PICK most \in Nat : most = t * Ticks + MaxAdjustment + Epoch /\ reg <= most
  BY <1>1, EpochAssumption
<1>2. reg \div Long < Word * Version
  <2>1. most \div Long < Word * Version
    BY TimesAssumption
  <2> PICK l \in Nat \ {0}, m \in Nat : l = Long /\ m = Word * Version
    BY Sizes
  <2> PICK x \in Nat, y \in 0 .. l - 1 : x = reg \div l /\ y = reg % l /\ x * l + y = reg
    BY DivMod
  <2> PICK v \in Nat, w \in 0 .. l - 1 : v = most \div l /\ w = most % l /\ v * l + w = most
    BY DivMod
  <2>2. ~(v < x)
    <3> SUFFICES ASSUME v < x PROVE FALSE
      OBVIOUS
    <3>1. v * l + l <= x * l
      BY NotSmaller
    <3> PICK p \in Nat, q \in Nat : p = v * l /\ q = x * l
      OBVIOUS
    <3>2. p + l <= q /\ q + y = reg /\ p + w = most /\ reg <= most
      BY <3>1
    <3> QED BY ONLY <3>2, p \in Nat, q \in Nat, l \in Nat \ {0}, y \in 0 .. l - 1, w \in 0 .. l - 1
  <2>3. x <= v /\ v < m
    BY <2>1, <2>2
  <2>4. x < m
    BY ONLY <2>3, x \in Nat, v \in Nat, m \in Nat
  <2> QED BY <2>4
<1> PICK low, mid, h :
      low = reg % Long /\ mid = (reg \div Long) % Word /\ h = ((reg \div Long) \div Word) % Version
  OBVIOUS
<1>3. /\ low \in 0 .. Long - 1 /\ mid \in 0 .. Word - 1 /\ h \in 0 .. Version - 1
      /\ low + Long * (mid + Word * h) = reg
  BY <1>2, ThreeFields
<1> PICK c, k : c = s + Word \div 2 /\ k = h + Version
  OBVIOUS
<1>4. c \in 0 .. Word - 1 /\ \A in : uuid_unpack(in).clock_seq = c => uuid_variant(in) = "DCE"
  BY ThirdQuarter
<1>5. k \in 0 .. Word - 1 /\ (k \div Version) % Nibble = 1 /\ k % Version = h
  <2>1. 1 \in 1 .. 4 /\ 1 * Version = Version
    BY Sizes
  <2>2. h + 1 * Version \in 0 .. Word - 1 /\ ((h + 1 * Version) \div Version) % Nibble = 1
        /\ (h + 1 * Version) % Version = h
    BY <1>3, <2>1, VersionOverTime
  <2> QED BY <2>1, <2>2
<1> PICK vv : vv = [time_low |-> low, time_mid |-> mid, time_hi_and_version |-> k,
                    clock_seq |-> c, node |-> node]
  OBVIOUS
<1>6. vv \in Structs
  BY <1>3, <1>4, <1>5 DEF Structs
<1>7. u = uuid_pack(vv)
  BY DEF StampOf
<1>8. u \in Uuids /\ uuid_unpack(u) = vv
  BY <1>6, <1>7, PackUnpack
<1>9. uuid_variant(u) = "DCE"
  BY <1>4, <1>8
<1>10. uuid_type(u) = 1
  BY <1>5, <1>8 DEF uuid_type
<1>11. ClockReg(vv) = reg
  BY <1>3, <1>5 DEF ClockReg
<1>12. reg - Epoch = a
  BY EpochAssumption
<1>13. uuid_time(u) = [tv_sec |-> a \div (Usec * Ticks), tv_usec |-> (a % (Usec * Ticks)) \div Ticks]
  BY <1>8, <1>11, <1>12 DEF uuid_time
<1>14. /\ a \div (Usec * Ticks) = (t + adj \div Ticks) \div Usec
       /\ (a % (Usec * Ticks)) \div Ticks = (t + adj \div Ticks) % Usec
  <2>1. a = t * Ticks + adj
    OBVIOUS
  <2> QED BY ONLY <1>1, <2>1, TicksToTime
<1> QED BY <1>8, <1>9, <1>10, <1>13, <1>14

LEMMA GenStartsInInv == GenInit => GenInv
BY DEF GenInit, GenInv, GenTypes, JobIsWanted, NewestIsWellFormed, NoJob

\* A UUID more.
LEMMA MadeKeepsInv ==
  ASSUME GenInv, NEW u \in Uuids, NEW t \in Nat, NEW adj \in Nat, how # "idle",
         job' = NoJob, node' = node, seq' \in 0 .. Quarter - 1 \/ seq' = seq,
         Made(u, t, adj), WellFormed([u |-> u, how |-> how, t |-> t, adj |-> adj])
  PROVE  GenInv'
<1> PICK x : x = [u |-> u, how |-> how, t |-> t, adj |-> adj]
  OBVIOUS
<1>1. x \in MadeUuids /\ made' = Append(made, x) /\ how' = "idle"
  BY DEF Made, MadeUuids, GenInv, GenTypes
<1>2. made' \in Seq(MadeUuids) /\ made' # <<>> /\ made'[Len(made')] = x
  BY <1>1 DEF GenInv, GenTypes
<1>3. WellFormed(x)
  OBVIOUS
<1>4. NewestIsWellFormed'
  BY <1>2, <1>3 DEF NewestIsWellFormed, WellFormed
<1>5. GenTypes'
  BY <1>1, <1>2 DEF GenInv, GenTypes
<1>6. JobIsWanted'
  BY <1>1 DEF JobIsWanted, NoJob
<1> QED BY <1>4, <1>5, <1>6 DEF GenInv

\* What was drawn is a node, or a clock_seq.
LEMMA NodeIsDrawn ==
  ASSUME GenInv, NodeFilled
  PROVE  GenInv'
<1> PICK r \in RandomBytes :
      node' = [i \in NodeBytes |-> IF i = 1 /\ r[i] % 2 = 0 THEN r[i] + 1 ELSE r[i]]
  BY DEF NodeFilled
<1>1. \A i \in 1 .. 6 : r[i] \in Octets
  BY BytesAssumption DEF Octets
<1>2. ASSUME NEW i \in 1 .. 6 PROVE (IF i = 1 /\ r[i] % 2 = 0 THEN r[i] + 1 ELSE r[i]) \in Octets
  BY <1>1, OddByte
<1>3. node' \in Row(Octets, 6)
  BY <1>2 DEF Row, NodeBytes
<1> QED BY <1>3 DEF GenInv, GenTypes, JobIsWanted, NewestIsWellFormed, WellFormed, NodeFilled,
            FillReturns, NoJob

LEMMA SeqIsDrawn ==
  ASSUME GenInv, SeqFilled
  PROVE  GenInv'
<1> PICK r \in RandomBytes : seq' = (r[9] * Byte + r[10]) % (Word \div 4)
  BY DEF SeqFilled
<1>1. r[9] \in Octets /\ r[10] \in Octets
  BY BytesAssumption DEF Octets
<1> PICK w : w = r[9] * Byte + r[10]
  OBVIOUS
<1>2. w \in Nat
  <2>1. w \in 0 .. Word - 1 /\ Word \in Nat
    BY <1>1, BytesOfWord, Sizes
  <2> QED BY ONLY <2>1
<1>3. seq' \in 0 .. Quarter - 1
  <2>1. Quarter \in Nat \ {0} /\ seq' = w % Quarter
    BY Sizes DEF Quarter
  <2> QED BY ONLY <1>2, <2>1
<1> QED BY <1>3 DEF GenInv, GenTypes, JobIsWanted, NewestIsWellFormed, WellFormed, SeqFilled,
            FillReturns, NoJob

LEMMA RandomKeepsInv ==
  ASSUME GenInv, RandomFilled
  PROVE  GenInv'
<1> PICK r \in RandomBytes :
      Made(uuid_pack([uuid_unpack(r) EXCEPT
                        !.clock_seq = (@ % (Word \div 4)) + (Word \div 2),
                        !.time_hi_and_version = (@ % Version) + 4 * Version]), 0, 0)
  BY DEF RandomFilled
<1> PICK u : u = uuid_pack([uuid_unpack(r) EXCEPT
                        !.clock_seq = (@ % (Word \div 4)) + (Word \div 2),
                        !.time_hi_and_version = (@ % Version) + 4 * Version])
  OBVIOUS
<1>1. u \in Uuids /\ uuid_variant(u) = "DCE" /\ uuid_type(u) = 4
  BY RandomIsWellFormed
<1>2. how = "random"
  BY DEF GenInv, JobIsWanted, RandomFilled, Filled
<1>3. WellFormed([u |-> u, how |-> how, t |-> 0, adj |-> 0])
  BY <1>1, <1>2 DEF WellFormed
<1>4. Made(u, 0, 0) /\ job' = NoJob /\ node' = node /\ seq' = seq
  BY DEF RandomFilled, FillReturns
<1> QED BY <1>1, <1>2, <1>3, <1>4, MadeKeepsInv

LEMMA StampKeepsInv ==
  ASSUME GenInv, Stamp
  PROVE  GenInv'
<1> PICK t \in Times, adj \in 0 .. MaxAdjustment, s \in {seq, (seq + 1) % (Word \div 4)} :
      Made(StampOf(t, adj, s), t, adj) /\ seq' = s
  BY DEF Stamp
<1>1. how = "time" /\ job = NoJob /\ node \in Row(Octets, 6) /\ seq \in 0 .. Quarter - 1
      /\ job' = NoJob /\ node' = node
  BY DEF Stamp, GenInv, GenTypes
<1>2. s \in 0 .. Quarter - 1
  <2>1. Quarter \in Nat \ {0} /\ Quarter = Word \div 4
    BY Sizes DEF Quarter
  <2>2. (seq + 1) % Quarter \in 0 .. Quarter - 1
    BY ONLY <1>1, <2>1
  <2> QED BY <1>1, <2>1, <2>2
<1> PICK u : u = StampOf(t, adj, s)
  OBVIOUS
<1>3. /\ u \in Uuids /\ uuid_variant(u) = "DCE" /\ uuid_type(u) = 1
      /\ uuid_time(u) = [tv_sec |-> (t + adj \div Ticks) \div Usec,
                         tv_usec |-> (t + adj \div Ticks) % Usec]
  BY <1>1, <1>2, StampIsWellFormed
<1>4. WellFormed([u |-> u, how |-> how, t |-> t, adj |-> adj])
  BY <1>1, <1>3 DEF WellFormed
<1>5. t \in Nat /\ adj \in Nat
  BY TimesAssumption, GiveUpAssumption
<1> QED BY <1>1, <1>2, <1>3, <1>4, <1>5, MadeKeepsInv

LEMMA GenInvHolds == GenSpec => []GenInv
<1>1. GenInv /\ [GenNext]_genVars => GenInv'
  <2> SUFFICES ASSUME GenInv, [GenNext]_genVars PROVE GenInv'
    OBVIOUS
  <2> USE DEF NewestIsWellFormed, WellFormed, JobIsWanted, NoJob
  <2>1. CASE Generate
    BY <2>1 DEF Generate, GenInv, GenTypes
  <2>2. CASE WantBytes
    BY <2>2 DEF WantBytes, Fill, GenInv, GenTypes
  <2>3. CASE FindNode
    <3>1. node' \in Row(Octets, 6)
      BY <2>3, BytesAssumption DEF FindNode, Row, Octets, NodeBytes
    <3> QED BY <2>3, <3>1 DEF FindNode, GenInv, GenTypes
  <2>4. CASE ReadSome
    BY <2>4 DEF ReadSome, GenInv, GenTypes
  <2>5. CASE ReadFails
    BY <2>5 DEF ReadFails, GenInv, GenTypes
  <2>6. CASE NodeFilled
    BY <2>6, NodeIsDrawn
  <2>7. CASE SeqFilled
    BY <2>7, SeqIsDrawn
  <2>8. CASE RandomFilled
    BY <2>8, RandomKeepsInv
  <2>9. CASE Stamp
    BY <2>9, StampKeepsInv
  <2>10. CASE UNCHANGED genVars
    BY <2>10 DEF genVars, GenInv, GenTypes
  <2> QED BY <2>1, <2>2, <2>3, <2>4, <2>5, <2>6, <2>7, <2>8, <2>9, <2>10 DEF GenNext, GenStep
<1> QED BY <1>1, GenStartsInInv, PTL DEF GenSpec

\* Whatever bytes are drawn, reads fail and times the clock gives, each UUID has the
\* variant and version of the function that made it, and one of a time gives it back.
THEOREM MadeWellFormed == GenSpec => []GeneratedAreWellFormed
<1>1. GenInv => GeneratedAreWellFormed
  BY DEF GenInv, NewestIsWellFormed, WellFormed, GeneratedAreWellFormed
<1> QED BY <1>1, GenInvHolds, PTL
-----------------------------------------------------------------------------
(* The text of a UUID: two digits for each byte, and the dashes.           *)

\* The values of a digit, and what may stand in a text.
HexDigits == 0 .. Nibble - 1
Marks == -1 .. Nibble - 1

High(b) == b \div Nibble
Low(b) == b % Nibble

\* The digits that are printed for a number are those of its last byte.
LEMMA HexOfByte ==
  ASSUME NEW v \in Nat, NEW b \in Octets, v % Byte = b
  PROVE  Hex2(v) = <<High(b), Low(b)>>
<1> PICK n \in Nat \ {0}, nn \in Nat \ {0} : n = Nibble /\ nn = n * n /\ nn = Byte
  BY Sizes DEF Byte
<1> PICK q \in Nat, r \in 0 .. nn - 1 : q = v \div nn /\ r = v % nn /\ q * nn + r = v
  BY DivMod
<1>1. r = b /\ r \in Nat
  OBVIOUS
<1> PICK s \in Nat, t \in 0 .. n - 1 : s = r \div n /\ t = r % n /\ s * n + t = r
  BY <1>1, DivMod
<1>2. (v \div n) % n = s
  <2>1. (v % (n * n)) \div n = (v \div n) % n
    BY ONLY n \in Nat \ {0}, v \in Nat, DivDiv
  <2>2. v % (n * n) = r /\ r \div n = s
    OBVIOUS
  <2> QED BY <2>1, <2>2
<1>3. v % n = t
  <2> PICK k \in Nat : k = q * n + s
    BY ONLY q \in Nat, n \in Nat \ {0}, s \in Nat
  <2>1. k * n = q * (n * n) + s * n
    BY ONLY k = q * n + s, q \in Nat, n \in Nat \ {0}, s \in Nat
  <2> PICK x \in Nat, y \in Nat, z \in Nat : x = k * n /\ y = q * nn /\ z = s * n
    BY ONLY k \in Nat, q \in Nat, n \in Nat \ {0}, nn \in Nat \ {0}, s \in Nat
  <2>2. x = y + z /\ y + r = v /\ z + t = r
    BY <2>1
  <2>3. x + t = v
    BY ONLY <2>2, x \in Nat, y \in Nat, z \in Nat, v \in Nat, r \in Nat, <1>1, t \in 0 .. n - 1, n \in Nat \ {0}
  <2>4. k * n + t = v
    BY <2>3
  <2> QED BY ONLY <2>4, k \in Nat, t \in 0 .. n - 1, n \in Nat \ {0}, DivIs
<1> QED BY <1>1, <1>2, <1>3 DEF Hex2, High, Low

\* A byte is its two digits, which are the only ones.
LEMMA DigitsOfByte ==
  ASSUME NEW b \in Octets
  PROVE  High(b) \in HexDigits /\ Low(b) \in HexDigits /\ High(b) * Nibble + Low(b) = b
<1> PICK n \in Nat \ {0} : n = Nibble /\ n * n = Byte
  BY Sizes DEF Byte
<1>1. b \in Nat /\ b < n * n
  BY DEF Octets
<1>2. \E q \in Nat, r \in Nat : TwoDigits(b, n, n, q, r)
  BY ONLY <1>1, n \in Nat \ {0}, Split
<1> QED BY <1>2 DEF TwoDigits, High, Low, HexDigits

LEMMA ByteOfDigits ==
  ASSUME NEW h \in HexDigits, NEW l \in HexDigits, NEW b, b = h * Nibble + l
  PROVE  b \in Octets /\ High(b) = h /\ Low(b) = l
<1> PICK n \in Nat \ {0} : n = Nibble /\ n * n = Byte
  BY Sizes DEF Byte
<1>1. h \in 0 .. n - 1 /\ l \in 0 .. n - 1 /\ h * n + l = b
  BY DEF HexDigits
<1>2. b \in Nat /\ b < n * n /\ b \div n = h /\ b % n = l
  BY ONLY <1>1, n \in Nat \ {0}, Digits
<1> PICK m \in Nat : m = n * n
  BY <1>2
<1>3. b \in 0 .. m - 1
  BY <1>2
<1> QED BY <1>2, <1>3 DEF Octets, High, Low

\* What is printed for 16 bytes.
Shown(in) ==
  << High(in[1]), Low(in[1]), High(in[2]), Low(in[2]), High(in[3]), Low(in[3]),
     High(in[4]), Low(in[4]), Dash, High(in[5]), Low(in[5]), High(in[6]), Low(in[6]), Dash,
     High(in[7]), Low(in[7]), High(in[8]), Low(in[8]), Dash,
     High(in[9]), Low(in[9]), High(in[10]), Low(in[10]), Dash,
     High(in[11]), Low(in[11]), High(in[12]), Low(in[12]), High(in[13]), Low(in[13]),
     High(in[14]), Low(in[14]), High(in[15]), Low(in[15]), High(in[16]), Low(in[16]) >>

\* The first n places of x.
Begins(c, n, x) == c \in Row(Marks, n) /\ \A i \in 1 .. n : c[i] = x[i]

LEMMA BeginsLonger ==
  ASSUME NEW n \in Nat, NEW m \in Nat, NEW k, k = n + m, NEW x, NEW c, Begins(c, n, x), NEW s \in Row(Marks, m),
         \A i \in 1 .. m : s[i] = x[n + i]
  PROVE  Begins(c \o s, k, x)
<1> PICK d : d = c \o s
  OBVIOUS
<1>1. d \in Row(Marks, k) /\ Places(d, c, 0, n) /\ Places(d, s, n, m)
  BY RowsJoin DEF Begins
<1>2. ASSUME NEW i \in 1 .. k PROVE d[i] = x[i]
  <2>1. CASE i <= n
    <3>1. i \in 1 .. n /\ 0 + i = i
      BY <2>1
    <3> QED BY <1>1, <3>1 DEF Places, Begins
  <2>2. CASE i > n
    <3> PICK j \in 1 .. m : i = n + j
      <4>1. i - n \in 1 .. m /\ i = n + (i - n)
        BY <2>2
      <4> QED BY <4>1
    <3>1. d[n + j] = s[j]
      BY <1>1 DEF Places
    <3>2. s[j] = x[n + j]
      OBVIOUS
    <3> QED BY <3>1, <3>2
  <2>3. i <= n \/ i > n
    OBVIOUS
  <2> QED BY <2>1, <2>2, <2>3
<1> QED BY <1>1, <1>2 DEF Begins

\* One character, or the digits of a byte, more.
LEMMA OneMore ==
  ASSUME NEW n \in Nat, NEW k, k = n + 1, NEW x, NEW c, Begins(c, n, x), NEW a \in Marks, x[k] = a
  PROVE  Begins(c \o <<a>>, k, x)
<1>1. <<a>> \in Row(Marks, 1) /\ 1 \in Nat
  BY DEF Row
<1>2. \A i \in 1 .. 1 : <<a>>[i] = x[n + i]
  OBVIOUS
<1> QED BY <1>1, <1>2, BeginsLonger

LEMMA TwoMore ==
  ASSUME NEW n \in Nat, NEW k, k = n + 2, NEW x, NEW c, Begins(c, n, x),
         NEW a \in Marks, NEW b \in Marks, x[n + 1] = a, x[k] = b
  PROVE  Begins(c \o <<a, b>>, k, x)
<1>1. <<a, b>> \in Row(Marks, 2) /\ 2 \in Nat
  BY DEF Row
<1>2. \A i \in 1 .. 2 : <<a, b>>[i] = x[n + i]
  OBVIOUS
<1> QED BY <1>1, <1>2, BeginsLonger

LEMMA FourMore ==
  ASSUME NEW n \in Nat, NEW k, k = n + 4, NEW x, NEW c, Begins(c, n, x),
         NEW a \in Marks, NEW b \in Marks, NEW d \in Marks, NEW e \in Marks,
         x[n + 1] = a, x[n + 2] = b, x[n + 3] = d, x[k] = e
  PROVE  Begins(c \o <<a, b, d, e>>, k, x)
<1>1. <<a, b, d, e>> \in Row(Marks, 4) /\ 4 \in Nat
  BY DEF Row
<1>2. \A i \in 1 .. 4 : <<a, b, d, e>>[i] = x[n + i]
  OBVIOUS
<1> QED BY <1>1, <1>2, BeginsLonger

LEMMA TwoAndTwo == \A a, b, c, d : <<a, b>> \o <<c, d>> = <<a, b, c, d>>
<1> SUFFICES ASSUME NEW a, NEW b, NEW c, NEW d PROVE <<a, b>> \o <<c, d>> = <<a, b, c, d>>
  OBVIOUS
<1> PICK S : S = {a, b, c, d}
  OBVIOUS
<1> PICK s, t, u, z : s = <<a, b>> /\ t = <<c, d>> /\ u = <<a, b, c, d>> /\ z = s \o t
  OBVIOUS
<1>1. s \in Row(S, 2) /\ t \in Row(S, 2) /\ u \in Row(S, 4)
  BY DEF Row
<1>2. z \in Row(S, 4) /\ Places(z, s, 0, 2) /\ Places(z, t, 2, 2)
  <2>1. 4 = 2 + 2
    OBVIOUS
  <2> QED BY <1>1, <2>1, RowsJoin
<1>3. z[0 + 1] = s[1] /\ z[0 + 2] = s[2] /\ z[2 + 1] = t[1] /\ z[2 + 2] = t[2]
  BY <1>2 DEF Places
<1>4. \A i \in 1 .. 4 : z[i] = u[i]
  <2>1. \A i \in 1 .. 4 : i \in {1, 2, 3, 4}
    OBVIOUS
  <2>2. z[1] = u[1] /\ z[2] = u[2] /\ z[3] = u[3] /\ z[4] = u[4]
    BY <1>3
  <2> QED BY <2>1, <2>2
<1>5. z = u
  BY ONLY <1>1, <1>2, <1>4 DEF Row
<1> QED BY <1>5

LEMMA FourAndFour ==
  \A a, b, c, d, e, f, g, h : <<a, b, c, d>> \o <<e, f, g, h>> = <<a, b, c, d, e, f, g, h>>
<1> SUFFICES ASSUME NEW a, NEW b, NEW c, NEW d, NEW e, NEW f, NEW g, NEW h
             PROVE <<a, b, c, d>> \o <<e, f, g, h>> = <<a, b, c, d, e, f, g, h>>
  OBVIOUS
<1> PICK S : S = {a, b, c, d, e, f, g, h}
  OBVIOUS
<1> PICK s, t, u, z : /\ s = <<a, b, c, d>> /\ t = <<e, f, g, h>>
                      /\ u = <<a, b, c, d, e, f, g, h>> /\ z = s \o t
  OBVIOUS
<1>1. s \in Row(S, 4) /\ t \in Row(S, 4) /\ u \in Row(S, 8)
  BY DEF Row
<1>2. z \in Row(S, 8) /\ Places(z, s, 0, 4) /\ Places(z, t, 4, 4)
  <2>1. 8 = 4 + 4
    OBVIOUS
  <2> QED BY <1>1, <2>1, RowsJoin
<1>3. /\ z[0 + 1] = s[1] /\ z[0 + 2] = s[2] /\ z[0 + 3] = s[3] /\ z[0 + 4] = s[4]
      /\ z[4 + 1] = t[1] /\ z[4 + 2] = t[2] /\ z[4 + 3] = t[3] /\ z[4 + 4] = t[4]
  BY <1>2 DEF Places
<1>4. \A i \in 1 .. 8 : z[i] = u[i]
  <2>1. \A i \in 1 .. 8 : i \in {1, 2, 3, 4, 5, 6, 7, 8}
    OBVIOUS
  <2>2. /\ z[1] = u[1] /\ z[2] = u[2] /\ z[3] = u[3] /\ z[4] = u[4]
        /\ z[5] = u[5] /\ z[6] = u[6] /\ z[7] = u[7] /\ z[8] = u[8]
    BY <1>3
  <2> QED BY <2>1, <2>2
<1>5. z = u
  BY ONLY <1>1, <1>2, <1>4 DEF Row
<1> QED BY <1>5

LEMMA HexOfWord ==
  ASSUME NEW w \in Nat, NEW q \in Octets, NEW r \in Octets, (w \div Byte) % Byte = q, w % Byte = r
  PROVE  Hex4(w) = <<High(q), Low(q), High(r), Low(r)>>
<1>1. w \div Byte \in Nat
  <2>1. Byte \in Nat \ {0}
    BY Sizes
  <2> QED BY ONLY <2>1, w \in Nat
<1>2. Hex2(w \div Byte) = <<High(q), Low(q)>>
  BY <1>1, HexOfByte
<1>3. Hex2(w) = <<High(r), Low(r)>>
  BY HexOfByte
<1>4. Hex4(w) = <<High(q), Low(q)>> \o <<High(r), Low(r)>>
  BY <1>2, <1>3 DEF Hex4
<1> QED BY <1>4, TwoAndTwo

LEMMA HexOfLong ==
  ASSUME NEW l \in Nat, NEW p \in Octets, NEW q \in Octets, NEW r \in Octets, NEW s \in Octets,
         FourBytes(l, p, q, r, s)
  PROVE  Hex8(l) = <<High(p), Low(p), High(q), Low(q), High(r), Low(r), High(s), Low(s)>>
<1> PICK b \in Nat \ {0}, w \in Nat \ {0} : b = Byte /\ w = Word
  BY Sizes
<1> PICK h \in Nat : h = l \div w
  BY ONLY l \in Nat, w \in Nat \ {0}
<1>1. h \div b = l \div (b * w)
  BY ONLY l \in Nat, w \in Nat \ {0}, b \in Nat \ {0}, h = l \div w, DivDiv
<1>2. (h \div b) % b = p /\ h % b = q /\ (l \div b) % b = r /\ l % b = s
  BY <1>1 DEF FourBytes
<1>3. Hex4(h) = <<High(p), Low(p), High(q), Low(q)>>
  BY <1>2, HexOfWord
<1>4. Hex4(l) = <<High(r), Low(r), High(s), Low(s)>>
  BY <1>2, HexOfWord
<1>5. Hex8(l) = <<High(p), Low(p), High(q), Low(q)>> \o <<High(r), Low(r), High(s), Low(s)>>
  <2>1. Hex8(l) = Hex4(h) \o Hex4(l)
    BY DEF Hex8
  <2> QED BY ONLY <1>3, <1>4, <2>1
<1> QED BY ONLY <1>5, FourAndFour

\* The text of 16 bytes.
LEMMA UnparseShows ==
  ASSUME NEW in \in Uuids
  PROVE  uuid_unparse(in) = Shown(in) /\ Shown(in) \in Row(Marks, 36)
<1> DEFINE uu == uuid_unpack(in)
           x == Shown(in)
<1>1. \A k \in 1 .. 16 : in[k] \in Octets
  BY DEF Uuids, Row
<1>2. \A k \in 1 .. 16 : High(in[k]) \in Marks /\ Low(in[k]) \in Marks
  <2>1. HexDigits \subseteq Marks
    BY Sizes DEF HexDigits, Marks
  <2> QED BY <1>1, <2>1, DigitsOfByte
<1>3. Dash \in Marks
  BY Sizes DEF Dash, Marks
<1>4. Hex8(uu.time_low) = <<High(in[1]), Low(in[1]), High(in[2]), Low(in[2]),
                            High(in[3]), Low(in[3]), High(in[4]), Low(in[4])>>
  <2> PICK l : l = ((in[1] * Byte + in[2]) * Byte + in[3]) * Byte + in[4]
    OBVIOUS
  <2>1. l \in 0 .. Long - 1 /\ FourBytes(l, in[1], in[2], in[3], in[4])
    <3>1. in[1] \in Octets /\ in[2] \in Octets /\ in[3] \in Octets /\ in[4] \in Octets
      BY <1>1
    <3>2. l = ((in[1] * Byte + in[2]) * Byte + in[3]) * Byte + in[4]
      OBVIOUS
    <3> QED BY ONLY <3>1, <3>2, BytesOfLong
  <2>2. l \in Nat
    BY <2>1, Sizes
  <2>3. uu.time_low = l
    BY DEF uuid_unpack
  <2>4. in[1] \in Octets /\ in[2] \in Octets /\ in[3] \in Octets /\ in[4] \in Octets
    BY <1>1
  <2>5. Hex8(l) = <<High(in[1]), Low(in[1]), High(in[2]), Low(in[2]),
                    High(in[3]), Low(in[3]), High(in[4]), Low(in[4])>>
    BY ONLY <2>1, <2>2, <2>4, HexOfLong
  <2> QED BY <2>3, <2>5
<1>5. ASSUME NEW a \in 1 .. 16, NEW b \in 1 .. 16, NEW w, w = in[a] * Byte + in[b]
      PROVE  Hex4(w) = <<High(in[a]), Low(in[a]), High(in[b]), Low(in[b])>>
  <2>1. in[a] \in Octets /\ in[b] \in Octets
    BY <1>1
  <2>2. w \in 0 .. Word - 1 /\ TwoBytes(w, in[a], in[b])
    BY ONLY <1>5, <2>1, BytesOfWord
  <2>3. w \in Nat /\ (w \div Byte) % Byte = in[a] /\ w % Byte = in[b]
    BY <2>2, Sizes DEF TwoBytes
  <2> QED BY ONLY <2>1, <2>3, HexOfWord
<1>6. Hex4(uu.time_mid) = <<High(in[5]), Low(in[5]), High(in[6]), Low(in[6])>>
  <2>1. uu.time_mid = in[5] * Byte + in[6]
    BY DEF uuid_unpack
  <2>2. 5 \in 1 .. 16 /\ 6 \in 1 .. 16
    OBVIOUS
  <2> HIDE DEF uu
  <2> QED BY ONLY <1>5, <2>1, <2>2
<1>7. Hex4(uu.time_hi_and_version) = <<High(in[7]), Low(in[7]), High(in[8]), Low(in[8])>>
  <2>1. uu.time_hi_and_version = in[7] * Byte + in[8]
    BY DEF uuid_unpack
  <2>2. 7 \in 1 .. 16 /\ 8 \in 1 .. 16
    OBVIOUS
  <2> HIDE DEF uu
  <2> QED BY ONLY <1>5, <2>1, <2>2
<1>8. ASSUME NEW b \in Octets PROVE b \in Nat /\ Hex2(b) = <<High(b), Low(b)>>
  <2> PICK m \in Nat \ {0} : m = Byte
    BY Sizes
  <2>1. b \in 0 .. m - 1
    BY <1>8 DEF Octets
  <2>2. b \in Nat /\ b < m
    BY ONLY <2>1, m \in Nat \ {0}
  <2>3. b % m = b
    BY ONLY <2>2, m \in Nat \ {0}, ModSmall
  <2> QED BY ONLY <1>8, <2>2, <2>3, m = Byte, HexOfByte
<1>9. /\ Hex2(uu.clock_seq \div Byte) = <<High(in[9]), Low(in[9])>>
      /\ Hex2(uu.clock_seq % Byte) = <<High(in[10]), Low(in[10])>>
  <2> PICK w : w = in[9] * Byte + in[10]
    OBVIOUS
  <2>1. TwoBytes(w, in[9], in[10]) /\ in[9] \in Octets /\ in[10] \in Octets
    BY <1>1, BytesOfWord
  <2>2. w \div Byte = in[9] /\ w % Byte = in[10]
    BY <2>1 DEF TwoBytes
  <2>3. uu.clock_seq = w
    BY DEF uuid_unpack
  <2> QED BY <1>8, <2>1, <2>2, <2>3
<1>10. \A k \in 1 .. 6 : uu.node[k] = in[10 + k]
  <2> PICK ten \in Nat, six \in Nat : ten = 10 /\ six = 6
    OBVIOUS
  <2>1. in \in Row(Octets, ten + six) /\ 16 = ten + six /\ 11 = ten + 1
    BY DEF Uuids
  <2>2. Places(in, SubSeq(in, ten + 1, ten + six), ten, six)
    BY ONLY <2>1, ten \in Nat, six \in Nat, RowPart
  <2>3. uu.node = SubSeq(in, ten + 1, ten + six)
    BY <2>1 DEF uuid_unpack
  <2> QED BY <2>2, <2>3 DEF Places
<1>11. ASSUME NEW k \in 1 .. 6 PROVE Hex2(uu.node[k]) = <<High(in[10 + k]), Low(in[10 + k])>>
  BY <1>1, <1>8, <1>10
<1>12. PICK c1, c2, c3, c4, c5, c6, c7, c8, c9, c10, c11, c12, c13, c14, c15, c16 :
      /\ c1 = Hex8(uu.time_low) /\ c2 = c1 \o <<Dash>>
      /\ c3 = c2 \o Hex4(uu.time_mid) /\ c4 = c3 \o <<Dash>>
      /\ c5 = c4 \o Hex4(uu.time_hi_and_version) /\ c6 = c5 \o <<Dash>>
      /\ c7 = c6 \o Hex2(uu.clock_seq \div Byte) /\ c8 = c7 \o Hex2(uu.clock_seq % Byte)
      /\ c9 = c8 \o <<Dash>> /\ c10 = c9 \o Hex2(uu.node[1]) /\ c11 = c10 \o Hex2(uu.node[2])
      /\ c12 = c11 \o Hex2(uu.node[3]) /\ c13 = c12 \o Hex2(uu.node[4])
      /\ c14 = c13 \o Hex2(uu.node[5]) /\ c15 = c14 \o Hex2(uu.node[6]) /\ c16 = c15
  OBVIOUS
<1>13. uuid_unparse(in) = c16
  BY ONLY <1>12 DEF uuid_unparse
<1>14. PICK h1, l1, h2, l2, h3, l3, h4, l4, h5, l5, h6, l6, h7, l7, h8, l8, h9, l9, h10, l10,
            h11, l11, h12, l12, h13, l13, h14, l14, h15, l15, h16, l16 :
      /\ h1 = High(in[1]) /\ l1 = Low(in[1]) /\ h2 = High(in[2]) /\ l2 = Low(in[2])
      /\ h3 = High(in[3]) /\ l3 = Low(in[3]) /\ h4 = High(in[4]) /\ l4 = Low(in[4])
      /\ h5 = High(in[5]) /\ l5 = Low(in[5]) /\ h6 = High(in[6]) /\ l6 = Low(in[6])
      /\ h7 = High(in[7]) /\ l7 = Low(in[7]) /\ h8 = High(in[8]) /\ l8 = Low(in[8])
      /\ h9 = High(in[9]) /\ l9 = Low(in[9]) /\ h10 = High(in[10]) /\ l10 = Low(in[10])
      /\ h11 = High(in[11]) /\ l11 = Low(in[11]) /\ h12 = High(in[12]) /\ l12 = Low(in[12])
      /\ h13 = High(in[13]) /\ l13 = Low(in[13]) /\ h14 = High(in[14]) /\ l14 = Low(in[14])
      /\ h15 = High(in[15]) /\ l15 = Low(in[15]) /\ h16 = High(in[16]) /\ l16 = Low(in[16])
  OBVIOUS
<1>15. PICK y : y = <<h1, l1, h2, l2, h3, l3, h4, l4, Dash, h5, l5, h6, l6, Dash, h7, l7, h8, l8, Dash,
                      h9, l9, h10, l10, Dash, h11, l11, h12, l12, h13, l13, h14, l14, h15, l15,
                      h16, l16>>
  OBVIOUS
<1>16. y = Shown(in)
  BY ONLY <1>14, <1>15 DEF Shown
<1>17. /\ h1 \in Marks /\ l1 \in Marks /\ h2 \in Marks /\ l2 \in Marks /\ h3 \in Marks /\ l3 \in Marks
       /\ h4 \in Marks /\ l4 \in Marks /\ h5 \in Marks /\ l5 \in Marks /\ h6 \in Marks /\ l6 \in Marks
       /\ h7 \in Marks /\ l7 \in Marks /\ h8 \in Marks /\ l8 \in Marks /\ h9 \in Marks /\ l9 \in Marks
       /\ h10 \in Marks /\ l10 \in Marks /\ h11 \in Marks /\ l11 \in Marks
       /\ h12 \in Marks /\ l12 \in Marks /\ h13 \in Marks /\ l13 \in Marks
       /\ h14 \in Marks /\ l14 \in Marks /\ h15 \in Marks /\ l15 \in Marks
       /\ h16 \in Marks /\ l16 \in Marks
  BY ONLY <1>2, <1>14
<1>18. y \in Row(Marks, 36)
  BY ONLY <1>3, <1>15, <1>17 DEF Row
<1>19. /\ y[1] = h1 /\ y[2] = l1 /\ y[3] = h2 /\ y[4] = l2 /\ y[5] = h3 /\ y[6] = l3
       /\ y[7] = h4 /\ y[8] = l4 /\ y[9] = Dash /\ y[10] = h5 /\ y[11] = l5 /\ y[12] = h6
       /\ y[13] = l6 /\ y[14] = Dash /\ y[15] = h7 /\ y[16] = l7 /\ y[17] = h8 /\ y[18] = l8
       /\ y[19] = Dash /\ y[20] = h9 /\ y[21] = l9 /\ y[22] = h10 /\ y[23] = l10
       /\ y[24] = Dash /\ y[25] = h11 /\ y[26] = l11 /\ y[27] = h12 /\ y[28] = l12
       /\ y[29] = h13 /\ y[30] = l13 /\ y[31] = h14 /\ y[32] = l14 /\ y[33] = h15
       /\ y[34] = l15 /\ y[35] = h16 /\ y[36] = l16
  BY ONLY <1>15
<1>20. /\ c1 = <<h1, l1, h2, l2, h3, l3, h4, l4>> /\ c2 = c1 \o <<Dash>>
       /\ c3 = c2 \o <<h5, l5, h6, l6>> /\ c4 = c3 \o <<Dash>>
       /\ c5 = c4 \o <<h7, l7, h8, l8>> /\ c6 = c5 \o <<Dash>>
       /\ c7 = c6 \o <<h9, l9>> /\ c8 = c7 \o <<h10, l10>> /\ c9 = c8 \o <<Dash>>
       /\ c10 = c9 \o <<h11, l11>> /\ c11 = c10 \o <<h12, l12>> /\ c12 = c11 \o <<h13, l13>>
       /\ c13 = c12 \o <<h14, l14>> /\ c14 = c13 \o <<h15, l15>> /\ c15 = c14 \o <<h16, l16>>
  <2>1. \A k \in 1 .. 6 : Hex2(uu.node[k]) = <<High(in[10 + k]), Low(in[10 + k])>>
    BY <1>11
  <2>2. /\ Hex2(uu.node[1]) = <<h11, l11>> /\ Hex2(uu.node[2]) = <<h12, l12>>
        /\ Hex2(uu.node[3]) = <<h13, l13>> /\ Hex2(uu.node[4]) = <<h14, l14>>
        /\ Hex2(uu.node[5]) = <<h15, l15>> /\ Hex2(uu.node[6]) = <<h16, l16>>
    <3> HIDE DEF uu
    <3> QED BY ONLY <2>1, <1>14
  <2> HIDE DEF uu
  <2> QED BY ONLY <1>4, <1>6, <1>7, <1>9, <1>12, <1>14, <2>2
<1>21. Begins(c1, 8, y)
  <2>1. c1 \in Row(Marks, 8)
    <3>1. /\ h1 \in Marks /\ l1 \in Marks /\ h2 \in Marks /\ l2 \in Marks
          /\ h3 \in Marks /\ l3 \in Marks /\ h4 \in Marks /\ l4 \in Marks
      BY ONLY <1>17
    <3>2. c1 = <<h1, l1, h2, l2, h3, l3, h4, l4>>
      BY ONLY <1>20
    <3> QED BY ONLY <3>1, <3>2 DEF Row
  <2>2. \A i \in 1 .. 8 : i \in {1, 2, 3, 4, 5, 6, 7, 8}
    OBVIOUS
  <2>3. /\ c1[1] = y[1] /\ c1[2] = y[2] /\ c1[3] = y[3] /\ c1[4] = y[4] /\ c1[5] = y[5]
        /\ c1[6] = y[6] /\ c1[7] = y[7] /\ c1[8] = y[8]
    BY ONLY <1>19, <1>20
  <2> QED BY ONLY <2>1, <2>2, <2>3 DEF Begins
<1>22. Begins(c2, 9, y)
  <2>1. 9 = 8 + 1 /\ 8 \in Nat /\ y[9] = Dash
    BY ONLY <1>19
  <2>2. Begins(c1 \o <<Dash>>, 9, y)
    BY ONLY <1>21, <1>3, <2>1, OneMore
  <2> QED BY ONLY <1>20, <2>2
<1>23. Begins(c3, 13, y)
  <2>1. /\ y[9 + 1] = h5 /\ y[9 + 2] = l5 /\ y[9 + 3] = h6 /\ y[13] = l6
        /\ 13 = 9 + 4 /\ 9 \in Nat
    BY ONLY <1>19
  <2>2. h5 \in Marks /\ l5 \in Marks /\ h6 \in Marks /\ l6 \in Marks
    BY ONLY <1>17
  <2>3. Begins(c2 \o <<h5, l5, h6, l6>>, 13, y)
    BY ONLY <1>22, <2>1, <2>2, FourMore
  <2> QED BY ONLY <1>20, <2>3
<1>24. Begins(c4, 14, y)
  <2>1. 14 = 13 + 1 /\ 13 \in Nat /\ y[14] = Dash
    BY ONLY <1>19
  <2>2. Begins(c3 \o <<Dash>>, 14, y)
    BY ONLY <1>23, <1>3, <2>1, OneMore
  <2> QED BY ONLY <1>20, <2>2
<1>25. Begins(c5, 18, y)
  <2>1. /\ y[14 + 1] = h7 /\ y[14 + 2] = l7 /\ y[14 + 3] = h8 /\ y[18] = l8
        /\ 18 = 14 + 4 /\ 14 \in Nat
    BY ONLY <1>19
  <2>2. h7 \in Marks /\ l7 \in Marks /\ h8 \in Marks /\ l8 \in Marks
    BY ONLY <1>17
  <2>3. Begins(c4 \o <<h7, l7, h8, l8>>, 18, y)
    BY ONLY <1>24, <2>1, <2>2, FourMore
  <2> QED BY ONLY <1>20, <2>3
<1>26. Begins(c6, 19, y)
  <2>1. 19 = 18 + 1 /\ 18 \in Nat /\ y[19] = Dash
    BY ONLY <1>19
  <2>2. Begins(c5 \o <<Dash>>, 19, y)
    BY ONLY <1>25, <1>3, <2>1, OneMore
  <2> QED BY ONLY <1>20, <2>2
<1>27. Begins(c7, 21, y)
  <2>1. 21 = 19 + 2 /\ 19 \in Nat /\ y[19 + 1] = h9 /\ y[21] = l9
    BY ONLY <1>19
  <2>2. h9 \in Marks /\ l9 \in Marks
    BY ONLY <1>17
  <2>3. Begins(c6 \o <<h9, l9>>, 21, y)
    BY ONLY <1>26, <2>1, <2>2, TwoMore
  <2> QED BY ONLY <1>20, <2>3
<1>28. Begins(c8, 23, y)
  <2>1. 23 = 21 + 2 /\ 21 \in Nat /\ y[21 + 1] = h10 /\ y[23] = l10
    BY ONLY <1>19
  <2>2. h10 \in Marks /\ l10 \in Marks
    BY ONLY <1>17
  <2>3. Begins(c7 \o <<h10, l10>>, 23, y)
    BY ONLY <1>27, <2>1, <2>2, TwoMore
  <2> QED BY ONLY <1>20, <2>3
<1>29. Begins(c9, 24, y)
  <2>1. 24 = 23 + 1 /\ 23 \in Nat /\ y[24] = Dash
    BY ONLY <1>19
  <2>2. Begins(c8 \o <<Dash>>, 24, y)
    BY ONLY <1>28, <1>3, <2>1, OneMore
  <2> QED BY ONLY <1>20, <2>2
<1>30. Begins(c10, 26, y)
  <2>1. 26 = 24 + 2 /\ 24 \in Nat /\ y[24 + 1] = h11 /\ y[26] = l11
    BY ONLY <1>19
  <2>2. h11 \in Marks /\ l11 \in Marks
    BY ONLY <1>17
  <2>3. Begins(c9 \o <<h11, l11>>, 26, y)
    BY ONLY <1>29, <2>1, <2>2, TwoMore
  <2> QED BY ONLY <1>20, <2>3
<1>31. Begins(c11, 28, y)
  <2>1. 28 = 26 + 2 /\ 26 \in Nat /\ y[26 + 1] = h12 /\ y[28] = l12
    BY ONLY <1>19
  <2>2. h12 \in Marks /\ l12 \in Marks
    BY ONLY <1>17
  <2>3. Begins(c10 \o <<h12, l12>>, 28, y)
    BY ONLY <1>30, <2>1, <2>2, TwoMore
  <2> QED BY ONLY <1>20, <2>3
<1>32. Begins(c12, 30, y)
  <2>1. 30 = 28 + 2 /\ 28 \in Nat /\ y[28 + 1] = h13 /\ y[30] = l13
    BY ONLY <1>19
  <2>2. h13 \in Marks /\ l13 \in Marks
    BY ONLY <1>17
  <2>3. Begins(c11 \o <<h13, l13>>, 30, y)
    BY ONLY <1>31, <2>1, <2>2, TwoMore
  <2> QED BY ONLY <1>20, <2>3
<1>33. Begins(c13, 32, y)
  <2>1. 32 = 30 + 2 /\ 30 \in Nat /\ y[30 + 1] = h14 /\ y[32] = l14
    BY ONLY <1>19
  <2>2. h14 \in Marks /\ l14 \in Marks
    BY ONLY <1>17
  <2>3. Begins(c12 \o <<h14, l14>>, 32, y)
    BY ONLY <1>32, <2>1, <2>2, TwoMore
  <2> QED BY ONLY <1>20, <2>3
<1>34. Begins(c14, 34, y)
  <2>1. 34 = 32 + 2 /\ 32 \in Nat /\ y[32 + 1] = h15 /\ y[34] = l15
    BY ONLY <1>19
  <2>2. h15 \in Marks /\ l15 \in Marks
    BY ONLY <1>17
  <2>3. Begins(c13 \o <<h15, l15>>, 34, y)
    BY ONLY <1>33, <2>1, <2>2, TwoMore
  <2> QED BY ONLY <1>20, <2>3
<1>35. Begins(c15, 36, y)
  <2>1. 36 = 34 + 2 /\ 34 \in Nat /\ y[34 + 1] = h16 /\ y[36] = l16
    BY ONLY <1>19
  <2>2. h16 \in Marks /\ l16 \in Marks
    BY ONLY <1>17
  <2>3. Begins(c14 \o <<h16, l16>>, 36, y)
    BY ONLY <1>34, <2>1, <2>2, TwoMore
  <2> QED BY ONLY <1>20, <2>3
<1>36. c15 = y
  BY ONLY <1>18, <1>35 DEF Begins, Row
<1>37. c16 = c15
  BY <1>12
<1> QED BY ONLY <1>13, <1>16, <1>18, <1>36, <1>37

-----------------------------------------------------------------------------
\* Two digits of a text are a byte.
LEMMA PairIsByte ==
  ASSUME NEW t, NEW i, NEW k, k = i + 1, t[i] \in HexDigits, t[k] \in HexDigits
  PROVE  \E b \in Octets : b = Number2(t, i) /\ High(b) = t[i] /\ Low(b) = t[k]
<1>1. Number2(t, i) = t[i] * Nibble + t[k]
  BY DEF Number2
<1> QED BY <1>1, ByteOfDigits

\* The four bytes of time_low, read two and two.
LEMMA LongIsTwoWords ==
  ASSUME NEW p \in Octets, NEW q \in Octets, NEW r \in Octets, NEW s \in Octets
  PROVE  (p * Byte + q) * Word + (r * Byte + s) = ((p * Byte + q) * Byte + r) * Byte + s
<1> PICK b \in Nat, w \in Nat : b = Byte /\ w = Word /\ w = b * b
  BY Sizes DEF Word
<1>1. p \in Nat /\ q \in Nat /\ r \in Nat /\ s \in Nat
  BY DEF Octets
<1> PICK x \in Nat, y \in Nat : x = p * b + q /\ y = r * b
  BY ONLY <1>1, b \in Nat
<1>2. x * w = (x * b) * b
  BY ONLY x \in Nat, b \in Nat, w \in Nat, w = b * b
<1>3. (x * b + r) * b = (x * b) * b + r * b
  BY ONLY x \in Nat, b \in Nat, <1>1
<1> PICK u \in Nat : u = (x * b) * b
  BY ONLY x \in Nat, b \in Nat
<1>4. x * w + (y + s) = (x * b + r) * b + s
  BY ONLY <1>1, <1>2, <1>3, u \in Nat, y \in Nat, u = (x * b) * b, y = r * b
<1> QED BY <1>4

\* A text that has the form of a UUID parses to the bytes that it shows.
LEMMA FormShows ==
  ASSUME NEW t \in Seq(Int), HasForm(t)
  PROVE  \E in \in Uuids : t = Shown(in) /\ uuid_parse(t) = [ret |-> 0, uu |-> in]
<1>1. t \in Row(Int, 36)
  BY SeqIsRow DEF HasForm
<1>2. /\ \A i \in 1 .. 36 : i \notin DashPlaces => t[i] \in HexDigits
      /\ t[9] = Dash /\ t[14] = Dash /\ t[19] = Dash /\ t[24] = Dash
  BY DEF HasForm, HexDigits, DashPlaces
<1>3. /\ t[1] \in HexDigits /\ t[2] \in HexDigits /\ t[3] \in HexDigits /\ t[4] \in HexDigits
      /\ t[5] \in HexDigits /\ t[6] \in HexDigits /\ t[7] \in HexDigits /\ t[8] \in HexDigits
      /\ t[10] \in HexDigits /\ t[11] \in HexDigits /\ t[12] \in HexDigits /\ t[13] \in HexDigits
      /\ t[15] \in HexDigits /\ t[16] \in HexDigits /\ t[17] \in HexDigits /\ t[18] \in HexDigits
      /\ t[20] \in HexDigits /\ t[21] \in HexDigits /\ t[22] \in HexDigits /\ t[23] \in HexDigits
      /\ t[25] \in HexDigits /\ t[26] \in HexDigits /\ t[27] \in HexDigits /\ t[28] \in HexDigits
      /\ t[29] \in HexDigits /\ t[30] \in HexDigits /\ t[31] \in HexDigits /\ t[32] \in HexDigits
      /\ t[33] \in HexDigits /\ t[34] \in HexDigits /\ t[35] \in HexDigits /\ t[36] \in HexDigits
  <2> HIDE DEF HexDigits
  <2> QED BY ONLY <1>2 DEF DashPlaces
<1> PICK b1 \in Octets : b1 = Number2(t, 1) /\ High(b1) = t[1] /\ Low(b1) = t[2]
  <2>1. t[1] \in HexDigits /\ t[2] \in HexDigits /\ 2 = 1 + 1
    BY ONLY <1>3
  <2> QED BY ONLY <2>1, PairIsByte
<1> PICK b2 \in Octets : b2 = Number2(t, 3) /\ High(b2) = t[3] /\ Low(b2) = t[4]
  <2>1. t[3] \in HexDigits /\ t[4] \in HexDigits /\ 4 = 3 + 1
    BY ONLY <1>3
  <2> QED BY ONLY <2>1, PairIsByte
<1> PICK b3 \in Octets : b3 = Number2(t, 5) /\ High(b3) = t[5] /\ Low(b3) = t[6]
  <2>1. t[5] \in HexDigits /\ t[6] \in HexDigits /\ 6 = 5 + 1
    BY ONLY <1>3
  <2> QED BY ONLY <2>1, PairIsByte
<1> PICK b4 \in Octets : b4 = Number2(t, 7) /\ High(b4) = t[7] /\ Low(b4) = t[8]
  <2>1. t[7] \in HexDigits /\ t[8] \in HexDigits /\ 8 = 7 + 1
    BY ONLY <1>3
  <2> QED BY ONLY <2>1, PairIsByte
<1> PICK b5 \in Octets : b5 = Number2(t, 10) /\ High(b5) = t[10] /\ Low(b5) = t[11]
  <2>1. t[10] \in HexDigits /\ t[11] \in HexDigits /\ 11 = 10 + 1
    BY ONLY <1>3
  <2> QED BY ONLY <2>1, PairIsByte
<1> PICK b6 \in Octets : b6 = Number2(t, 12) /\ High(b6) = t[12] /\ Low(b6) = t[13]
  <2>1. t[12] \in HexDigits /\ t[13] \in HexDigits /\ 13 = 12 + 1
    BY ONLY <1>3
  <2> QED BY ONLY <2>1, PairIsByte
<1> PICK b7 \in Octets : b7 = Number2(t, 15) /\ High(b7) = t[15] /\ Low(b7) = t[16]
  <2>1. t[15] \in HexDigits /\ t[16] \in HexDigits /\ 16 = 15 + 1
    BY ONLY <1>3
  <2> QED BY ONLY <2>1, PairIsByte
<1> PICK b8 \in Octets : b8 = Number2(t, 17) /\ High(b8) = t[17] /\ Low(b8) = t[18]
  <2>1. t[17] \in HexDigits /\ t[18] \in HexDigits /\ 18 = 17 + 1
    BY ONLY <1>3
  <2> QED BY ONLY <2>1, PairIsByte
<1> PICK b9 \in Octets : b9 = Number2(t, 20) /\ High(b9) = t[20] /\ Low(b9) = t[21]
  <2>1. t[20] \in HexDigits /\ t[21] \in HexDigits /\ 21 = 20 + 1
    BY ONLY <1>3
  <2> QED BY ONLY <2>1, PairIsByte
<1> PICK b10 \in Octets : b10 = Number2(t, 22) /\ High(b10) = t[22] /\ Low(b10) = t[23]
  <2>1. t[22] \in HexDigits /\ t[23] \in HexDigits /\ 23 = 22 + 1
    BY ONLY <1>3
  <2> QED BY ONLY <2>1, PairIsByte
<1> PICK b11 \in Octets : b11 = Number2(t, 25) /\ High(b11) = t[25] /\ Low(b11) = t[26]
  <2>1. t[25] \in HexDigits /\ t[26] \in HexDigits /\ 26 = 25 + 1
    BY ONLY <1>3
  <2> QED BY ONLY <2>1, PairIsByte
<1> PICK b12 \in Octets : b12 = Number2(t, 27) /\ High(b12) = t[27] /\ Low(b12) = t[28]
  <2>1. t[27] \in HexDigits /\ t[28] \in HexDigits /\ 28 = 27 + 1
    BY ONLY <1>3
  <2> QED BY ONLY <2>1, PairIsByte
<1> PICK b13 \in Octets : b13 = Number2(t, 29) /\ High(b13) = t[29] /\ Low(b13) = t[30]
  <2>1. t[29] \in HexDigits /\ t[30] \in HexDigits /\ 30 = 29 + 1
    BY ONLY <1>3
  <2> QED BY ONLY <2>1, PairIsByte
<1> PICK b14 \in Octets : b14 = Number2(t, 31) /\ High(b14) = t[31] /\ Low(b14) = t[32]
  <2>1. t[31] \in HexDigits /\ t[32] \in HexDigits /\ 32 = 31 + 1
    BY ONLY <1>3
  <2> QED BY ONLY <2>1, PairIsByte
<1> PICK b15 \in Octets : b15 = Number2(t, 33) /\ High(b15) = t[33] /\ Low(b15) = t[34]
  <2>1. t[33] \in HexDigits /\ t[34] \in HexDigits /\ 34 = 33 + 1
    BY ONLY <1>3
  <2> QED BY ONLY <2>1, PairIsByte
<1> PICK b16 \in Octets : b16 = Number2(t, 35) /\ High(b16) = t[35] /\ Low(b16) = t[36]
  <2>1. t[35] \in HexDigits /\ t[36] \in HexDigits /\ 36 = 35 + 1
    BY ONLY <1>3
  <2> QED BY ONLY <2>1, PairIsByte
<1> PICK in : in = <<b1, b2, b3, b4, b5, b6, b7, b8, b9, b10, b11, b12, b13, b14, b15, b16>>
  OBVIOUS
<1>4. in[1] = b1 /\ in[2] = b2 /\ in[3] = b3 /\ in[4] = b4 /\ in[5] = b5 /\ in[6] = b6 /\ in[7] = b7 /\ in[8] = b8
      /\ in[9] = b9 /\ in[10] = b10 /\ in[11] = b11 /\ in[12] = b12 /\ in[13] = b13 /\ in[14] = b14 /\ in[15] = b15 /\ in[16] = b16
  BY ONLY in = <<b1, b2, b3, b4, b5, b6, b7, b8, b9, b10, b11, b12, b13, b14, b15, b16>>
<1>5. in \in Uuids
  BY DEF Uuids, Row
<1> PICK s : s = Shown(in)
  OBVIOUS
<1>6. /\ s[1] = High(b1) /\ s[2] = Low(b1) /\ s[3] = High(b2) /\ s[4] = Low(b2)
      /\ s[5] = High(b3) /\ s[6] = Low(b3) /\ s[7] = High(b4) /\ s[8] = Low(b4)
      /\ s[10] = High(b5) /\ s[11] = Low(b5) /\ s[12] = High(b6) /\ s[13] = Low(b6)
      /\ s[15] = High(b7) /\ s[16] = Low(b7) /\ s[17] = High(b8) /\ s[18] = Low(b8)
      /\ s[20] = High(b9) /\ s[21] = Low(b9) /\ s[22] = High(b10) /\ s[23] = Low(b10)
      /\ s[25] = High(b11) /\ s[26] = Low(b11) /\ s[27] = High(b12) /\ s[28] = Low(b12)
      /\ s[29] = High(b13) /\ s[30] = Low(b13) /\ s[31] = High(b14) /\ s[32] = Low(b14)
      /\ s[33] = High(b15) /\ s[34] = Low(b15) /\ s[35] = High(b16) /\ s[36] = Low(b16)
      /\ s[9] = Dash /\ s[14] = Dash /\ s[19] = Dash /\ s[24] = Dash
  BY ONLY <1>4, s = Shown(in) DEF Shown
<1>7. s \in Row(Marks, 36)
  BY <1>5, UnparseShows
<1>8. /\ s[1] = t[1] /\ s[2] = t[2] /\ s[3] = t[3] /\ s[4] = t[4] /\ s[5] = t[5] /\ s[6] = t[6]
      /\ s[7] = t[7] /\ s[8] = t[8] /\ s[9] = t[9] /\ s[10] = t[10] /\ s[11] = t[11] /\ s[12] = t[12]
      /\ s[13] = t[13] /\ s[14] = t[14] /\ s[15] = t[15] /\ s[16] = t[16] /\ s[17] = t[17] /\ s[18] = t[18]
      /\ s[19] = t[19] /\ s[20] = t[20] /\ s[21] = t[21] /\ s[22] = t[22] /\ s[23] = t[23] /\ s[24] = t[24]
      /\ s[25] = t[25] /\ s[26] = t[26] /\ s[27] = t[27] /\ s[28] = t[28] /\ s[29] = t[29] /\ s[30] = t[30]
      /\ s[31] = t[31] /\ s[32] = t[32] /\ s[33] = t[33] /\ s[34] = t[34] /\ s[35] = t[35] /\ s[36] = t[36]
  BY ONLY <1>6, <1>2, High(b1) = t[1], Low(b1) = t[2], High(b2) = t[3], Low(b2) = t[4], High(b3) = t[5], Low(b3) = t[6], High(b4) = t[7], Low(b4) = t[8]
    , High(b5) = t[10], Low(b5) = t[11], High(b6) = t[12], Low(b6) = t[13], High(b7) = t[15], Low(b7) = t[16], High(b8) = t[17], Low(b8) = t[18]
    , High(b9) = t[20], Low(b9) = t[21], High(b10) = t[22], Low(b10) = t[23], High(b11) = t[25], Low(b11) = t[26], High(b12) = t[27], Low(b12) = t[28]
    , High(b13) = t[29], Low(b13) = t[30], High(b14) = t[31], Low(b14) = t[32], High(b15) = t[33], Low(b15) = t[34], High(b16) = t[35], Low(b16) = t[36]
<1>9. \A i \in 1 .. 36 : s[i] = t[i]
  <2>1. \A i \in 1 .. 36 : i \in 1 .. 9 \/ i \in 10 .. 18 \/ i \in 19 .. 27 \/ i \in 28 .. 36
    OBVIOUS
  <2>2. \A i \in 1 .. 9 : s[i] = t[i]
    <3>1. \A i \in 1 .. 9 : i \in {1, 2, 3, 4, 5, 6, 7, 8, 9}
      OBVIOUS
    <3> QED BY ONLY <1>8, <3>1, ZenonT(40)
  <2>3. \A i \in 10 .. 18 : s[i] = t[i]
    <3>1. \A i \in 10 .. 18 : i \in {10, 11, 12, 13, 14, 15, 16, 17, 18}
      OBVIOUS
    <3> QED BY ONLY <1>8, <3>1
  <2>4. \A i \in 19 .. 27 : s[i] = t[i]
    <3>1. \A i \in 19 .. 27 : i \in {19, 20, 21, 22, 23, 24, 25, 26, 27}
      OBVIOUS
    <3> QED BY ONLY <1>8, <3>1
  <2>5. \A i \in 28 .. 36 : s[i] = t[i]
    <3>1. \A i \in 28 .. 36 : i \in {28, 29, 30, 31, 32, 33, 34, 35, 36}
      OBVIOUS
    <3> QED BY ONLY <1>8, <3>1
  <2> QED BY ONLY <2>1, <2>2, <2>3, <2>4, <2>5
<1>10. s = t
  <2>1. s = [i \in 1 .. 36 |-> s[i]]
    BY ONLY <1>7 DEF Row
  <2>2. t = [i \in 1 .. 36 |-> t[i]]
    BY ONLY <1>1 DEF Row
  <2>3. [i \in 1 .. 36 |-> s[i]] = [i \in 1 .. 36 |-> t[i]]
    BY ONLY <1>9
  <2> QED BY ONLY <2>1, <2>2, <2>3
<1> PICK uu : uu = [time_low |-> Number8(t, 1), time_mid |-> Number4(t, 10),
                    time_hi_and_version |-> Number4(t, 15), clock_seq |-> Number4(t, 20),
                    node |-> [i \in NodeBytes |-> Number2(t, 23 + 2 * i)]]
  OBVIOUS
<1>11. uuid_parse(t) = [ret |-> 0, uu |-> uuid_pack(uu)]
  BY DEF uuid_parse
<1>12. uuid_unpack(in) = uu
  <2>1. Number8(t, 1) = ((b1 * Byte + b2) * Byte + b3) * Byte + b4
    <3>1. Number8(t, 1) = (b1 * Byte + b2) * Word + (b3 * Byte + b4)
      BY DEF Number8, Number4
    <3>2. b1 \in Octets /\ b2 \in Octets /\ b3 \in Octets /\ b4 \in Octets
      OBVIOUS
    <3>3. (b1 * Byte + b2) * Word + (b3 * Byte + b4)
             = ((b1 * Byte + b2) * Byte + b3) * Byte + b4
      BY ONLY <3>2, LongIsTwoWords
    <3> QED BY ONLY <3>1, <3>3
  <2>2. /\ Number4(t, 10) = b5 * Byte + b6 /\ Number4(t, 15) = b7 * Byte + b8
        /\ Number4(t, 20) = b9 * Byte + b10
    BY DEF Number4
  <2>3. SubSeq(in, 11, 16) = [i \in NodeBytes |-> Number2(t, 23 + 2 * i)]
    <3> PICK ten \in Nat, six \in Nat : ten = 10 /\ six = 6
      OBVIOUS
    <3>1. in \in Row(Octets, ten + six) /\ 16 = ten + six /\ 11 = ten + 1
      BY <1>5 DEF Uuids
    <3> PICK n : n = SubSeq(in, ten + 1, ten + six)
      OBVIOUS
    <3>2. n \in Row(Octets, six) /\ Places(in, n, ten, six)
      BY ONLY <3>1, ten \in Nat, six \in Nat, RowPart, n = SubSeq(in, ten + 1, ten + six)
    <3>3. n[1] = b11 /\ n[2] = b12 /\ n[3] = b13 /\ n[4] = b14 /\ n[5] = b15 /\ n[6] = b16
      <4>1. \A i \in 1 .. 6 : in[10 + i] = n[i]
        BY ONLY <3>2, ten = 10, six = 6 DEF Places
      <4> QED BY ONLY <4>1, <1>4
    <3>4. \A i \in 1 .. 6 : n[i] = Number2(t, 23 + 2 * i)
      <4>1. \A i \in 1 .. 6 : i \in {1, 2, 3, 4, 5, 6}
        OBVIOUS
      <4>2. /\ n[1] = Number2(t, 23 + 2 * 1) /\ n[2] = Number2(t, 23 + 2 * 2)
            /\ n[3] = Number2(t, 23 + 2 * 3) /\ n[4] = Number2(t, 23 + 2 * 4)
            /\ n[5] = Number2(t, 23 + 2 * 5) /\ n[6] = Number2(t, 23 + 2 * 6)
        BY <3>3
      <4> QED BY ONLY <4>1, <4>2
    <3>5. n = [i \in 1 .. 6 |-> Number2(t, 23 + 2 * i)]
      BY ONLY <3>2, <3>4, six = 6 DEF Row
    <3> QED BY ONLY <3>1, <3>5, n = SubSeq(in, ten + 1, ten + six) DEF NodeBytes
  <2> QED BY ONLY <1>4, <2>1, <2>2, <2>3, uu = [time_low |-> Number8(t, 1), time_mid |-> Number4(t, 10),
                    time_hi_and_version |-> Number4(t, 15), clock_seq |-> Number4(t, 20),
                    node |-> [i \in NodeBytes |-> Number2(t, 23 + 2 * i)]] DEF uuid_unpack
<1>13. uuid_pack(uu) = in
  BY <1>5, <1>12, UnpackPack
<1> QED BY <1>5, <1>10, <1>11, <1>13

\* Bytes are known by their text.
LEMMA ShownOnce ==
  ASSUME NEW u \in Uuids, NEW v \in Uuids, Shown(u) = Shown(v)
  PROVE  u = v
<1> PICK s : s = Shown(u) /\ s = Shown(v)
  OBVIOUS
<1>1. /\ s[1] = High(u[1]) /\ s[2] = Low(u[1]) /\ s[3] = High(u[2]) /\ s[4] = Low(u[2])
      /\ s[5] = High(u[3]) /\ s[6] = Low(u[3]) /\ s[7] = High(u[4]) /\ s[8] = Low(u[4])
      /\ s[10] = High(u[5]) /\ s[11] = Low(u[5]) /\ s[12] = High(u[6]) /\ s[13] = Low(u[6])
      /\ s[15] = High(u[7]) /\ s[16] = Low(u[7]) /\ s[17] = High(u[8]) /\ s[18] = Low(u[8])
      /\ s[20] = High(u[9]) /\ s[21] = Low(u[9]) /\ s[22] = High(u[10]) /\ s[23] = Low(u[10])
      /\ s[25] = High(u[11]) /\ s[26] = Low(u[11]) /\ s[27] = High(u[12]) /\ s[28] = Low(u[12])
      /\ s[29] = High(u[13]) /\ s[30] = Low(u[13]) /\ s[31] = High(u[14]) /\ s[32] = Low(u[14])
      /\ s[33] = High(u[15]) /\ s[34] = Low(u[15]) /\ s[35] = High(u[16]) /\ s[36] = Low(u[16])
  BY ONLY s = Shown(u) DEF Shown
<1>2. /\ s[1] = High(v[1]) /\ s[2] = Low(v[1]) /\ s[3] = High(v[2]) /\ s[4] = Low(v[2])
      /\ s[5] = High(v[3]) /\ s[6] = Low(v[3]) /\ s[7] = High(v[4]) /\ s[8] = Low(v[4])
      /\ s[10] = High(v[5]) /\ s[11] = Low(v[5]) /\ s[12] = High(v[6]) /\ s[13] = Low(v[6])
      /\ s[15] = High(v[7]) /\ s[16] = Low(v[7]) /\ s[17] = High(v[8]) /\ s[18] = Low(v[8])
      /\ s[20] = High(v[9]) /\ s[21] = Low(v[9]) /\ s[22] = High(v[10]) /\ s[23] = Low(v[10])
      /\ s[25] = High(v[11]) /\ s[26] = Low(v[11]) /\ s[27] = High(v[12]) /\ s[28] = Low(v[12])
      /\ s[29] = High(v[13]) /\ s[30] = Low(v[13]) /\ s[31] = High(v[14]) /\ s[32] = Low(v[14])
      /\ s[33] = High(v[15]) /\ s[34] = Low(v[15]) /\ s[35] = High(v[16]) /\ s[36] = Low(v[16])
  BY ONLY s = Shown(v) DEF Shown
<1>3. \A k \in 1 .. 16 : u[k] \in Octets /\ v[k] \in Octets
  BY DEF Uuids, Row
<1>4. \A k \in 1 .. 16 : High(u[k]) = High(v[k]) /\ Low(u[k]) = Low(v[k]) => u[k] = v[k]
  <2> TAKE k \in 1 .. 16
  <2>1. /\ High(u[k]) * Nibble + Low(u[k]) = u[k]
        /\ High(v[k]) * Nibble + Low(v[k]) = v[k]
    BY <1>3, DigitsOfByte
  <2> QED BY ONLY <2>1
<1>5. ASSUME NEW k \in 1 .. 16 PROVE High(u[k]) = High(v[k]) /\ Low(u[k]) = Low(v[k])
  <2>1. k \in {1, 2, 3, 4, 5, 6, 7, 8, 9, 10, 11, 12, 13, 14, 15, 16}
    OBVIOUS
  <2>2. /\ High(u[1]) = High(v[1]) /\ Low(u[1]) = Low(v[1])
        /\ High(u[2]) = High(v[2]) /\ Low(u[2]) = Low(v[2])
        /\ High(u[3]) = High(v[3]) /\ Low(u[3]) = Low(v[3])
        /\ High(u[4]) = High(v[4]) /\ Low(u[4]) = Low(v[4])
        /\ High(u[5]) = High(v[5]) /\ Low(u[5]) = Low(v[5])
        /\ High(u[6]) = High(v[6]) /\ Low(u[6]) = Low(v[6])
        /\ High(u[7]) = High(v[7]) /\ Low(u[7]) = Low(v[7])
        /\ High(u[8]) = High(v[8]) /\ Low(u[8]) = Low(v[8])
        /\ High(u[9]) = High(v[9]) /\ Low(u[9]) = Low(v[9])
        /\ High(u[10]) = High(v[10]) /\ Low(u[10]) = Low(v[10])
        /\ High(u[11]) = High(v[11]) /\ Low(u[11]) = Low(v[11])
        /\ High(u[12]) = High(v[12]) /\ Low(u[12]) = Low(v[12])
        /\ High(u[13]) = High(v[13]) /\ Low(u[13]) = Low(v[13])
        /\ High(u[14]) = High(v[14]) /\ Low(u[14]) = Low(v[14])
        /\ High(u[15]) = High(v[15]) /\ Low(u[15]) = Low(v[15])
        /\ High(u[16]) = High(v[16]) /\ Low(u[16]) = Low(v[16])
    BY ONLY <1>1, <1>2
  <2> QED BY ONLY <2>1, <2>2
<1>6. \A k \in 1 .. 16 : u[k] = v[k]
  BY <1>4, <1>5
<1>7. u \in Row(Octets, 16) /\ v \in Row(Octets, 16)
  BY DEF Uuids
<1> QED BY ONLY <1>6, <1>7 DEF Row

\* The text of a UUID has the form that is parsed.
LEMMA ShownHasForm ==
  ASSUME NEW u \in Uuids
  PROVE  Shown(u) \in Seq(Int) /\ Len(Shown(u)) = 36 /\ HasForm(Shown(u))
<1> PICK s : s = Shown(u)
  OBVIOUS
<1>1. s \in Row(Marks, 36)
  BY UnparseShows
<1>2. s \in Seq(Marks) /\ Len(s) = 36
  <2>1. 36 \in Nat
    OBVIOUS
  <2> QED BY ONLY <1>1, <2>1, RowIsSeq
<1>3. s \in Seq(Int)
  <2>1. Marks \subseteq Int
    BY Sizes DEF Marks
  <2>2. s \in Row(Int, 36) /\ 36 \in Nat
    BY ONLY <1>1, <2>1 DEF Row
  <2> QED BY ONLY <2>2, RowIsSeq
<1>4. \A k \in 1 .. 16 : High(u[k]) \in HexDigits /\ Low(u[k]) \in HexDigits
  <2>1. \A k \in 1 .. 16 : u[k] \in Octets
    BY DEF Uuids, Row
  <2> QED BY <2>1, DigitsOfByte
<1>5. /\ s[1] = High(u[1]) /\ s[2] = Low(u[1]) /\ s[3] = High(u[2]) /\ s[4] = Low(u[2])
      /\ s[5] = High(u[3]) /\ s[6] = Low(u[3]) /\ s[7] = High(u[4]) /\ s[8] = Low(u[4])
      /\ s[10] = High(u[5]) /\ s[11] = Low(u[5]) /\ s[12] = High(u[6]) /\ s[13] = Low(u[6])
      /\ s[15] = High(u[7]) /\ s[16] = Low(u[7]) /\ s[17] = High(u[8]) /\ s[18] = Low(u[8])
      /\ s[20] = High(u[9]) /\ s[21] = Low(u[9]) /\ s[22] = High(u[10]) /\ s[23] = Low(u[10])
      /\ s[25] = High(u[11]) /\ s[26] = Low(u[11]) /\ s[27] = High(u[12]) /\ s[28] = Low(u[12])
      /\ s[29] = High(u[13]) /\ s[30] = Low(u[13]) /\ s[31] = High(u[14]) /\ s[32] = Low(u[14])
      /\ s[33] = High(u[15]) /\ s[34] = Low(u[15]) /\ s[35] = High(u[16]) /\ s[36] = Low(u[16])
      /\ s[9] = Dash /\ s[14] = Dash /\ s[19] = Dash /\ s[24] = Dash
  BY ONLY s = Shown(u) DEF Shown
<1>6. /\ s[1] \in HexDigits /\ s[2] \in HexDigits
      /\ s[3] \in HexDigits /\ s[4] \in HexDigits
      /\ s[5] \in HexDigits /\ s[6] \in HexDigits
      /\ s[7] \in HexDigits /\ s[8] \in HexDigits
      /\ s[10] \in HexDigits /\ s[11] \in HexDigits
      /\ s[12] \in HexDigits /\ s[13] \in HexDigits
      /\ s[15] \in HexDigits /\ s[16] \in HexDigits
      /\ s[17] \in HexDigits /\ s[18] \in HexDigits
      /\ s[20] \in HexDigits /\ s[21] \in HexDigits
      /\ s[22] \in HexDigits /\ s[23] \in HexDigits
      /\ s[25] \in HexDigits /\ s[26] \in HexDigits
      /\ s[27] \in HexDigits /\ s[28] \in HexDigits
      /\ s[29] \in HexDigits /\ s[30] \in HexDigits
      /\ s[31] \in HexDigits /\ s[32] \in HexDigits
      /\ s[33] \in HexDigits /\ s[34] \in HexDigits
      /\ s[35] \in HexDigits /\ s[36] \in HexDigits
  BY ONLY <1>4, <1>5
<1>7. \A i \in 1 .. 36 : i \in DashPlaces => s[i] = Dash
  BY ONLY <1>5 DEF DashPlaces
<1>8. \A i \in 1 .. 36 : i \notin DashPlaces => s[i] \in HexDigits
  <2>1. \A i \in 1 .. 36 : i \in 1 .. 9 \/ i \in 10 .. 18 \/ i \in 19 .. 27 \/ i \in 28 .. 36
    OBVIOUS
  <2>2. \A i \in 1 .. 9 : i \notin DashPlaces => s[i] \in HexDigits
    <3>1. \A i \in 1 .. 9 : i \in {1, 2, 3, 4, 5, 6, 7, 8, 9}
      OBVIOUS
    <3> QED BY ONLY <1>6, <3>1 DEF DashPlaces
  <2>3. \A i \in 10 .. 18 : i \notin DashPlaces => s[i] \in HexDigits
    <3>1. \A i \in 10 .. 18 : i \in {10, 11, 12, 13, 14, 15, 16, 17, 18}
      OBVIOUS
    <3> QED BY ONLY <1>6, <3>1 DEF DashPlaces
  <2>4. \A i \in 19 .. 27 : i \notin DashPlaces => s[i] \in HexDigits
    <3>1. \A i \in 19 .. 27 : i \in {19, 20, 21, 22, 23, 24, 25, 26, 27}
      OBVIOUS
    <3> QED BY ONLY <1>6, <3>1 DEF DashPlaces
  <2>5. \A i \in 28 .. 36 : i \notin DashPlaces => s[i] \in HexDigits
    <3>1. \A i \in 28 .. 36 : i \in {28, 29, 30, 31, 32, 33, 34, 35, 36}
      OBVIOUS
    <3> QED BY ONLY <1>6, <3>1 DEF DashPlaces
  <2> QED BY ONLY <2>1, <2>2, <2>3, <2>4, <2>5
<1>9. HasForm(s)
  BY ONLY <1>2, <1>7, <1>8 DEF HasForm, HexDigits
<1> QED BY <1>2, <1>3, <1>9

\* Text and bytes are turned into each other without loss.
LEMMA ParseOfUnparse ==
  ASSUME NEW u \in Uuids
  PROVE  uuid_parse(uuid_unparse(u)) = [ret |-> 0, uu |-> u]
<1>1. uuid_unparse(u) = Shown(u)
  BY UnparseShows
<1>2. Shown(u) \in Seq(Int) /\ HasForm(Shown(u))
  BY ShownHasForm
<1> PICK v \in Uuids : Shown(u) = Shown(v) /\ uuid_parse(Shown(u)) = [ret |-> 0, uu |-> v]
  BY <1>2, FormShows
<1>3. u = v
  BY ShownOnce
<1> QED BY <1>1, <1>3

LEMMA UnparseOfParse ==
  ASSUME NEW t \in Seq(Int), uuid_parse(t).ret = 0
  PROVE  uuid_unparse(uuid_parse(t).uu) = t
<1>1. HasForm(t)
  BY DEF uuid_parse
<1> PICK in \in Uuids : t = Shown(in) /\ uuid_parse(t) = [ret |-> 0, uu |-> in]
  BY <1>1, FormShows
<1>2. uuid_unparse(in) = Shown(in)
  BY UnparseShows
<1> QED BY <1>2

\* Whatever is generated, its text parses to the same bytes, and a text that parses is
\* the text of what it parses to.
LEMMA TextsRoundTrip ==
  ASSUME GenInv
  PROVE  TextRoundTrips
<1> SUFFICES ASSUME made # <<>>, NEW t, t = uuid_unparse(made[Len(made)].u)
             PROVE  /\ uuid_parse(t) = [ret |-> 0, uu |-> made[Len(made)].u]
                    /\ \A s \in Slips(t) : uuid_parse(s).ret = 0 => uuid_unparse(uuid_parse(s).uu) = s
  BY DEF TextRoundTrips
<1> PICK u : u = made[Len(made)].u
  OBVIOUS
<1>1. u \in Uuids
  <2>1. made \in Seq(MadeUuids)
    BY DEF GenInv, GenTypes
  <2>2. made[Len(made)] \in MadeUuids
    BY <2>1
  <2> QED BY <2>2 DEF MadeUuids
<1>2. uuid_parse(t) = [ret |-> 0, uu |-> u]
  BY <1>1, ParseOfUnparse
<1>3. t = Shown(u) /\ t \in Seq(Int) /\ Len(t) = 36
  <2>1. t = Shown(u)
    BY <1>1, UnparseShows
  <2> QED BY <1>1, <2>1, ShownHasForm
<1>4. ASSUME NEW s \in Slips(t) PROVE s \in Seq(Int)
  <2>1. \/ \E i \in 1 .. 36, c \in Int : s = [t EXCEPT ![i] = c]
        \/ s = SubSeq(t, 1, 35)
        \/ s = Append(t, 0)
    <3>1. \A c \in {Dash, 0, Nibble - 1, Nibble} : c \in Int
      BY Sizes DEF Dash
    <3>2. \A i \in {1, 9, 20, 24, 36} : i \in 1 .. 36
      OBVIOUS
    <3>3. \/ \E i \in {1, 9, 20, 24, 36}, c \in {Dash, 0, Nibble - 1, Nibble} : s = [t EXCEPT ![i] = c]
          \/ s \in {SubSeq(t, 1, 35), Append(t, 0)}
      <4>1. s \in Slips(t)
        OBVIOUS
      <4> QED BY ONLY <4>1 DEF Slips
    <3> QED BY ONLY <3>1, <3>2, <3>3
  <2>2. ASSUME NEW i \in 1 .. 36, NEW c \in Int, s = [t EXCEPT ![i] = c] PROVE s \in Seq(Int)
    <3>1. t \in Row(Int, 36) /\ 36 \in Nat
      BY ONLY <1>3, SeqIsRow
    <3>2. s \in Row(Int, 36)
      BY ONLY <2>2, <3>1, c \in Int DEF Row
    <3> QED BY ONLY <3>1, <3>2, RowIsSeq
  <2>3. ASSUME s = SubSeq(t, 1, 35) PROVE s \in Seq(Int)
    <3>1. \A i \in 1 .. 35 : t[i] \in Int
      <4>1. t \in Row(Int, 36)
        BY ONLY <1>3, SeqIsRow
      <4> QED BY ONLY <4>1 DEF Row
    <3>2. 1 \in Int /\ 35 \in Int
      OBVIOUS
    <3> QED BY ONLY <2>3, <3>1, <3>2, SubSeqProperties
  <2>4. ASSUME s = Append(t, 0) PROVE s \in Seq(Int)
    BY ONLY <1>3, <2>4
  <2> QED BY <2>1, <2>2, <2>3, <2>4
<1>5. ASSUME NEW s \in Slips(t), uuid_parse(s).ret = 0 PROVE uuid_unparse(uuid_parse(s).uu) = s
  BY <1>4, <1>5, UnparseOfParse
<1> QED BY <1>2, <1>5

-----------------------------------------------------------------------------
(* uuid_compare: the fields in the order of the struct, then the node.     *)

\* A set of places has a first one.
LEMMA FirstPlace ==
  ASSUME NEW D, D \subseteq Nat, D # {}
  PROVE  \E i \in D : \A j \in D : i <= j
<1>1. PICK i \in D : \A j \in D : ~ (<<j, i>> \in OpToRel(<, Nat))
  BY NatLessThanWellFounded, WFMin
<1>2. \A j \in D : i <= j
  <2> TAKE j \in D
  <2>1. i \in Nat /\ j \in Nat
    OBVIOUS
  <2>2. ~ (j < i)
    BY <1>1, <2>1 DEF OpToRel
  <2> QED BY ONLY <2>1, <2>2
<1> QED BY <1>2

Fields(u) == <<u.time_low, u.time_mid, u.time_hi_and_version, u.clock_seq>> \o u.node

\* a and b agree before place i and differ there.
DifferAt(a, b, i) == i \in 1 .. 10 /\ a[i] # b[i] /\ \A j \in 1 .. 10 : j < i => a[j] = b[j]

LEMMA FirstDifferenceIs ==
  ASSUME NEW a \in Row(Nat, 10), NEW b \in Row(Nat, 10)
  PROVE  \/ a = b /\ FirstDifference(a, b) = 0
         \/ \E i : DifferAt(a, b, i) /\ FirstDifference(a, b) = Sign(a[i], b[i])
<1> PICK D : D = {i \in DOMAIN a : a[i] # b[i]}
  OBVIOUS
<1>0. DOMAIN a = 1 .. 10 /\ DOMAIN b = 1 .. 10
  BY DEF Row
<1>d. \A i : i \in D <=> i \in 1 .. 10 /\ a[i] # b[i]
  BY ONLY <1>0, D = {i \in DOMAIN a : a[i] # b[i]}
<1>1. CASE D = {}
  <2>1. \A i \in 1 .. 10 : a[i] = b[i]
    BY <1>0, <1>1
  <2>2. a = b
    BY ONLY <2>1, a \in Row(Nat, 10), b \in Row(Nat, 10) DEF Row
  <2>3. FirstDifference(a, b) = 0
    BY <1>1 DEF FirstDifference
  <2> QED BY <2>2, <2>3
<1>2. CASE D # {}
  <2> PICK i : i = CHOOSE x \in D : \A j \in D : x <= j
    OBVIOUS
  <2>1. FirstDifference(a, b) = Sign(a[i], b[i])
    BY <1>2 DEF FirstDifference
  <2>2. D \subseteq Nat
    BY <1>0
  <2>3. i \in D /\ \A j \in D : i <= j
    <3>1. \E k \in D : \A j \in D : k <= j
      BY ONLY <1>2, <2>2, FirstPlace
    <3> QED BY ONLY <3>1, i = CHOOSE x \in D : \A j \in D : x <= j
  <2>4. DifferAt(a, b, i)
    <3>1. ASSUME NEW j \in 1 .. 10, j < i PROVE a[j] = b[j]
      <4>1. j \notin D
        <5>1. i \in 1 .. 10
          BY ONLY <1>d, <2>3
        <5> QED BY ONLY <5>1, <2>3, <3>1, j \in 1 .. 10
      <4> QED BY ONLY <1>d, <4>1, j \in 1 .. 10
    <3> QED BY ONLY <1>d, <2>3, <3>1 DEF DifferAt
  <2> QED BY <2>1, <2>4
<1> QED BY <1>1, <1>2

\* There is one such place.
LEMMA DifferOnce ==
  ASSUME NEW a, NEW b, NEW i, DifferAt(a, b, i), NEW j, DifferAt(a, b, j)
  PROVE  i = j
<1>1. i \in 1 .. 10 /\ j \in 1 .. 10
  BY DEF DifferAt
<1>2. ~(i < j) /\ ~(j < i)
  BY DEF DifferAt
<1> QED BY ONLY <1>1, <1>2

LEMMA SignOfNumbers ==
  ASSUME NEW x \in Nat, NEW y \in Nat
  PROVE  /\ Sign(x, y) = -Sign(y, x) /\ Sign(x, y) \in {-1, 0, 1}
         /\ Sign(x, y) = 0 <=> x = y
         /\ Sign(x, y) = -1 <=> x < y
BY DEF Sign

\* The first difference orders the sequences of ten numbers.
LEMMA FirstDifferenceOrders ==
  ASSUME NEW a \in Row(Nat, 10), NEW b \in Row(Nat, 10), NEW c \in Row(Nat, 10)
  PROVE  /\ FirstDifference(a, b) = 0 <=> a = b
         /\ FirstDifference(a, b) = -FirstDifference(b, a)
         /\ FirstDifference(a, b) <= 0 /\ FirstDifference(b, c) <= 0 => FirstDifference(a, c) <= 0
<1> DEFINE F(x, y) == FirstDifference(x, y)
           R == Row(Nat, 10)
<1>0. \A x \in R, i \in 1 .. 10 : x[i] \in Nat
  BY DEF Row
<1>1. \A x \in R : F(x, x) = 0
  <2> TAKE x \in R
  <2>1. ~ \E i : DifferAt(x, x, i)
    BY DEF DifferAt
  <2> QED BY <2>1, FirstDifferenceIs
<1>2. ASSUME NEW x \in R, NEW y \in R, NEW i, DifferAt(x, y, i)
      PROVE  F(x, y) = Sign(x[i], y[i]) /\ x # y
  <2>1. x # y
    BY <1>2 DEF DifferAt
  <2> PICK j : DifferAt(x, y, j) /\ F(x, y) = Sign(x[j], y[j])
    BY <2>1, FirstDifferenceIs
  <2>2. i = j
    BY <1>2, DifferOnce
  <2> QED BY <2>1, <2>2
<1>3. ASSUME NEW x \in R, NEW y \in R, x # y
      PROVE  \E i \in 1 .. 10 : DifferAt(x, y, i)
  <2> PICK j : DifferAt(x, y, j)
    BY <1>3, FirstDifferenceIs
  <2> QED BY DEF DifferAt
<1>4. ASSUME NEW x \in R, NEW y \in R PROVE F(x, y) = 0 <=> x = y
  <2>1. CASE x = y
    BY <1>1, <2>1
  <2>2. CASE x # y
    <3> PICK i \in 1 .. 10 : DifferAt(x, y, i)
      BY <1>3, <2>2
    <3>1. F(x, y) = Sign(x[i], y[i])
      BY <1>2
    <3>2. x[i] \in Nat /\ y[i] \in Nat /\ x[i] # y[i]
      BY <1>0 DEF DifferAt
    <3>3. Sign(x[i], y[i]) # 0
      BY ONLY <3>2, SignOfNumbers
    <3> QED BY <2>2, <3>1, <3>3
  <2> QED BY <2>1, <2>2
<1>5. ASSUME NEW x \in R, NEW y \in R PROVE F(x, y) = -F(y, x)
  <2>1. CASE x = y
    BY <1>1, <2>1
  <2>2. CASE x # y
    <3> PICK i \in 1 .. 10 : DifferAt(x, y, i)
      BY <1>3, <2>2
    <3>1. DifferAt(y, x, i)
      BY DEF DifferAt
    <3>2. F(x, y) = Sign(x[i], y[i]) /\ F(y, x) = Sign(y[i], x[i])
      BY <1>2, <3>1
    <3>3. x[i] \in Nat /\ y[i] \in Nat
      BY <1>0
    <3>4. Sign(x[i], y[i]) = -Sign(y[i], x[i])
      BY ONLY <3>3, SignOfNumbers
    <3> QED BY <3>2, <3>4
  <2> QED BY <2>1, <2>2
\* Not above: equal, or smaller at the first difference.
<1>6. ASSUME NEW x \in R, NEW y \in R, NEW i \in 1 .. 10, DifferAt(x, y, i)
      PROVE  F(x, y) <= 0 <=> x[i] < y[i]
  <2>1. F(x, y) = Sign(x[i], y[i])
    BY <1>2, <1>6
  <2>2. x[i] \in Nat /\ y[i] \in Nat /\ x[i] # y[i]
    BY <1>0, <1>6 DEF DifferAt
  <2>3. Sign(x[i], y[i]) \in {-1, 1} /\ (Sign(x[i], y[i]) = -1 <=> x[i] < y[i])
    BY ONLY <2>2, SignOfNumbers
  <2> QED BY ONLY <2>1, <2>3
<1>7. ASSUME F(a, b) <= 0, F(b, c) <= 0 PROVE F(a, c) <= 0
  <2>1. CASE a = b
    BY <1>7, <2>1
  <2>2. CASE b = c
    BY <1>7, <2>2
  <2>3. CASE a # b /\ b # c
    <3> PICK i \in 1 .. 10 : DifferAt(a, b, i)
      BY <1>3, <2>3
    <3> PICK j \in 1 .. 10 : DifferAt(b, c, j)
      BY <1>3, <2>3
    <3> PICK k \in 1 .. 10 : k = IF i < j THEN i ELSE j
      OBVIOUS
    <3>1. a[i] < b[i] /\ b[j] < c[j]
      BY <1>6, <1>7
    <3>2. \A m \in 1 .. 10 : /\ m < i => a[m] = b[m]
                             /\ m < j => b[m] = c[m]
      BY DEF DifferAt
    <3>3. \A m \in 1 .. 10 : m < k => a[m] = c[m]
      BY <3>2
    <3>4. a[k] < c[k]
      <4>1. a[k] \in Nat /\ b[k] \in Nat /\ c[k] \in Nat
        BY <1>0
      <4>2. CASE i < j
        <5>1. k = i /\ b[i] = c[i]
          BY <3>2, <4>2
        <5> QED BY ONLY <3>1, <5>1
      <4>3. CASE j < i
        <5>1. k = j /\ a[j] = b[j]
          BY <3>2, <4>3
        <5> QED BY ONLY <3>1, <5>1
      <4>4. CASE i = j
        <5>1. k = i /\ k = j
          BY <4>4
        <5> QED BY ONLY <3>1, <4>1, <5>1
      <4>5. i < j \/ j < i \/ i = j
        OBVIOUS
      <4> QED BY <4>2, <4>3, <4>4, <4>5
    <3>5. a[k] \in Nat /\ c[k] \in Nat
      BY <1>0
    <3>6. a[k] # c[k]
      BY ONLY <3>4, <3>5
    <3>7. DifferAt(a, c, k)
      BY ONLY <3>3, <3>6, k \in 1 .. 10 DEF DifferAt
    <3> QED BY <1>6, <3>4, <3>7
  <2> QED BY <2>1, <2>2, <2>3
<1> QED BY <1>4, <1>5, <1>7

\* The fields of 16 bytes are ten numbers, and other bytes have other fields.
LEMMA FieldsOfUuid ==
  ASSUME NEW in \in Uuids
  PROVE  Fields(uuid_unpack(in)) \in Row(Nat, 10)
<1> PICK u : u = uuid_unpack(in)
  OBVIOUS
<1>1. u \in Structs
  BY UnpackPack
<1>2. /\ u.time_low \in Nat /\ u.time_mid \in Nat /\ u.time_hi_and_version \in Nat
      /\ u.clock_seq \in Nat /\ u.node \in Row(Nat, 6)
  BY <1>1, Sizes DEF Structs, Row, Octets
<1>3. <<u.time_low, u.time_mid, u.time_hi_and_version, u.clock_seq>> \in Row(Nat, 4)
  BY <1>2 DEF Row
<1>4. 10 = 4 + 6
  OBVIOUS
<1>5. Fields(u) \in Row(Nat, 10)
  BY <1>2, <1>3, <1>4, RowsJoin DEF Fields
<1> QED BY <1>5

LEMMA FieldsOnce ==
  ASSUME NEW in \in Uuids, NEW out \in Uuids, Fields(uuid_unpack(in)) = Fields(uuid_unpack(out))
  PROVE  in = out
<1> PICK u, v : u = uuid_unpack(in) /\ v = uuid_unpack(out)
  OBVIOUS
<1>1. u \in Structs /\ v \in Structs /\ uuid_pack(u) = in /\ uuid_pack(v) = out
  BY UnpackPack
<1> DEFINE H(x) == <<x.time_low, x.time_mid, x.time_hi_and_version, x.clock_seq>>
<1>2. ASSUME NEW x \in Structs
      PROVE  /\ Fields(x)[1] = x.time_low /\ Fields(x)[2] = x.time_mid
             /\ Fields(x)[3] = x.time_hi_and_version /\ Fields(x)[4] = x.clock_seq
             /\ SubSeq(Fields(x), 5, 10) = x.node
  <2>1. H(x) \in Row(Nat, 4) /\ x.node \in Row(Nat, 6)
    BY <1>2, Sizes DEF Structs, Row, Octets
  <2> PICK four \in Nat, six \in Nat, ten \in Nat : four = 4 /\ six = 6 /\ ten = 10
    OBVIOUS
  <2> PICK f, h, n : f = Fields(x) /\ h = H(x) /\ n = x.node /\ f = h \o n
    BY DEF Fields
  <2>2. ten = four + six /\ h \in Row(Nat, four) /\ n \in Row(Nat, six) /\ 5 = four + 1
    <3>1. h \in Row(Nat, 4) /\ n \in Row(Nat, 6)
      BY ONLY <2>1, h = H(x), n = x.node
    <3> QED BY ONLY <3>1, four = 4, six = 6, ten = 10
  <2>3. Places(f, h, 0, four)
    BY ONLY <2>2, four \in Nat, six \in Nat, f = h \o n, RowsJoin
  <2>4. SubSeq(f, four + 1, four + six) = n
    BY ONLY <2>2, four \in Nat, six \in Nat, f = h \o n, RowTail
  <2>5. SubSeq(f, 5, 10) = n
    BY ONLY <2>2, <2>4, ten = 10
  <2>6. f[0 + 1] = h[1] /\ f[0 + 2] = h[2] /\ f[0 + 3] = h[3] /\ f[0 + 4] = h[4]
    BY ONLY <2>3, four = 4 DEF Places
  <2>7. h[1] = x.time_low /\ h[2] = x.time_mid /\ h[3] = x.time_hi_and_version /\ h[4] = x.clock_seq
    BY ONLY h = H(x)
  <2>8. f[1] = h[1] /\ f[2] = h[2] /\ f[3] = h[3] /\ f[4] = h[4]
    BY ONLY <2>6
  <2> QED BY ONLY <2>5, <2>7, <2>8, f = Fields(x), n = x.node
<1>3. /\ u.time_low = v.time_low /\ u.time_mid = v.time_mid /\ u.clock_seq = v.clock_seq
      /\ u.time_hi_and_version = v.time_hi_and_version /\ u.node = v.node
  <2> HIDE DEF H
  <2>1. Fields(u) = Fields(v)
    OBVIOUS
  <2> QED BY ONLY <1>1, <1>2, <2>1
<1>4. u = v
  BY ONLY <1>1, <1>3 DEF Structs
<1> QED BY <1>1, <1>4

LEMMA CompareOrders ==
  ASSUME GenInv
  PROVE  CompareIsAnOrder
<1> SUFFICES ASSUME NEW i \in DOMAIN made, NEW j \in DOMAIN made, NEW k \in DOMAIN made,
                    NEW u, NEW v, NEW w, u = made[i].u, v = made[j].u, w = made[k].u
             PROVE  /\ uuid_compare(u, v) = 0 <=> u = v
                    /\ uuid_compare(u, v) = -uuid_compare(v, u)
                    /\ uuid_compare(u, v) <= 0 /\ uuid_compare(v, w) <= 0 => uuid_compare(u, w) <= 0
  BY DEF CompareIsAnOrder
<1>1. u \in Uuids /\ v \in Uuids /\ w \in Uuids
  <2>1. made \in Seq(MadeUuids)
    BY DEF GenInv, GenTypes
  <2>2. made[i] \in MadeUuids /\ made[j] \in MadeUuids /\ made[k] \in MadeUuids
    BY <2>1
  <2> QED BY <2>2 DEF MadeUuids
<1> DEFINE G(x) == Fields(uuid_unpack(x))
<1>2. G(u) \in Row(Nat, 10) /\ G(v) \in Row(Nat, 10) /\ G(w) \in Row(Nat, 10)
  BY <1>1, FieldsOfUuid
<1>3. \A x, y : uuid_compare(x, y) = FirstDifference(G(x), G(y))
  BY DEF uuid_compare, Fields
<1>4. G(u) = G(v) <=> u = v
  BY <1>1, FieldsOnce
<1> HIDE DEF G
<1> PICK a \in Row(Nat, 10), b \in Row(Nat, 10), c \in Row(Nat, 10) : a = G(u) /\ b = G(v) /\ c = G(w)
  BY <1>2
<1>5. /\ FirstDifference(a, b) = 0 <=> a = b
      /\ FirstDifference(a, b) = -FirstDifference(b, a)
      /\ FirstDifference(a, b) <= 0 /\ FirstDifference(b, c) <= 0 => FirstDifference(a, c) <= 0
  BY ONLY a \in Row(Nat, 10), b \in Row(Nat, 10), c \in Row(Nat, 10), FirstDifferenceOrders
<1>6. /\ uuid_compare(u, v) = FirstDifference(a, b) /\ uuid_compare(v, u) = FirstDifference(b, a)
      /\ uuid_compare(v, w) = FirstDifference(b, c) /\ uuid_compare(u, w) = FirstDifference(a, c)
  BY <1>3
<1>7. a = b <=> u = v
  BY <1>4
<1> QED BY ONLY <1>5, <1>6, <1>7

\* Whatever is generated: texts and bytes are turned into each other without loss, and
\* uuid_compare is a total order of the bytes.
THEOREM TextsAndOrder == GenSpec => []FormatsAgree
<1>1. GenInv => FormatsAgree
  BY TextsRoundTrip, CompareOrders DEF FormatsAgree
<1> QED BY <1>1, GenInvHolds, PTL
=============================================================================
