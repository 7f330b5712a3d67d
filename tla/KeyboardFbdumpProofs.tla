------------------------ MODULE KeyboardFbdumpProofs ------------------------
(***************************************************************************)
(* Proof about KeyboardFbdump, for every directory of devices, length of   *)
(* the kernel's queue and number of presses: no picture is taken without a *)
(* press and a release of its own.                                         *)
(*                                                                         *)
(* A picture is due to a release that is read after a press.  The releases *)
(* in the queue are counted against the presses and releases made so far   *)
(* (Earned).  One release may be there for nothing: that of a key which    *)
(* was down before the program listened.  No press comes before it in the  *)
(* queue, so that it is read to no effect (OneForNothing).                 *)
(***************************************************************************)
EXTENDS KeyboardFbdump, FiniteSetTheorems, SequenceTheorems, TLAPS

Events == {"press", "release", "other", "dropped"}

Releases(s) == {i \in 1 .. Len(s) : s[i] = "release"}

\* Pictures that have been decided on and not yet started.
Due == IF mpc = "mw_system" THEN 1 ELSE 0

Account == shots + Due + Cardinality(Releases(events))

Earned == Account <= cycles

\* A press has been read that the next release answers.
Pressed == mpc = "select" /\ press_key_flag

\* Release i is read to no effect.
ForNothing(i) == i \in Releases(events) /\ ~Pressed /\ \A j \in 1 .. i - 1 : events[j] # "press"

OneForNothing == Account <= cycles + 1 /\ \E i \in 1 .. Len(events) : ForNothing(i)

\* While a key is down that was down before, no press has been queued.
HeldIsQuiet == key = "held" =>
    Earned /\ ~Pressed /\ \A j \in 1 .. Len(events) : events[j] # "press"

\* Before the loop nothing has been queued, and in it a picture is due as soon
\* as it is decided on.  A key that is down has its count still to come.
Quiet == /\ ~Listening => events = <<>> /\ ~press_key_flag /\ key # "pressed"
         /\ mpc \in {"readdir", "select"} => ~cut_pic_flag
         /\ dev # NoDev => IsKeyboard(dev)
         /\ key = "pressed" => cycles < MaxPresses

ShotsInv == DumpTypeOK /\ Quiet /\ (Earned \/ OneForNothing) /\ HeldIsQuiet

-----------------------------------------------------------------------------
\* The releases of a sequence are a finite number.
LEMMA CountIsNat ==
    ASSUME NEW s \in Seq(Events)
    PROVE  IsFiniteSet(Releases(s)) /\ Cardinality(Releases(s)) \in Nat
<1>1. Len(s) \in Nat
  OBVIOUS
<1>2. IsFiniteSet(1 .. Len(s)) /\ Releases(s) \in SUBSET (1 .. Len(s))
  BY <1>1, FS_Interval DEF Releases
<1>3. IsFiniteSet(Releases(s))
  BY <1>2, FS_Subset
<1> QED BY <1>3, FS_CardinalityType

\* One more event.
LEMMA CountAppend ==
    ASSUME NEW s \in Seq(Events), NEW e \in Events
    PROVE  Cardinality(Releases(Append(s, e))) =
             Cardinality(Releases(s)) + (IF e = "release" THEN 1 ELSE 0)
<1>1. /\ Len(s) \in Nat /\ Len(Append(s, e)) = Len(s) + 1
      /\ \A i \in 1 .. Len(s) : Append(s, e)[i] = s[i]
      /\ Append(s, e)[Len(s) + 1] = e
  OBVIOUS
<1>2. IsFiniteSet(Releases(s)) /\ Len(s) + 1 \notin Releases(s) /\ Cardinality(Releases(s)) \in Nat
  BY <1>1, CountIsNat DEF Releases
<1>3. CASE e = "release"
  <2>1. Releases(Append(s, e)) = Releases(s) \cup {Len(s) + 1}
    BY <1>1, <1>3 DEF Releases
  <2> QED BY <1>2, <1>3, <2>1, FS_AddElement
<1>4. CASE e # "release"
  <2>1. Releases(Append(s, e)) = Releases(s)
    BY <1>1, <1>4 DEF Releases
  <2> QED BY <1>2, <1>4, <2>1
<1> QED BY <1>3, <1>4

\* One event less.
LEMMA CountTail ==
    ASSUME NEW s \in Seq(Events), s # <<>>
    PROVE  Cardinality(Releases(s)) =
             Cardinality(Releases(Tail(s))) + (IF Head(s) = "release" THEN 1 ELSE 0)
<1>1. /\ Len(s) \in Nat \ {0} /\ Len(Tail(s)) = Len(s) - 1 /\ Tail(s) \in Seq(Events)
      /\ \A i \in 1 .. Len(s) - 1 : Tail(s)[i] = s[i + 1]
      /\ Head(s) = s[1]
  OBVIOUS
<1> DEFINE R == Releases(s) \ {1}
           Q == Releases(Tail(s))
           f == [i \in Q |-> i + 1]
<1>2. IsFiniteSet(Q) /\ IsFiniteSet(Releases(s)) /\ Cardinality(Releases(s)) \in Nat
  BY <1>1, CountIsNat
<1>3. \A i \in Q : f[i] \in R
  BY <1>1 DEF Releases
<1>4. \A j \in R : j - 1 \in Q /\ f[j - 1] = j
  BY <1>1 DEF Releases
<1>5. f \in Bijection(Q, R)
  <2>1. f \in [Q -> R]
    BY <1>3
  <2>2. \A i, j \in Q : f[i] = f[j] => i = j
    BY DEF Releases
  <2>3. \A j \in R : \E i \in Q : f[i] = j
    BY <1>4
  <2> QED BY <2>1, <2>2, <2>3 DEF Bijection, Injection, Surjection, IsInjective
<1>6. Cardinality(R) = Cardinality(Q)
  <2>1. ExistsBijection(Q, R)
    BY <1>5 DEF ExistsBijection
  <2> QED BY <1>2, <2>1, FS_Bijection
<1>7. Cardinality(R) = Cardinality(Releases(s)) - (IF Head(s) = "release" THEN 1 ELSE 0)
  <2>1. 1 \in Releases(s) <=> Head(s) = "release"
    BY <1>1 DEF Releases
  <2>2. Cardinality(R) = IF 1 \in Releases(s) THEN Cardinality(Releases(s)) - 1
                                             ELSE Cardinality(Releases(s))
    BY <1>2, FS_RemoveElement
  <2> HIDE DEF R, Q
  <2> QED BY <1>2, <2>1, <2>2
<1>8. Cardinality(Q) \in Nat
  BY <1>2, FS_CardinalityType
<1> HIDE DEF R, Q
<1>9. Cardinality(Releases(s)) = Cardinality(Q) + (IF Head(s) = "release" THEN 1 ELSE 0)
  BY <1>2, <1>6, <1>7, <1>8
<1> QED BY <1>9 DEF Q

\* An emptied queue, and one that holds what made it overflow.
LEMMA CountFew ==
    /\ Cardinality(Releases(<<>>)) = 0
    /\ \A e \in Events : Cardinality(Releases(<<"dropped", e>>)) = IF e = "release" THEN 1 ELSE 0
<1>1. Releases(<<>>) = {}
  BY DEF Releases
<1>2. Cardinality(Releases(<<>>)) = 0
  BY <1>1, FS_EmptySet
<1>3. ASSUME NEW e \in Events
      PROVE  Cardinality(Releases(<<"dropped", e>>)) = IF e = "release" THEN 1 ELSE 0
  <2>1. Releases(<<"dropped", e>>) = IF e = "release" THEN {2} ELSE {}
    <3>1. \A i \in 1 .. 2 : i = 1 \/ i = 2
      OBVIOUS
    <3> QED BY <3>1 DEF Releases
  <2> QED BY <2>1, FS_EmptySet, FS_Singleton
<1> QED BY <1>2, <1>3

-----------------------------------------------------------------------------
\* What queueing an event does: nothing, one event more, or an overflow.
LEMMA QueueStep ==
    ASSUME DumpTypeOK, NEW ev \in {"press", "release", "other"}, Queue(ev)
    PROVE  /\ events' \in Seq(Events) /\ Len(events') <= QueueSize
           /\ mishaps' \subseteq {"vfork", "overflow", "unplugged"}
           /\ \/ events' = events
              \/ Listening /\ events' = Append(events, ev)
              \/ Listening /\ events' = <<"dropped", ev>>
<1>1. ev \in Events /\ "dropped" \in Events
  BY DEF Events
<1>2. events \in Seq(Events) /\ Len(events) \in Nat
  BY DEF DumpTypeOK, Events
<1>3. CASE events' = events /\ mishaps' = mishaps
  BY <1>2, <1>3 DEF DumpTypeOK
<1>4. CASE Listening /\ Len(events) < QueueSize /\ events' = Append(events, ev) /\ mishaps' = mishaps
  <2>1. events' \in Seq(Events) /\ Len(events') = Len(events) + 1
    BY <1>1, <1>2, <1>4
  <2> QED BY <1>2, <1>4, <2>1, PressesAssumption DEF DumpTypeOK
<1>5. CASE Listening /\ events' = <<"dropped", ev>> /\ mishaps' = mishaps \cup {"overflow"}
  <2>1. events' \in Seq(Events) /\ Len(events') = 2
    BY <1>1, <1>5
  <2> QED BY <1>5, <2>1, PressesAssumption DEF DumpTypeOK
<1> QED BY <1>3, <1>4, <1>5 DEF Queue

\* The account is a number.
LEMMA AccountIsNat ==
    ASSUME DumpTypeOK
    PROVE  /\ Cardinality(Releases(events)) \in Nat /\ shots \in Nat /\ cycles \in Nat
           /\ Due \in {0, 1} /\ events \in Seq(Events)
BY CountIsNat, PressesAssumption DEF DumpTypeOK, Due, Events

\* Without the queue the account is paid: a release for nothing is in the queue.
LEMMA EarnedBefore ==
    ASSUME DumpTypeOK, Earned \/ OneForNothing
    PROVE  shots + Due <= cycles
<1>1. OneForNothing => Cardinality(Releases(events)) # 0
  <2> SUFFICES ASSUME NEW i \in Releases(events), Cardinality(Releases(events)) = 0
               PROVE  FALSE
    BY DEF OneForNothing, ForNothing
  <2> QED BY AccountIsNat, CountIsNat, FS_EmptySet
<1> QED BY <1>1, AccountIsNat DEF Earned, OneForNothing, Account

\* The search for the keyboard queues nothing.
LEMMA SearchKeepsShots ==
    ASSUME ShotsInv, Readdir \/ OpenKeyboard
    PROVE  ShotsInv'
<1>1. /\ events = <<>> /\ events' = <<>> /\ flags' = flags /\ key' = key /\ cycles' = cycles
      /\ shots' = shots /\ ~press_key_flag /\ ~cut_pic_flag /\ key # "pressed"
      /\ mpc = "readdir" /\ mpc' \in {"readdir", "exit", "select"}
  BY DEF Readdir, OpenKeyboard, ShotsInv, Quiet, Listening, flags, keyboard
<1>2. DumpTypeOK'
  <2>1. CASE Readdir
    <3>1. listing \in Seq({"other", "copy", "keyboard"})
      BY ListingsAssumption DEF ShotsInv, DumpTypeOK
    <3>2. entry' \in 1 .. Len(listing) + 1 /\ dev' \in 0 .. Len(listing)
      BY <2>1, <3>1 DEF Readdir, ShotsInv, DumpTypeOK
    <3> QED BY <1>1, <2>1, <3>2 DEF Readdir, ShotsInv, DumpTypeOK, Listening, flags, keyboard
  <2>2. CASE OpenKeyboard
    <3>1. mpc' = "select" => dev # NoDev /\ IsKeyboard(dev)
      BY <2>2 DEF OpenKeyboard, ShotsInv, Quiet
    <3> QED BY <1>1, <2>2, <3>1
         DEF OpenKeyboard, ShotsInv, DumpTypeOK, Listening, search, flags, keyboard, IsKeyboard
  <2> QED BY <2>1, <2>2
<1>3. Quiet'
  BY <1>1 DEF Readdir, OpenKeyboard, ShotsInv, Quiet, Listening, flags, search, IsKeyboard, NoDev
<1>4. ~ OneForNothing
  BY <1>1 DEF OneForNothing
<1>5. Earned' /\ HeldIsQuiet'
  <2>1. Due' = Due
    BY <1>1 DEF Due
  <2> QED BY <1>1, <1>4, <2>1 DEF ShotsInv, Earned, Account, HeldIsQuiet, Pressed, flags
<1> QED BY <1>2, <1>3, <1>5 DEF ShotsInv

\* Reading an event: a release after a press turns into a picture, any other is
\* gone, and the one for nothing comes nearer, or is gone.
LEMMA ReadEventKeepsShots ==
    ASSUME ShotsInv, ReadEvent
    PROVE  ShotsInv'
<1>1. /\ mpc = "select" /\ events # <<>> /\ events' = Tail(events) /\ ~cut_pic_flag
      /\ press_key_flag' = (press_key_flag \/ Head(events) = "press")
      /\ cut_pic_flag' = (Head(events) = "release" /\ press_key_flag)
      /\ mpc' = IF cut_pic_flag' THEN "mw_system" ELSE "select"
      /\ listing' = listing /\ entry' = entry /\ dev' = dev /\ plugged' = plugged
      /\ key' = key /\ cycles' = cycles /\ shots' = shots /\ mishaps' = mishaps
  BY DEF ReadEvent, ShotsInv, Quiet, search
<1>2. /\ events \in Seq(Events) /\ Len(events) \in Nat \ {0} /\ Head(events) = events[1]
      /\ Tail(events) \in Seq(Events) /\ Len(Tail(events)) = Len(events) - 1
      /\ \A i \in 1 .. Len(events) - 1 : Tail(events)[i] = events[i + 1]
  BY <1>1 DEF ShotsInv, DumpTypeOK, Events
<1>3. DumpTypeOK'
  <2>1. Len(events') <= QueueSize
    BY <1>1, <1>2, PressesAssumption DEF ShotsInv, DumpTypeOK
  <2>2. events' \in Seq({"press", "release", "other", "dropped"})
    BY <1>1, <1>2 DEF Events
  <2> QED BY <1>1, <2>1, <2>2 DEF ShotsInv, DumpTypeOK, Listening, IsKeyboard
<1>4. Quiet'
  BY <1>1 DEF ShotsInv, Quiet, Listening, IsKeyboard
<1>5. /\ Cardinality(Releases(events)) = Cardinality(Releases(events'))
            + (IF Head(events) = "release" THEN 1 ELSE 0)
      /\ Cardinality(Releases(events')) \in Nat /\ shots \in Nat /\ cycles \in Nat
  BY <1>1, <1>2, CountTail, CountIsNat, AccountIsNat DEF ShotsInv
<1>6. Due = 0 /\ Due' = IF Head(events) = "release" /\ press_key_flag THEN 1 ELSE 0
  BY <1>1 DEF Due
<1>7. Account' = IF Head(events) = "release" /\ ~press_key_flag THEN Account - 1 ELSE Account
  BY <1>1, <1>5, <1>6 DEF Account
<1>8. Account \in Nat
  BY <1>5, <1>6 DEF Account
<1>9. Earned' \/ OneForNothing'
  <2>1. CASE Earned
    BY <1>1, <1>5, <1>7, <1>8, <2>1 DEF Earned
  <2>2. CASE OneForNothing
    <3>1. PICK i \in 1 .. Len(events) : ForNothing(i)
      BY <2>2 DEF OneForNothing
    <3>2. ~press_key_flag /\ events[i] = "release"
      BY <1>1, <3>1 DEF ForNothing, Pressed, Releases
    <3>3. CASE Head(events) = "release"
      BY <1>1, <1>5, <1>7, <1>8, <2>2, <3>2, <3>3 DEF Earned, OneForNothing
    <3>4. CASE Head(events) # "release"
      <4>1. i - 1 \in 1 .. Len(events')
        BY <1>1, <1>2, <3>2, <3>4
      <4>2. events'[i - 1] = "release"
        BY <1>1, <1>2, <3>2, <4>1
      <4>3. Head(events) # "press"
        BY <1>2, <3>1, <4>1 DEF ForNothing
      <4>4. ~Pressed'
        BY <1>1, <3>2, <4>3 DEF Pressed
      <4>5. \A j \in 1 .. (i - 1) - 1 : events'[j] # "press"
        BY <1>1, <1>2, <3>1, <4>1 DEF ForNothing
      <4>6. ForNothing(i - 1)'
        BY <4>1, <4>2, <4>4, <4>5 DEF ForNothing, Releases
      <4> QED BY <1>1, <1>7, <2>2, <3>4, <4>1, <4>6 DEF OneForNothing
    <3> QED BY <3>3, <3>4
  <2> QED BY <2>1, <2>2 DEF ShotsInv
<1>10. HeldIsQuiet'
  <2> SUFFICES ASSUME key = "held"
               PROVE  Earned' /\ ~Pressed' /\ \A j \in 1 .. Len(events') : events'[j] # "press"
    BY <1>1 DEF HeldIsQuiet
  <2>1. Earned /\ ~Pressed /\ \A j \in 1 .. Len(events) : events[j] # "press"
    BY DEF ShotsInv, HeldIsQuiet
  <2>2. Head(events) # "press"
    BY <1>2, <2>1
  <2>3. Earned' /\ ~Pressed'
    BY <1>1, <1>5, <1>7, <1>8, <2>1, <2>2 DEF Earned, Pressed
  <2>4. \A j \in 1 .. Len(events') : events'[j] # "press"
    BY <1>1, <1>2, <2>1
  <2> QED BY <2>3, <2>4
<1> QED BY <1>3, <1>4, <1>9, <1>10 DEF ShotsInv

\* A picture that is started is no longer due.
LEMMA PictureKeepsShots ==
    ASSUME ShotsInv, mw_system \/ ResetFlags
    PROVE  ShotsInv'
<1>1. /\ mpc \in {"mw_system", "waitpid"} /\ mpc' \in {"waitpid", "select"}
      /\ listing' = listing /\ entry' = entry /\ dev' = dev /\ plugged' = plugged
      /\ key' = key /\ events' = events /\ cycles' = cycles
      /\ mpc' = "waitpid" => flags' = flags
      /\ mpc' = "select" => ~press_key_flag' /\ ~cut_pic_flag'
      /\ press_key_flag' \in BOOLEAN /\ cut_pic_flag' \in BOOLEAN
      /\ mishaps' \subseteq {"vfork", "overflow", "unplugged"}
  BY DEF mw_system, ResetFlags, search, keyboard, flags, ShotsInv, DumpTypeOK
<1>2. shots' + Due' <= shots + Due /\ shots' \in Nat /\ Due' = 0
  BY DEF mw_system, ResetFlags, Due, ShotsInv, DumpTypeOK
<1>3. /\ Cardinality(Releases(events)) \in Nat /\ shots \in Nat /\ cycles \in Nat
      /\ Due \in {0, 1}
  BY AccountIsNat DEF ShotsInv
<1>4. DumpTypeOK'
  BY <1>1, <1>2 DEF ShotsInv, DumpTypeOK, Listening, IsKeyboard
<1>5. Quiet'
  BY <1>1 DEF ShotsInv, Quiet, Listening, IsKeyboard, flags
<1>6. Cardinality(Releases(events')) = Cardinality(Releases(events))
  BY <1>1
<1>7. Account' <= Account /\ Account \in Nat /\ Account' \in Nat
  <2>1. PICK c \in Nat : c = Cardinality(Releases(events))
    BY <1>3
  <2>2. PICK m \in Nat : m = shots + Due
    BY <1>3
  <2>3. PICK n \in Nat : n = shots' /\ n <= m
    BY <1>2, <2>2
  <2>4. Account = m + c
    BY <2>1, <2>2 DEF Account
  <2>5. Account' = n + c
    BY <1>2, <1>6, <2>1, <2>3 DEF Account
  <2>6. n <= m
    BY <2>3
  <2>7. n + c <= m + c
    BY <2>6
  <2> QED BY <2>4, <2>5, <2>7
<1>8. ~Pressed /\ ~Pressed'
  BY <1>1 DEF Pressed
<1>9. Earned => Earned'
  BY <1>1, <1>3, <1>7 DEF Earned
<1>10. OneForNothing => OneForNothing'
  BY <1>1, <1>3, <1>7, <1>8 DEF OneForNothing, ForNothing
<1>11. HeldIsQuiet'
  BY <1>1, <1>8, <1>9 DEF ShotsInv, HeldIsQuiet
<1> QED BY <1>4, <1>5, <1>9, <1>10, <1>11 DEF ShotsInv

\* A press is queued with nothing behind it, or makes the queue overflow.
LEMMA PressKeepsShots ==
    ASSUME ShotsInv, Press
    PROVE  ShotsInv'
<1>1. /\ key = "up" /\ key' = IF Listening THEN "pressed" ELSE "held"
      /\ Queue("press") /\ cycles' = cycles /\ shots' = shots /\ mpc' = mpc
      /\ listing' = listing /\ entry' = entry /\ dev' = dev /\ plugged' = plugged
      /\ press_key_flag' = press_key_flag /\ cut_pic_flag' = cut_pic_flag
  BY DEF Press, search, flags
<1>2. /\ events' \in Seq(Events) /\ Len(events') <= QueueSize
      /\ mishaps' \subseteq {"vfork", "overflow", "unplugged"}
      /\ \/ events' = events
         \/ Listening /\ events' = Append(events, "press")
         \/ Listening /\ events' = <<"dropped", "press">>
  BY <1>1, QueueStep DEF ShotsInv
<1>3. DumpTypeOK' /\ Quiet'
  <2>1. (~Listening' <=> ~Listening) /\ key' \in {"up", "held", "pressed"}
    BY <1>1 DEF Listening
  <2>2. DumpTypeOK'
    BY <1>1, <1>2, <2>1 DEF ShotsInv, DumpTypeOK, Listening, IsKeyboard, Events
  <2>3. key' = "pressed" => cycles' < MaxPresses
    BY <1>1 DEF Press
  <2> QED BY <1>1, <1>2, <2>1, <2>2, <2>3 DEF ShotsInv, Quiet, IsKeyboard
<1>4. /\ Cardinality(Releases(events)) \in Nat /\ shots \in Nat /\ cycles \in Nat
      /\ Due \in {0, 1} /\ events \in Seq(Events) /\ "press" \in Events
  BY AccountIsNat DEF ShotsInv, Events
<1>5. Due' = Due /\ Pressed' = Pressed
  BY <1>1 DEF Due, Pressed
<1>6. CASE events' = events
  <2>1. Earned \/ OneForNothing => Earned' \/ OneForNothing'
    BY <1>1, <1>5, <1>6 DEF Earned, OneForNothing, Account, ForNothing
  <2>2. HeldIsQuiet'
    <3> SUFFICES ASSUME ~Listening PROVE HeldIsQuiet'
      BY <1>1 DEF HeldIsQuiet
    <3>1. events = <<>> /\ ~OneForNothing /\ Earned
      BY DEF ShotsInv, Quiet, OneForNothing
    <3>2. Earned' /\ ~Pressed'
      BY <1>1, <1>5, <1>6, <3>1 DEF ShotsInv, Quiet, Earned, Account, Pressed, Listening
    <3> QED BY <1>6, <3>1, <3>2 DEF HeldIsQuiet
  <2> QED BY <1>3, <2>1, <2>2 DEF ShotsInv
<1>7. CASE Listening /\ events' = Append(events, "press")
  <2>1. Cardinality(Releases(events')) = Cardinality(Releases(events))
    BY <1>4, <1>7, CountAppend
  <2>2. Len(events') = Len(events) + 1 /\ \A i \in 1 .. Len(events) : events'[i] = events[i]
    BY <1>4, <1>7
  <2>3. Earned => Earned'
    BY <1>1, <1>5, <2>1 DEF Earned, Account
  <2>4. OneForNothing => OneForNothing'
    <3> SUFFICES ASSUME NEW i \in 1 .. Len(events), ForNothing(i), Account <= cycles + 1
                 PROVE  OneForNothing'
      BY DEF OneForNothing
    <3>1. ForNothing(i)' /\ i \in 1 .. Len(events')
      BY <1>4, <1>5, <2>2 DEF ForNothing, Releases
    <3> QED BY <1>1, <1>5, <2>1, <3>1 DEF OneForNothing, Account
  <2>5. HeldIsQuiet'
    BY <1>1, <1>7 DEF HeldIsQuiet
  <2> QED BY <1>3, <2>3, <2>4, <2>5 DEF ShotsInv
<1>8. CASE Listening /\ events' = <<"dropped", "press">>
  <2>1. Cardinality(Releases(events')) = 0
    BY <1>4, <1>8, CountFew
  <2>2. Earned'
    BY <1>1, <1>4, <1>5, <2>1, EarnedBefore DEF ShotsInv, Earned, Account
  <2>3. HeldIsQuiet'
    BY <1>1, <1>8 DEF HeldIsQuiet
  <2> QED BY <1>3, <2>2, <2>3 DEF ShotsInv
<1> QED BY <1>2, <1>6, <1>7, <1>8

\* A release of a key pressed while the program listened is paid for; that of a
\* key that was down before may be the one for nothing, since it is the last in
\* a queue without a press.
LEMMA ReleaseKeepsShots ==
    ASSUME ShotsInv, Release
    PROVE  ShotsInv'
<1>1. /\ key \in {"held", "pressed"} /\ key' = "up" /\ Queue("release")
      /\ cycles' = (IF key = "pressed" THEN cycles + 1 ELSE cycles)
      /\ shots' = shots /\ mpc' = mpc
      /\ listing' = listing /\ entry' = entry /\ dev' = dev /\ plugged' = plugged
      /\ press_key_flag' = press_key_flag /\ cut_pic_flag' = cut_pic_flag
  BY DEF Release, search, flags, ShotsInv, DumpTypeOK
<1>2. /\ events' \in Seq(Events) /\ Len(events') <= QueueSize
      /\ mishaps' \subseteq {"vfork", "overflow", "unplugged"}
      /\ \/ events' = events
         \/ Listening /\ events' = Append(events, "release")
         \/ Listening /\ events' = <<"dropped", "release">>
  BY <1>1, QueueStep DEF ShotsInv
<1>3. /\ Cardinality(Releases(events)) \in Nat /\ shots \in Nat /\ cycles \in Nat
      /\ Due \in {0, 1} /\ events \in Seq(Events) /\ "release" \in Events
  BY AccountIsNat DEF ShotsInv, Events
<1>4. DumpTypeOK' /\ Quiet' /\ HeldIsQuiet'
  <2>1. cycles' \in 0 .. MaxPresses
    BY <1>1, <1>3, PressesAssumption DEF ShotsInv, DumpTypeOK, Quiet
  <2>2. key' = "up" /\ (~Listening' <=> ~Listening)
    BY <1>1 DEF Listening
  <2>3. DumpTypeOK'
    BY <1>1, <1>2, <2>1, <2>2 DEF ShotsInv, DumpTypeOK, Listening, IsKeyboard, Events
  <2> QED BY <1>1, <1>2, <2>2, <2>3 DEF ShotsInv, Quiet, HeldIsQuiet, IsKeyboard
<1>5. Due' = Due /\ Pressed' = Pressed
  BY <1>1 DEF Due, Pressed
<1>6. CASE events' = events
  <2>1. Earned => Earned'
    BY <1>1, <1>3, <1>5, <1>6 DEF Earned, Account
  <2>2. OneForNothing => OneForNothing'
    BY <1>1, <1>3, <1>5, <1>6 DEF OneForNothing, Account, ForNothing
  <2> QED BY <1>4, <2>1, <2>2 DEF ShotsInv
<1>7. CASE Listening /\ events' = Append(events, "release")
  <2>1. Cardinality(Releases(events')) = Cardinality(Releases(events)) + 1
    BY <1>3, <1>7, CountAppend
  <2>2. Account' = Account + 1 /\ Account \in Nat
    BY <1>1, <1>3, <1>5, <2>1 DEF Account
  <2>3. /\ Len(events) \in Nat /\ Len(events') = Len(events) + 1
        /\ \A i \in 1 .. Len(events) : events'[i] = events[i]
        /\ events'[Len(events) + 1] = "release"
    BY <1>3, <1>7
  <2>4. CASE key = "pressed"
    <3>1. Earned => Earned'
      BY <1>1, <1>3, <2>2, <2>4 DEF Earned
    <3>2. OneForNothing => OneForNothing'
      <4> SUFFICES ASSUME NEW i \in 1 .. Len(events), ForNothing(i), Account <= cycles + 1
                   PROVE  OneForNothing'
        BY DEF OneForNothing
      <4>1. ForNothing(i)' /\ i \in 1 .. Len(events')
        BY <1>3, <1>5, <2>3 DEF ForNothing, Releases
      <4>2. Account' <= cycles' + 1
        BY <1>1, <1>3, <2>2, <2>4
      <4> QED BY <4>1, <4>2 DEF OneForNothing
    <3> QED BY <1>4, <3>1, <3>2 DEF ShotsInv
  <2>5. CASE key = "held"
    <3>1. Earned /\ ~Pressed /\ \A j \in 1 .. Len(events) : events[j] # "press"
      BY <2>5 DEF ShotsInv, HeldIsQuiet
    <3>2. Account' <= cycles' + 1
      BY <1>1, <1>3, <2>2, <2>5, <3>1 DEF Earned
    <3> PICK n \in Nat : n = Len(events) + 1
      BY <2>3
    <3>3. n \in 1 .. Len(events') /\ n \in Releases(events')
      BY <2>3 DEF Releases
    <3>4. \A j \in 1 .. n - 1 : events'[j] # "press"
      BY <2>3, <3>1
    <3>5. ForNothing(n)'
      BY <1>5, <3>1, <3>3, <3>4 DEF ForNothing
    <3>6. OneForNothing'
      BY <3>2, <3>3, <3>5 DEF OneForNothing
    <3> QED BY <1>4, <3>6 DEF ShotsInv
  <2> QED BY <1>1, <2>4, <2>5
<1>8. CASE Listening /\ events' = <<"dropped", "release">>
  <2>1. Cardinality(Releases(events')) = 1
    BY <1>3, <1>8, CountFew
  <2>2. shots + Due <= cycles
    BY EarnedBefore DEF ShotsInv
  <2>3. CASE key = "pressed"
    <3>1. Earned'
      BY <1>1, <1>3, <1>5, <2>1, <2>2, <2>3 DEF Earned, Account
    <3> QED BY <1>4, <3>1 DEF ShotsInv
  <2>4. CASE key = "held"
    <3>1. ~Pressed /\ Account' <= cycles' + 1
      BY <1>1, <1>3, <1>5, <2>1, <2>2, <2>4 DEF ShotsInv, HeldIsQuiet, Account
    <3>2. Len(events') = 2 /\ events'[1] = "dropped" /\ events'[2] = "release"
      BY <1>8
    <3>3. ForNothing(2)'
      BY <1>5, <3>1, <3>2 DEF ForNothing, Releases
    <3>4. OneForNothing'
      BY <3>1, <3>2, <3>3 DEF OneForNothing
    <3> QED BY <1>4, <3>4 DEF ShotsInv
  <2> QED BY <1>1, <2>3, <2>4
<1> QED BY <1>2, <1>6, <1>7, <1>8

\* Any other event is neither a press nor a release, but may overflow the queue.
LEMMA OtherEventKeepsShots ==
    ASSUME ShotsInv, OtherEvent
    PROVE  ShotsInv'
<1>1. /\ Queue("other") /\ cycles' = cycles /\ key' = key /\ shots' = shots /\ mpc' = mpc
      /\ listing' = listing /\ entry' = entry /\ dev' = dev /\ plugged' = plugged
      /\ press_key_flag' = press_key_flag /\ cut_pic_flag' = cut_pic_flag
  BY DEF OtherEvent, search, flags
<1>2. /\ events' \in Seq(Events) /\ Len(events') <= QueueSize
      /\ mishaps' \subseteq {"vfork", "overflow", "unplugged"}
      /\ \/ events' = events
         \/ Listening /\ events' = Append(events, "other")
         \/ Listening /\ events' = <<"dropped", "other">>
  BY <1>1, QueueStep DEF ShotsInv
<1>3. DumpTypeOK' /\ Quiet'
  BY <1>1, <1>2 DEF ShotsInv, DumpTypeOK, Quiet, Listening, IsKeyboard, Events
<1>4. /\ Cardinality(Releases(events)) \in Nat /\ shots \in Nat /\ cycles \in Nat
      /\ Due \in {0, 1} /\ events \in Seq(Events) /\ "other" \in Events
  BY AccountIsNat DEF ShotsInv, Events
<1>5. Due' = Due /\ Pressed' = Pressed
  BY <1>1 DEF Due, Pressed
<1>6. CASE events' = events
  BY <1>1, <1>3, <1>5, <1>6 DEF ShotsInv, Earned, OneForNothing, Account, ForNothing, HeldIsQuiet
<1>7. CASE events' = Append(events, "other")
  <2>1. Cardinality(Releases(events')) = Cardinality(Releases(events))
    BY <1>4, <1>7, CountAppend
  <2>2. /\ Len(events') = Len(events) + 1 /\ \A i \in 1 .. Len(events) : events'[i] = events[i]
        /\ events'[Len(events) + 1] = "other"
    BY <1>4, <1>7
  <2>3. Earned => Earned'
    BY <1>1, <1>5, <2>1 DEF Earned, Account
  <2>4. OneForNothing => OneForNothing'
    <3> SUFFICES ASSUME NEW i \in 1 .. Len(events), ForNothing(i), Account <= cycles + 1
                 PROVE  OneForNothing'
      BY DEF OneForNothing
    <3>1. ForNothing(i)' /\ i \in 1 .. Len(events')
      BY <1>4, <1>5, <2>2 DEF ForNothing, Releases
    <3> QED BY <1>1, <1>5, <2>1, <3>1 DEF OneForNothing, Account
  <2>5. HeldIsQuiet'
    BY <1>1, <1>4, <1>5, <2>2, <2>3 DEF ShotsInv, HeldIsQuiet
  <2> QED BY <1>3, <2>3, <2>4, <2>5 DEF ShotsInv
<1>8. CASE events' = <<"dropped", "other">>
  <2>1. Cardinality(Releases(events')) = 0
    BY <1>4, <1>8, CountFew
  <2>2. Earned'
    BY <1>1, <1>4, <1>5, <2>1, EarnedBefore DEF ShotsInv, Earned, Account
  <2>3. HeldIsQuiet'
    <3>1. Len(events') = 2 /\ events'[1] = "dropped" /\ events'[2] = "other"
      BY <1>8
    <3> QED BY <1>1, <1>5, <2>2, <3>1 DEF ShotsInv, HeldIsQuiet
  <2> QED BY <1>3, <2>2, <2>3 DEF ShotsInv
<1> QED BY <1>2, <1>6, <1>7, <1>8

\* An unplugged keyboard takes its queue along.
LEMMA UnplugKeepsShots ==
    ASSUME ShotsInv, Unplug
    PROVE  ShotsInv'
<1>1. /\ events' = <<>> /\ cycles' = cycles /\ key' = key /\ shots' = shots /\ mpc' = mpc
      /\ listing' = listing /\ entry' = entry /\ dev' = dev /\ plugged' = FALSE
      /\ press_key_flag' = press_key_flag /\ cut_pic_flag' = cut_pic_flag
      /\ mishaps' = mishaps \cup {"unplugged"}
  BY DEF Unplug, search, flags
<1>2. DumpTypeOK' /\ Quiet'
  <2>1. (~Listening' <=> ~Listening) /\ Len(events') <= QueueSize /\ events' \in Seq(Events)
    BY <1>1, PressesAssumption DEF Listening
  <2>2. DumpTypeOK'
    BY <1>1, <2>1 DEF ShotsInv, DumpTypeOK, Listening, IsKeyboard, Events
  <2> QED BY <1>1, <2>1, <2>2 DEF ShotsInv, Quiet, IsKeyboard
<1>3. Due' = Due /\ Pressed' = Pressed /\ Cardinality(Releases(events')) = 0
  BY <1>1, CountFew DEF Due, Pressed
<1>4. Earned'
  BY <1>1, <1>3, EarnedBefore, AccountIsNat DEF ShotsInv, Earned, Account
<1>5. HeldIsQuiet'
  BY <1>1, <1>3, <1>4 DEF ShotsInv, HeldIsQuiet
<1> QED BY <1>2, <1>4, <1>5 DEF ShotsInv

-----------------------------------------------------------------------------
\* ShotsInv is inductive.
LEMMA ShotsInvHolds == DumpSpec => []ShotsInv
<1>1. DumpInit => ShotsInv
  <2> SUFFICES ASSUME DumpInit PROVE ShotsInv
    OBVIOUS
  <2>1. DumpTypeOK /\ Quiet
    <3>1. listing \in Seq({"other", "copy", "keyboard"}) /\ Len(listing) \in Nat
      BY ListingsAssumption DEF DumpInit
    <3>2. events \in Seq({"press", "release", "other", "dropped"}) /\ Len(events) <= QueueSize
      BY PressesAssumption DEF DumpInit
    <3>3. entry \in 1 .. Len(listing) + 1 /\ dev \in 0 .. Len(listing) /\ cycles \in 0 .. MaxPresses
      BY <3>1, PressesAssumption DEF DumpInit, NoDev
    <3> QED BY <3>2, <3>3 DEF DumpInit, DumpTypeOK, Quiet, Listening, NoDev
  <2>2. Earned
    BY CountFew DEF DumpInit, Earned, Account, Due
  <2>3. HeldIsQuiet
    BY <2>2 DEF DumpInit, HeldIsQuiet, Pressed
  <2> QED BY <2>1, <2>2, <2>3 DEF ShotsInv
<1>2. ShotsInv /\ [DumpNext]_dumpVars => ShotsInv'
  <2>1. ASSUME ShotsInv, UNCHANGED dumpVars PROVE ShotsInv'
    BY <2>1 DEF dumpVars, search, flags, keyboard, ShotsInv, DumpTypeOK, Quiet, Earned, OneForNothing,
                HeldIsQuiet, Account, Due, Pressed, ForNothing, Listening, IsKeyboard
  <2> QED BY <2>1, SearchKeepsShots, ReadEventKeepsShots, PictureKeepsShots, PressKeepsShots,
             ReleaseKeepsShots, OtherEventKeepsShots, UnplugKeepsShots DEF DumpNext, Main
<1> QED BY <1>1, <1>2, PTL DEF DumpSpec

\* The variables of the program and of the kernel's queue keep their types.
THEOREM TypesHold == DumpSpec => []DumpTypeOK
BY ShotsInvHolds, PTL DEF ShotsInv

\* No picture is taken without a press and a release of its own, whatever the
\* kernel drops, however long its queue and whether or not a key was down when
\* main began to listen.
THEOREM PicturesAreExplained == DumpSpec => []ShotsExplained
<1>1. ShotsInv => ShotsExplained
  BY EarnedBefore, AccountIsNat DEF ShotsInv, ShotsExplained
<1> QED BY <1>1, ShotsInvHolds, PTL
=============================================================================
