------------------------ MODULE FrameReceiverProofs ------------------------
(***************************************************************************)
(* What holds of the frame receiver for all types, frames, checksums,      *)
(* sizes and faults: its state is well typed, before each read only a      *)
(* partial frame waits in the queue, the queue never overflows if it has   *)
(* room for one partial frame and one read, and how the bytes are cut into *)
(* datagrams makes no difference.  On a line without faults a report of a  *)
(* sequence number tells of a first number other than 1 or of a wrap to 0, *)
(* and the frames of a type without a report are those of one run of the   *)
(* frames that the board sent, in their order.                             *)
(***************************************************************************)
EXTENDS FrameReceiver, SequenceTheorems, WellFoundedInduction, TLAPS

\* A part of a sequence.
LEMMA PartOf ==
  ASSUME NEW S, NEW s \in Seq(S), NEW m \in Nat, NEW n \in Int, m >= 1, n <= Len(s)
  PROVE  /\ SubSeq(s, m, n) \in Seq(S)
         /\ Len(SubSeq(s, m, n)) = IF m <= n THEN n - m + 1 ELSE 0
  <1>1. \A i \in m .. n : s[i] \in S
    OBVIOUS
  <1> QED  BY <1>1, SubSeqProperties

\* What is left of a sequence after its first n elements.
LEMMA DropProperties ==
  ASSUME NEW S, NEW s \in Seq(S), NEW n \in 0 .. Len(s)
  PROVE  Drop(s, n) \in Seq(S) /\ Len(Drop(s, n)) = Len(s) - n
  <1>1. n + 1 \in Nat /\ n + 1 >= 1 /\ Len(s) \in Int /\ Len(s) <= Len(s)
    OBVIOUS
  <1> QED  BY <1>1, PartOf DEF Drop

-----------------------------------------------------------------------------
\* While the queue is scanned it holds at most a partial frame and one read.
ScanBounded == pc = "scan" => Len(queue) <= maxSize - 1 + ReadSize

IInv == TypeOK /\ OnlyAPartialFrameWaits /\ ScanBounded

\* A partial frame is shorter than the longest frame.
LEMMA PartialIsShort ==
  ASSUME TypeOK, ~ Enough \/ Verdict(queue) = "partial"
  PROVE  Len(queue) <= maxSize - 1
  <1> USE SizesAssumption
  <1>1. CASE ~ Enough
    BY <1>1 DEF Enough, TypeOK, Bytes
  <1>2. CASE Enough /\ Verdict(queue) = "partial"
    <2>1. /\ GetLength(queue) \in FRAME_HEAD_MIN_LEN .. maxSize
          /\ GetLength(queue) > Len(queue)
      BY <1>2 DEF Verdict
    <2> QED  BY <2>1 DEF TypeOK, Bytes
  <1> QED  BY <1>1, <1>2

LEMMA InitIInv == Init => IInv
  <1> SUFFICES ASSUME Init PROVE IInv
    OBVIOUS
  <1> USE SizesAssumption
  <1>1. [t \in Types |-> 0] \in [Types -> Byte]
    BY DEF Byte
  <1>2. start \in [Types -> SeqNos]
    BY DEF Init, SeqNos
  <1>3. TypeOK
    BY <1>1, <1>2 DEF Init, TypeOK, Bytes
  <1>4. OnlyAPartialFrameWaits
    BY DEF Init, OnlyAPartialFrameWaits, Enough
  <1>5. ScanBounded
    BY DEF Init, ScanBounded
  <1> QED  BY <1>3, <1>4, <1>5 DEF IInv

\* The board changes neither the queue nor where the receiver is.
LEMMA SendIInv ==
  ASSUME IInv, NEW t \in Types, NEW p \in Payloads, Send(t, p)
  PROVE  IInv'
  <1> USE SizesAssumption
  <1> DEFINE f == FrameOf(t, next_seq[t], p)
  <1>1. next_seq \in [Types -> SeqNos] /\ next_seq[t] \in SeqNos
    BY DEF IInv, TypeOK
  <1>2. f \in Bytes
    BY <1>1, FramesAssumption DEF SeqNos, Bytes
  <1>3. (next_seq[t] + 1) % SeqNoMod \in SeqNos
    BY <1>1 DEF SeqNos
  <1>4. next_seq' \in [Types -> SeqNos]
    BY <1>1, <1>3 DEF Send
  <1>5. sent' = Append(sent, f) /\ UNCHANGED <<receiver, start, input>>
    BY DEF Send
  <1>6. sent' \in Seq(Bytes)
    BY <1>2, <1>5 DEF IInv, TypeOK
  <1>7. line' \in Seq(Bytes) /\ faults' \subseteq Kinds
    <2>1. CASE line' = Append(line, f) /\ UNCHANGED faults
      BY <1>2, <2>1 DEF IInv, TypeOK
    <2>2. CASE /\ faults' = faults \cup {"cut"}
               /\ \E k \in Cuts \cap 1 .. Len(f) - 1 :
                    line' = line \o << SubSeq(f, 1, k), Drop(f, k) >>
      <3>1. PICK k \in 1 .. Len(f) - 1 :
                   line' = line \o << SubSeq(f, 1, k), Drop(f, k) >>
        BY <2>2
      <3> HIDE DEF f
      <3>2. SubSeq(f, 1, k) \in Bytes
        BY <1>2, <3>1, PartOf DEF Bytes
      <3>3. Drop(f, k) \in Bytes
        BY <1>2, <3>1, DropProperties DEF Bytes
      <3>4. << SubSeq(f, 1, k), Drop(f, k) >> \in Seq(Bytes)
        BY <3>2, <3>3
      <3>5. line' \in Seq(Bytes)
        BY <3>1, <3>4, ConcatProperties DEF IInv, TypeOK
      <3> QED  BY <2>2, <3>5 DEF IInv, TypeOK, Kinds
    <2> QED  BY <2>1, <2>2 DEF Send
  <1> HIDE DEF f
  <1>8. TypeOK'
    BY <1>4, <1>5, <1>6, <1>7 DEF IInv, TypeOK, receiver
  <1>9. OnlyAPartialFrameWaits'
    BY <1>5 DEF IInv, OnlyAPartialFrameWaits, Enough, receiver
  <1>10. ScanBounded'
    BY <1>5 DEF IInv, ScanBounded, receiver
  <1> QED  BY <1>8, <1>9, <1>10 DEF IInv

\* Nor do the faults of the network.
LEMMA NetworkIInv ==
  ASSUME IInv, Network
  PROVE  IInv'
  <1> USE SizesAssumption
  <1>1. line \in Seq(Bytes)
    BY DEF IInv, TypeOK
  <1>2. PICK kind \in Kinds : Faulty(kind)
    BY DEF Network, Lose, Duplicate, Reorder, Noise, Kinds
  <1>3. line' \in Seq(Bytes)
    <2>1. CASE Lose
      <3>1. PICK i \in DOMAIN line : line' = RemoveAt(line, i)
        BY <2>1 DEF Lose
      <3>2. /\ i \in 1 .. Len(line) /\ Len(line) \in Nat
            /\ i - 1 <= Len(line) /\ i + 1 \in Nat /\ i + 1 >= 1 /\ i - 1 \in Int
        BY <1>1, <3>1
      <3>3. SubSeq(line, 1, i - 1) \in Seq(Bytes)
        BY <1>1, <3>2, PartOf, SMTT(30)
      <3>4. SubSeq(line, i + 1, Len(line)) \in Seq(Bytes)
        BY <1>1, <3>2, PartOf, SMTT(30)
      <3> QED  BY <3>1, <3>3, <3>4, ConcatProperties DEF RemoveAt
    <2>2. CASE Duplicate
      BY <1>1, <2>2 DEF Duplicate
    <2>3. CASE Reorder
      BY <1>1, <2>3, SMTT(30) DEF Reorder
    <2>4. CASE \E d \in Noises : Noise(d)
      BY <1>1, <2>4 DEF Noise, Bytes
    <2> QED  BY <2>1, <2>2, <2>3, <2>4 DEF Network
  <1>4. faults' \subseteq Kinds /\ UNCHANGED <<receiver, board, input>>
    BY <1>2 DEF Faulty, IInv, TypeOK
  <1>5. TypeOK'
    BY <1>3, <1>4 DEF IInv, TypeOK, receiver, board
  <1>6. OnlyAPartialFrameWaits'
    BY <1>4 DEF IInv, OnlyAPartialFrameWaits, Enough, receiver
  <1>7. ScanBounded'
    BY <1>4 DEF IInv, ScanBounded, receiver
  <1> QED  BY <1>5, <1>6, <1>7 DEF IInv

\* A read adds at most ReadSize bytes to a partial frame.
LEMMA ReadIInv ==
  ASSUME IInv, Read
  PROVE  IInv'
  <1> USE SizesAssumption
  <1> DEFINE d == line[1]
             n == IF Len(d) < ReadSize THEN Len(d) ELSE ReadSize
             got == SubSeq(d, 1, n)
  <1>1. /\ line \in Seq(Bytes) /\ line # << >> /\ d \in Bytes
        /\ queue \in Bytes /\ input \in Bytes
    BY DEF IInv, TypeOK, Read
  <1>2. /\ queue' = queue \o got /\ input' = input \o got /\ line' = Tail(line)
        /\ pc' = "scan" /\ UNCHANGED <<old_seq, accepted, alarmed, board, faults>>
    BY DEF Read, recvfrom
  <1>3. n \in Nat /\ n <= Len(d) /\ n <= ReadSize
    BY <1>1 DEF Bytes
  <1> HIDE DEF n, d
  <1>4. got \in Bytes /\ Len(got) <= ReadSize
    BY <1>1, <1>3, PartOf DEF Bytes
  <1> HIDE DEF got
  <1>5. queue' \in Bytes /\ Len(queue') = Len(queue) + Len(got)
    BY <1>1, <1>2, <1>4, ConcatProperties DEF Bytes
  <1>6. input' \in Bytes
    BY <1>1, <1>2, <1>4, ConcatProperties DEF Bytes
  <1>7. line' \in Seq(Bytes)
    BY <1>1, <1>2, HeadTailProperties
  <1>8. TypeOK'
    BY <1>2, <1>5, <1>6, <1>7 DEF IInv, TypeOK, board
  <1>9. Len(queue) <= maxSize - 1
    BY PartialIsShort DEF IInv, OnlyAPartialFrameWaits, Read
  <1>10. ScanBounded'
    BY <1>1, <1>4, <1>5, <1>9, SMTT(30) DEF ScanBounded, Bytes
  <1> QED  BY <1>2, <1>8, <1>10 DEF IInv, OnlyAPartialFrameWaits

\* Skipping a byte shortens the queue.
LEMMA SkipByteIInv ==
  ASSUME IInv, SkipByte
  PROVE  IInv'
  <1> USE SizesAssumption
  <1>1. queue \in Bytes /\ queue # << >> /\ pc = "scan"
    BY DEF IInv, TypeOK, SkipByte, Enough, Bytes
  <1>2. queue' \in Bytes /\ Len(queue') = Len(queue) - 1
    BY <1>1, HeadTailProperties DEF SkipByte, Bytes
  <1>3. UNCHANGED <<pc, old_seq, accepted, alarmed, line, board, input, faults>>
    BY DEF SkipByte
  <1>4. TypeOK'
    BY <1>2, <1>3 DEF IInv, TypeOK, board
  <1>5. ScanBounded'
    BY <1>1, <1>2, <1>3 DEF IInv, ScanBounded, Bytes
  <1> QED  BY <1>1, <1>3, <1>4, <1>5 DEF IInv, OnlyAPartialFrameWaits

\* The scan ends exactly when a partial frame is left.
LEMMA AwaitIInv ==
  ASSUME IInv, Await
  PROVE  IInv'
  <1>1. /\ pc' = "read" /\ (Enough => Verdict(queue) = "partial")
        /\ UNCHANGED <<queue, old_seq, accepted, alarmed, line, board, input, faults>>
    BY DEF Await
  <1>2. TypeOK'
    BY <1>1 DEF IInv, TypeOK, board
  <1>3. OnlyAPartialFrameWaits'
    BY <1>1 DEF OnlyAPartialFrameWaits, Enough
  <1> QED  BY <1>1, <1>2, <1>3 DEF IInv, ScanBounded

\* A frame that is taken is in the queue as a whole.
LEMMA AcceptIInv ==
  ASSUME IInv, Accept
  PROVE  IInv'
  <1> USE SizesAssumption
  <1> DEFINE len == GetLength(queue)
             data_buff == SubSeq(queue, 1, len)
             type == data_buff[1]
             seq == CheckSeq(data_buff)
  <1>1. queue \in Bytes /\ pc = "scan" /\ old_seq \in [Types -> Byte]
    BY DEF IInv, TypeOK, Accept
  <1>2. len \in FRAME_HEAD_MIN_LEN .. maxSize /\ len <= Len(queue) /\ queue[1] \in Types
    <2>1. Verdict(queue) = "frame"
      BY DEF Accept
    <2>2. /\ IsFrameHead(queue) /\ len \in FRAME_HEAD_MIN_LEN .. maxSize
          /\ ~ (len > Len(queue))
      BY <2>1 DEF Verdict
    <2> QED  BY <1>1, <2>2 DEF IsFrameHead, Bytes
  <1>3. len \in Nat /\ len >= 4 /\ len \in 0 .. Len(queue)
    BY <1>1, <1>2 DEF Bytes
  <1>4. /\ queue' = Drop(queue, len)
        /\ alarmed' = alarmed \/ (type \in Compared /\ alarmed' = alarmed \cup {type})
        /\ old_seq' = IF type \in Compared THEN [old_seq EXCEPT ![type] = seq] ELSE old_seq
        /\ accepted' = Append(accepted, data_buff)
        /\ UNCHANGED <<pc, line, board, input, faults>>
    BY DEF Accept
  <1> HIDE DEF len
  <1>5. data_buff \in Bytes /\ data_buff[1] = queue[1] /\ data_buff[3] \in Byte
    <2>1. \A i \in 1 .. len : queue[i] \in Byte
      BY <1>1, <1>2, <1>3 DEF Bytes
    <2>2. /\ data_buff \in Seq(Byte)
          /\ \A i \in 1 .. len - 1 + 1 : data_buff[i] = queue[1 + i - 1]
      BY <1>3, <2>1, SubSeqProperties
    <2> HIDE DEF data_buff
    <2>3. data_buff[1] = queue[1] /\ data_buff[3] = queue[3]
      <3>1. /\ 1 \in 1 .. len - 1 + 1 /\ 3 \in 1 .. len - 1 + 1
            /\ 1 + 1 - 1 = 1 /\ 1 + 3 - 1 = 3
        BY <1>3
      <3>2. data_buff[1] = queue[1 + 1 - 1] /\ data_buff[3] = queue[1 + 3 - 1]
        BY <2>2, <3>1
      <3> QED  BY <3>1, <3>2
    <2>4. queue[3] \in Byte
      BY <1>3, <2>1
    <2> QED  BY <2>2, <2>3, <2>4 DEF Bytes
  <1> HIDE DEF data_buff
  <1>6. type \in Types /\ seq \in Byte
    BY <1>2, <1>5 DEF CheckSeq
  <1> HIDE DEF type, seq
  <1>7. queue' \in Bytes /\ Len(queue') = Len(queue) - len
    BY <1>1, <1>3, <1>4, DropProperties DEF Bytes
  <1>8. old_seq' \in [Types -> Byte]
    BY <1>1, <1>4, <1>6
  <1>9. accepted' \in Seq(Bytes) /\ alarmed' \subseteq Compared
    BY <1>4, <1>5, <1>6 DEF IInv, TypeOK
  <1>10. TypeOK'
    BY <1>4, <1>7, <1>8, <1>9 DEF IInv, TypeOK, board
  <1>11. ScanBounded'
    BY <1>1, <1>3, <1>4, <1>7 DEF IInv, ScanBounded, Bytes
  <1> QED  BY <1>1, <1>4, <1>10, <1>11 DEF IInv, OnlyAPartialFrameWaits

LEMMA NextIInv == IInv /\ [Next]_vars => IInv'
  <1> SUFFICES ASSUME IInv, [Next]_vars PROVE IInv'
    OBVIOUS
  <1>1. CASE Receive
    BY <1>1, ReadIInv, SkipByteIInv, AwaitIInv, AcceptIInv DEF Receive
  <1>2. CASE Network
    BY <1>2, NetworkIInv
  <1>3. CASE \E t \in Types, p \in Payloads : Send(t, p)
    BY <1>3, SendIInv
  <1>4. CASE UNCHANGED vars
    BY <1>4 DEF IInv, TypeOK, OnlyAPartialFrameWaits, ScanBounded, Enough,
                vars, receiver, board
  <1> QED  BY <1>1, <1>2, <1>3, <1>4 DEF Next

-----------------------------------------------------------------------------
\* The receiver's state is well typed, and before each read only a partial
\* frame waits: whatever bytes arrive, the loop stops in no other state.
THEOREM OnlyPartialFramesWait == Spec => [](TypeOK /\ OnlyAPartialFrameWaits)
  <1>1. IInv => TypeOK /\ OnlyAPartialFrameWaits
    BY DEF IInv
  <1> QED  BY InitIInv, NextIInv, <1>1, PTL DEF Spec

\* A queue with room for one partial frame and one read never overflows.  The
\* loop's 4096 bytes and reads of 2048 satisfy this for a maxSize up to 2049.
THEOREM QueueNeverOverflows ==
  ASSUME maxSize - 1 + ReadSize <= QueueSize
  PROVE  Spec => []QueueFits
  <1>1. IInv => QueueFits
    <2> SUFFICES ASSUME IInv PROVE QueueFits
      OBVIOUS
    <2>1. CASE pc = "read"
      <3>1. Len(queue) <= maxSize - 1
        BY <2>1, PartialIsShort DEF IInv, OnlyAPartialFrameWaits
      <3> QED  BY <3>1, SizesAssumption DEF QueueFits, IInv, TypeOK, Bytes
    <2>2. CASE pc = "scan"
      BY <2>2, SizesAssumption DEF QueueFits, IInv, ScanBounded, TypeOK, Bytes
    <2> QED  BY <2>1, <2>2 DEF IInv, TypeOK
  <1> QED  BY InitIInv, NextIInv, <1>1, PTL DEF Spec

-----------------------------------------------------------------------------
\* A set of numbers that has 0 and the successor of each member has them all.
LEMMA NatSetInduction ==
    ASSUME NEW S, 0 \in S, \A n \in Nat : n \in S => n + 1 \in S
    PROVE  Nat \subseteq S
<1> DEFINE T == Nat \ S
<1> SUFFICES ASSUME T # {} PROVE FALSE
  OBVIOUS
<1>1. PICK x \in T : \A y \in T : ~ (<<y, x>> \in OpToRel(<, Nat))
  BY NatLessThanWellFounded, WFMin
<1>2. \A y \in T : ~ (y < x)
  BY <1>1 DEF OpToRel
<1>3. x # 0 /\ x - 1 \in Nat /\ x - 1 < x
  OBVIOUS
<1> QED BY <1>2, <1>3

\* The functions that do, for arguments of a measure below n, what is asked.
Partly(S, V, m, stop, pre, nxt, n) ==
  {f \in [{s \in S : m[s] < n} -> Seq(V)] :
     \A s \in S : m[s] < n => f[s] = IF s \in stop THEN << >> ELSE pre[s] \o f[nxt[s]]}

\* f(s) is what is put before its value for what follows s, or nothing.
Unwinds(f, S, stop, pre, nxt) ==
  \A s \in S : f[s] = IF s \in stop THEN << >> ELSE pre[s] \o f[nxt[s]]

\* A function on a set of things that get smaller is defined by what it puts
\* before its value for the smaller one.
LEMMA RecursionExists ==
    ASSUME NEW S, NEW V, NEW m \in [S -> Nat], NEW stop, NEW pre \in [S -> Seq(V)], NEW nxt \in [S -> S],
           \A s \in S : s \notin stop => m[nxt[s]] < m[s]
    PROVE  \E f \in [S -> Seq(V)] : Unwinds(f, S, stop, pre, nxt)
<1> DEFINE P(n) == Partly(S, V, m, stop, pre, nxt, n)
<1>0. \A s \in S : m[s] \in Nat /\ pre[s] \in Seq(V) /\ nxt[s] \in S
  OBVIOUS
<1>1. \A n \in Nat : \A f \in P(n), s \in S : m[s] < n =>
        /\ f[s] \in Seq(V)
        /\ f[s] = IF s \in stop THEN << >> ELSE pre[s] \o f[nxt[s]]
  <2> SUFFICES ASSUME NEW n \in Nat, NEW f \in P(n), NEW s \in S, m[s] < n
               PROVE  /\ f[s] \in Seq(V)
                      /\ f[s] = IF s \in stop THEN << >> ELSE pre[s] \o f[nxt[s]]
    OBVIOUS
  <2>1. f \in [{x \in S : m[x] < n} -> Seq(V)]
    BY DEF Partly
  <2>2. f[s] \in Seq(V)
    BY <2>1
  <2>3. f[s] = IF s \in stop THEN << >> ELSE pre[s] \o f[nxt[s]]
    BY Zenon DEF Partly
  <2> QED BY <2>2, <2>3
<1>2. \A j, k \in Nat : \A f \in P(j), g \in P(k), s \in S : m[s] < j /\ m[s] < k => f[s] = g[s]
  <2> DEFINE Agree == {n \in Nat : \A j, k \in Nat : \A f \in P(j), g \in P(k), s \in S :
                          m[s] < n /\ m[s] < j /\ m[s] < k => f[s] = g[s]}
  <2> HIDE DEF P
  <2>1. 0 \in Agree
    BY <1>0
  <2>2. ASSUME NEW n \in Agree PROVE n + 1 \in Agree
    <3> SUFFICES ASSUME NEW j \in Nat, NEW k \in Nat, NEW f \in P(j), NEW g \in P(k), NEW s \in S,
                        m[s] < n + 1, m[s] < j, m[s] < k
                 PROVE  f[s] = g[s]
      OBVIOUS
    <3>1. CASE s \in stop
      BY <1>1, <3>1
    <3>2. CASE s \notin stop
      <4>1. m[nxt[s]] < n /\ m[nxt[s]] < j /\ m[nxt[s]] < k
        BY <1>0, <3>2
      <4>2. f[nxt[s]] = g[nxt[s]]
        BY <1>0, <4>1
      <4> QED BY <1>1, <3>2, <4>2
    <3> QED BY <3>1, <3>2
  <2> HIDE DEF Agree
  <2>3. Nat \subseteq Agree
    BY <2>1, <2>2, NatSetInduction
  <2>4. \A s \in S : m[s] + 1 \in Agree /\ m[s] < m[s] + 1
    BY <1>0, <2>3
  <2> QED BY <2>4 DEF Agree
<1>3. \A n \in Nat : P(n) # {}
  <2> DEFINE There == {n \in Nat : P(n) # {}}
  <2>1. 0 \in There
    <3>1. [s \in {} |-> << >>] \in P(0)
      BY <1>0 DEF Partly
    <3> QED BY <3>1
  <2>2. ASSUME NEW n \in There PROVE n + 1 \in There
    <3> PICK f \in P(n) : TRUE
      OBVIOUS
    <3> DEFINE val(s) == IF s \in stop THEN << >> ELSE pre[s] \o f[nxt[s]]
               g == [s \in {x \in S : m[x] < n + 1} |-> val(s)]
    <3> HIDE DEF P
    <3>1. \A s \in S : m[s] < n + 1 /\ s \notin stop => m[nxt[s]] < n /\ f[nxt[s]] \in Seq(V)
      BY <1>0, <1>1
    <3>2. \A s \in S : m[s] < n + 1 => val(s) \in Seq(V)
      BY <1>0, <3>1, ConcatProperties
    <3>3. g \in [{s \in S : m[s] < n + 1} -> Seq(V)]
      BY <3>2
    <3>4. \A s \in S : m[s] < n => f[s] = val(s)
      BY <1>1
    <3>5. \A s \in S : m[s] < n => g[s] = f[s]
      BY <1>0, <3>4
    <3>6. \A s \in S : m[s] < n + 1 => g[s] = IF s \in stop THEN << >> ELSE pre[s] \o g[nxt[s]]
      BY <1>0, <3>1, <3>5
    <3>7. g \in P(n + 1)
      <4> HIDE DEF g
      <4> QED BY <3>3, <3>6 DEF P, Partly
    <3> QED BY <3>7
  <2> HIDE DEF There
  <2>3. Nat \subseteq There
    BY <2>1, <2>2, NatSetInduction
  <2> QED BY <2>3 DEF There
<1> DEFINE F == [n \in Nat |-> CHOOSE f : f \in P(n)]
           R == [s \in S |-> F[m[s] + 1][s]]
<1>4. \A n \in Nat : F[n] \in P(n)
  BY <1>3
<1> HIDE DEF F, P
<1>5. \A s \in S : m[s] + 1 \in Nat /\ m[s] < m[s] + 1
  BY <1>0
<1>6. R \in [S -> Seq(V)]
  BY <1>1, <1>4, <1>5
<1>7. ASSUME NEW s \in S PROVE R[s] = IF s \in stop THEN << >> ELSE pre[s] \o R[nxt[s]]
  <2>1. CASE s \in stop
    BY <1>1, <1>4, <1>5, <2>1
  <2>2. CASE s \notin stop
    <3>1. nxt[s] \in S /\ m[nxt[s]] < m[s] + 1 /\ m[nxt[s]] < m[nxt[s]] + 1
      BY <1>0, <2>2
    <3>2. F[m[s] + 1][nxt[s]] = F[m[nxt[s]] + 1][nxt[s]]
      BY <1>2, <1>4, <1>5, <3>1
    <3>3. R[s] = F[m[s] + 1][s] /\ R[nxt[s]] = F[m[nxt[s]] + 1][nxt[s]]
      BY <3>1
    <3> PICK n \in Nat : n = m[s] + 1 /\ m[s] < n
      BY <1>5
    <3>4. F[n] \in P(n)
      BY <1>4
    <3>5. F[n][s] = IF s \in stop THEN << >> ELSE pre[s] \o F[n][nxt[s]]
      BY <1>1, <3>4
    <3> QED BY <2>2, <3>2, <3>3, <3>5
  <2> QED BY <2>1, <2>2
<1> HIDE DEF R
<1>8. Unwinds(R, S, stop, pre, nxt)
  BY <1>7 DEF Unwinds
<1> QED BY <1>6, <1>8

\* More bytes are needed to judge the front of s.
Waiting(s) == Len(s) <= FRAME_HEAD_PACKET_LEN_SIZE \/ Verdict(s) = "partial"

\* The sizes of what a verdict is about.
LEMMA VerdictSizes ==
    ASSUME NEW s \in Bytes, ~Waiting(s)
    PROVE  /\ s # << >> /\ Tail(s) \in Bytes /\ Len(Tail(s)) < Len(s)
           /\ Verdict(s) # "bad" => /\ Verdict(s) = "frame" /\ GetLength(s) \in 4 .. Len(s)
                                    /\ SubSeq(s, 1, GetLength(s)) \in Bytes
                                    /\ Drop(s, GetLength(s)) \in Bytes
                                    /\ Len(Drop(s, GetLength(s))) < Len(s)
<1> USE SizesAssumption
<1>1. Len(s) \in Nat /\ Len(s) > 2 /\ s[2] \in Nat
  <2>1. s \in Seq(Nat) /\ Len(s) \in Nat
    BY SeqMonotonic DEF Bytes, Byte
  <2>2. Len(s) > 2
    BY <2>1 DEF Waiting
  <2> QED BY <2>1, <2>2
<1>2. s # << >> /\ Tail(s) \in Bytes /\ Len(Tail(s)) < Len(s)
  BY <1>1 DEF Bytes
<1>3. ASSUME Verdict(s) # "bad" PROVE Verdict(s) = "frame" /\ GetLength(s) \in 4 .. Len(s)
  <2>1. Verdict(s) = "frame"
    BY <1>3 DEF Verdict, Waiting
  <2>2. GetLength(s) \in FRAME_HEAD_MIN_LEN .. maxSize /\ ~(GetLength(s) > Len(s))
    BY <2>1 DEF Verdict
  <2> QED BY <1>1, <2>1, <2>2 DEF GetLength
<1>4. ASSUME GetLength(s) \in 4 .. Len(s)
      PROVE  /\ SubSeq(s, 1, GetLength(s)) \in Bytes /\ Drop(s, GetLength(s)) \in Bytes
             /\ Len(Drop(s, GetLength(s))) < Len(s)
  <2> PICK k \in 4 .. Len(s) : k = GetLength(s)
    BY <1>4
  <2>1. SubSeq(s, 1, k) \in Bytes /\ Drop(s, k) \in Bytes /\ Len(Drop(s, k)) = Len(s) - k
    BY PartOf, DropProperties, SMTT(30) DEF Bytes
  <2> QED BY <1>1, <2>1
<1> QED BY <1>2, <1>3, <1>4

\* FramesIn is what its definition says: the equation has a solution.
LEMMA FramesInUnfolds ==
    /\ FramesIn \in [Bytes -> Seq(Bytes)]
    /\ \A s \in Bytes : FramesIn[s] =
         IF Waiting(s) THEN << >>
         ELSE IF Verdict(s) = "bad" THEN FramesIn[Tail(s)]
         ELSE << SubSeq(s, 1, GetLength(s)) >> \o FramesIn[Drop(s, GetLength(s))]
<1> DEFINE Body(f, s) == IF Waiting(s) THEN << >>
                         ELSE IF Verdict(s) = "bad" THEN f[Tail(s)]
                         ELSE << SubSeq(s, 1, GetLength(s)) >> \o f[Drop(s, GetLength(s))]
           m == [s \in Bytes |-> Len(s)]
           stop == {s \in Bytes : Waiting(s)}
           pre == [s \in Bytes |-> IF Waiting(s) \/ Verdict(s) = "bad" THEN << >>
                                   ELSE << SubSeq(s, 1, GetLength(s)) >>]
           nxt == [s \in Bytes |-> IF Waiting(s) THEN s ELSE IF Verdict(s) = "bad" THEN Tail(s)
                                   ELSE Drop(s, GetLength(s))]
<1>1. m \in [Bytes -> Nat] /\ pre \in [Bytes -> Seq(Bytes)] /\ nxt \in [Bytes -> Bytes]
  <2>1. \A s \in Bytes : Len(s) \in Nat
    BY DEF Bytes
  <2>2. \A s \in Bytes : (IF Waiting(s) \/ Verdict(s) = "bad" THEN << >>
                                   ELSE << SubSeq(s, 1, GetLength(s)) >>) \in Seq(Bytes)
    BY VerdictSizes
  <2>3. \A s \in Bytes : (IF Waiting(s) THEN s ELSE IF Verdict(s) = "bad" THEN Tail(s)
                                   ELSE Drop(s, GetLength(s))) \in Bytes
    BY VerdictSizes
  <2> QED BY <2>1, <2>2, <2>3
<1>2. \A s \in Bytes : s \notin stop => m[nxt[s]] < m[s]
  BY VerdictSizes
<1>3. PICK f \in [Bytes -> Seq(Bytes)] : \A s \in Bytes : f[s] = IF s \in stop THEN << >> ELSE pre[s] \o f[nxt[s]]
  <2> HIDE DEF m, stop, pre, nxt, Body
  <2>1. \E f \in [Bytes -> Seq(Bytes)] : Unwinds(f, Bytes, stop, pre, nxt)
    BY <1>1, <1>2, RecursionExists
  <2> QED BY <2>1 DEF Unwinds
<1>4. f = [s \in Bytes |-> Body(f, s)]
  <2>1. \A s \in Bytes : f[s] = Body(f, s)
    <3> SUFFICES ASSUME NEW s \in Bytes PROVE f[s] = Body(f, s)
      OBVIOUS
    <3>1. CASE Waiting(s)
      BY <1>3, <3>1
    <3>2. CASE ~Waiting(s) /\ Verdict(s) = "bad"
      <4>1. f[s] = << >> \o f[Tail(s)]
        BY <1>3, <3>2
      <4>2. f[Tail(s)] \in Seq(Bytes)
        BY <3>2, VerdictSizes
      <4> QED BY <3>2, <4>1, <4>2
    <3>3. CASE ~Waiting(s) /\ Verdict(s) # "bad"
      BY <1>3, <3>3
    <3> QED BY <3>1, <3>2, <3>3
  <2> QED BY <2>1
<1>5. FramesIn = CHOOSE g : g = [s \in Bytes |-> Body(g, s)]
  BY DEF FramesIn, Waiting
<1>6. FramesIn = [s \in Bytes |-> Body(FramesIn, s)]
  BY <1>4, <1>5
<1>7. \A s \in Bytes : FramesIn[s] = Body(FramesIn, s)
  BY <1>6
<1>8. \A s \in Bytes : FramesIn[s] \in Seq(Bytes)
  <2> DEFINE Good == {n \in Nat : \A s \in Bytes : Len(s) < n => FramesIn[s] \in Seq(Bytes)}
  <2>0. \A s \in Bytes : Len(s) \in Nat
    BY DEF Bytes
  <2>1. 0 \in Good
    BY <2>0
  <2>2. ASSUME NEW n \in Good PROVE n + 1 \in Good
    <3> SUFFICES ASSUME NEW s \in Bytes, Len(s) < n + 1 PROVE FramesIn[s] \in Seq(Bytes)
      OBVIOUS
    <3>1. CASE Waiting(s)
      <4>1. FramesIn[s] = << >>
        BY <1>7, <3>1, Zenon
      <4> QED BY <4>1
    <3>2. CASE ~Waiting(s) /\ Verdict(s) = "bad"
      <4>1. Tail(s) \in Bytes /\ Len(Tail(s)) < n
        BY <2>0, <3>2, VerdictSizes
      <4>2. FramesIn[Tail(s)] \in Seq(Bytes)
        BY <4>1
      <4> QED BY <1>7, <3>2, <4>2
    <3>3. CASE ~Waiting(s) /\ Verdict(s) # "bad"
      <4> PICK a, d : a = SubSeq(s, 1, GetLength(s)) /\ d = Drop(s, GetLength(s))
        OBVIOUS
      <4>1. a \in Bytes /\ d \in Bytes /\ Len(d) < n
        BY <2>0, <3>3, VerdictSizes
      <4>2. FramesIn[d] \in Seq(Bytes)
        BY <4>1
      <4>3. FramesIn[s] = << a >> \o FramesIn[d]
        BY <1>7, <3>3
      <4> QED BY <4>1, <4>2, <4>3
    <3> QED BY <3>1, <3>2, <3>3
  <2> HIDE DEF Good
  <2>3. Nat \subseteq Good
    BY <2>1, <2>2, NatSetInduction
  <2>4. \A s \in Bytes : Len(s) + 1 \in Good /\ Len(s) < Len(s) + 1
    BY <2>0, <2>3
  <2> QED BY <2>4 DEF Good
<1> QED BY <1>6, <1>7, <1>8

-----------------------------------------------------------------------------
\* Bytes are joined in any order.
Associates(a, b, c) == (a \o b) \o c = a \o (b \o c)

LEMMA JoinAssociates ==
    ASSUME NEW a \in Bytes, NEW b \in Bytes, NEW c \in Bytes
    PROVE  Associates(a, b, c)
<1>1. a \in Seq(Byte) /\ b \in Seq(Byte) /\ c \in Seq(Byte)
  BY DEF Bytes
<1>2. (a \o b) \o c = a \o (b \o c)
  BY <1>1, ConcatAssociative
<1> QED BY <1>2 DEF Associates

\* The front of a sequence does not depend on what follows it.
LEMMA FrontStays ==
    ASSUME NEW S, NEW s \in Seq(S), NEW z \in Seq(S), NEW n \in 1 .. Len(s)
    PROVE  /\ SubSeq(s \o z, 1, n) = SubSeq(s, 1, n) /\ (s \o z)[n] = s[n]
           /\ Drop(s \o z, n) = Drop(s, n) \o z
<1>1. /\ Len(s) \in Nat /\ Len(z) \in Nat /\ s \o z \in Seq(S) /\ Len(s \o z) = Len(s) + Len(z)
      /\ \A i \in 1 .. Len(s) + Len(z) :
           (s \o z)[i] = IF i <= Len(s) THEN s[i] ELSE z[i - Len(s)]
  BY ConcatProperties
<1>2. SubSeq(s \o z, 1, n) = SubSeq(s, 1, n)
  BY <1>1, SubSeqOfConcat1
<1>3. (s \o z)[n] = s[n]
  BY <1>1
<1>4. Drop(s \o z, n) = Drop(s, n) \o z
  <2> DEFINE a == SubSeq(s \o z, n + 1, Len(s) + Len(z))
             b == SubSeq(s, n + 1, Len(s))
  <2>1. \A i \in n + 1 .. Len(s) + Len(z) : (s \o z)[i] \in S
    BY <1>1
  <2>2. /\ a \in Seq(S) /\ Len(a) = Len(s) + Len(z) - n
        /\ \A i \in 1 .. Len(a) : a[i] = (s \o z)[n + i]
    <3> PICK w : w = s \o z
      OBVIOUS
    <3>1. \A i \in n + 1 .. Len(s) + Len(z) : w[i] \in S
      BY <2>1
    <3>2. /\ a \in Seq(S)
          /\ Len(a) = IF n + 1 <= Len(s) + Len(z) THEN Len(s) + Len(z) - (n + 1) + 1 ELSE 0
          /\ \A i \in 1 .. Len(s) + Len(z) - (n + 1) + 1 : a[i] = w[n + 1 + i - 1]
      BY <1>1, <3>1, SubSeqProperties
    <3> HIDE DEF a
    <3>3. Len(a) = Len(s) + Len(z) - n
      BY <1>1, <3>2
    <3>4. \A i \in 1 .. Len(a) : a[i] = w[n + i]
      <4> SUFFICES ASSUME NEW i \in 1 .. Len(a) PROVE a[i] = w[n + i]
        OBVIOUS
      <4>1. i \in 1 .. Len(s) + Len(z) - (n + 1) + 1 /\ n + 1 + i - 1 = n + i
        BY <1>1, <3>3
      <4> QED BY <3>2, <4>1
    <3> QED BY <3>2, <3>3, <3>4
  <2>3. /\ b \in Seq(S) /\ Len(b) = Len(s) - n
        /\ \A i \in 1 .. Len(b) : b[i] = s[n + i]
    <3>1. \A i \in n + 1 .. Len(s) : s[i] \in S
      OBVIOUS
    <3>2. /\ b \in Seq(S)
          /\ Len(b) = IF n + 1 <= Len(s) THEN Len(s) - (n + 1) + 1 ELSE 0
          /\ \A i \in 1 .. Len(s) - (n + 1) + 1 : b[i] = s[n + 1 + i - 1]
      BY <1>1, <3>1, SubSeqProperties
    <3> HIDE DEF b
    <3>3. Len(b) = Len(s) - n
      BY <1>1, <3>2
    <3>4. \A i \in 1 .. Len(b) : b[i] = s[n + i]
      <4> SUFFICES ASSUME NEW i \in 1 .. Len(b) PROVE b[i] = s[n + i]
        OBVIOUS
      <4>1. i \in 1 .. Len(s) - (n + 1) + 1 /\ n + 1 + i - 1 = n + i
        BY <1>1, <3>3
      <4> QED BY <3>2, <4>1
    <3> QED BY <3>2, <3>3, <3>4
  <2> HIDE DEF a, b
  <2>4. /\ b \o z \in Seq(S) /\ Len(b \o z) = Len(b) + Len(z)
        /\ \A i \in 1 .. Len(b) + Len(z) : (b \o z)[i] = IF i <= Len(b) THEN b[i] ELSE z[i - Len(b)]
    BY <2>3, ConcatProperties
  <2>5. \A i \in 1 .. Len(a) : a[i] = (b \o z)[i]
    <3> SUFFICES ASSUME NEW i \in 1 .. Len(a) PROVE a[i] = (b \o z)[i]
      OBVIOUS
    <3>1. i \in 1 .. Len(b) + Len(z) /\ n + i \in 1 .. Len(s) + Len(z) /\ n + i - Len(s) = i - Len(b)
          /\ (i <= Len(b) <=> n + i <= Len(s))
      BY <1>1, <2>2, <2>3
    <3>2. a[i] = IF n + i <= Len(s) THEN s[n + i] ELSE z[n + i - Len(s)]
      BY <1>1, <2>2, <3>1
    <3>3. i <= Len(b) => b[i] = s[n + i]
      BY <1>1, <2>3, <3>1
    <3> QED BY <2>4, <3>1, <3>2, <3>3
  <2>6. Len(a) = Len(b \o z)
    BY <1>1, <2>2, <2>3, <2>4
  <2>7. a = b \o z
    BY <2>2, <2>4, <2>5, <2>6, SeqEqual
  <2> QED BY <1>1, <2>7 DEF a, b, Drop
<1> QED BY <1>2, <1>3, <1>4

LEMMA OneMore ==
    ASSUME NEW S, NEW s \in Seq(S), NEW e \in S, NEW t \in Seq(S)
    PROVE  s \o (<< e >> \o t) = Append(s, e) \o t
<1>1. << e >> \in Seq(S)
  OBVIOUS
<1>2. Append(s, e) = s \o << e >>
  BY AppendIsConcat
<1>3. (s \o << e >>) \o t = s \o (<< e >> \o t)
  BY <1>1, ConcatAssociative
<1> QED BY <1>2, <1>3

\* The tail is what is left after one element.
LEMMA TailDrops ==
    ASSUME NEW S, NEW s \in Seq(S), s # << >>
    PROVE  Tail(s) = Drop(s, 1)
BY TailIsSubSeq DEF Drop

\* A verdict other than to wait does not depend on the bytes that follow.
LEMMA VerdictStays ==
    ASSUME NEW s \in Bytes, NEW z \in Bytes, ~Waiting(s)
    PROVE  /\ s \o z \in Bytes /\ ~Waiting(s \o z) /\ Verdict(s \o z) = Verdict(s)
           /\ GetLength(s \o z) = GetLength(s)
<1> USE SizesAssumption
<1>1. /\ s \in Seq(Byte) /\ z \in Seq(Byte) /\ Len(s) \in Nat /\ Len(z) \in Nat /\ Len(s) > 2
      /\ Len(s) > FRAME_HEAD_PACKET_LEN_SIZE /\ Verdict(s) # "partial"
  BY DEF Bytes, Waiting
<1>2. s \o z \in Seq(Byte) /\ Len(s \o z) = Len(s) + Len(z)
  BY <1>1, ConcatProperties
<1>3. (s \o z)[1] = s[1] /\ (s \o z)[2] = s[2]
  BY <1>1, FrontStays
<1>4. GetLength(s \o z) = GetLength(s) /\ IsFrameHead(s \o z) = IsFrameHead(s)
  BY <1>3 DEF GetLength, IsFrameHead
<1>5. Verdict(s \o z) = Verdict(s)
  <2>1. CASE ~ IsFrameHead(s) \/ GetLength(s) \notin FRAME_HEAD_MIN_LEN .. maxSize
    BY <1>4, <2>1 DEF Verdict
  <2>2. CASE IsFrameHead(s) /\ GetLength(s) \in FRAME_HEAD_MIN_LEN .. maxSize
    <3>1. ~(GetLength(s) > Len(s))
      BY <1>1, <2>2 DEF Verdict
    <3> PICK k \in 4 .. Len(s) : k = GetLength(s)
      BY <1>1, <2>2, <3>1
    <3>2. SubSeq(s \o z, 1, k - 1) = SubSeq(s, 1, k - 1) /\ (s \o z)[k] = s[k]
      BY <1>1, FrontStays, SMTT(20), ZenonT(40)
    <3>3. judge_check_sum(s \o z, k) = judge_check_sum(s, k)
      BY <3>2 DEF judge_check_sum
    <3>4. ~(k > Len(s \o z)) /\ ~(k > Len(s))
      BY <1>1, <1>2
    <3> QED BY <1>4, <2>2, <3>3, <3>4 DEF Verdict
  <2> QED BY <2>1, <2>2
<1>6. ~(Len(s \o z) <= FRAME_HEAD_PACKET_LEN_SIZE)
  BY <1>1, <1>2
<1> QED BY <1>1, <1>2, <1>4, <1>5, <1>6 DEF Bytes, Waiting

\* Whatever is still to come, the frames of all the bytes are those taken and
\* those of the queue with what comes.
SameFrames == \A z \in Bytes : FramesIn[input \o z] = accepted \o FramesIn[queue \o z]

LEMMA SameFramesStep ==
    ASSUME TypeOK, TypeOK', SameFrames, [Next]_vars
    PROVE  SameFrames'
<1>1. /\ queue \in Bytes /\ input \in Bytes /\ accepted \in Seq(Bytes) /\ line \in Seq(Bytes)
      /\ queue' \in Bytes /\ input' \in Bytes
  BY DEF TypeOK
<1>2. CASE UNCHANGED <<queue, input, accepted>>
  BY <1>2 DEF SameFrames
<1>3. CASE Read
  <2> PICK d : d = recvfrom(line[1])
    OBVIOUS
  <2>1. d \in Bytes
    <3> PICK e \in Bytes : e = line[1]
      BY <1>1, <1>3 DEF Read
    <3> PICK n \in Nat : n = (IF Len(e) < ReadSize THEN Len(e) ELSE ReadSize) /\ n <= Len(e)
      BY SizesAssumption DEF Bytes
    <3>1. d = SubSeq(e, 1, n)
      BY DEF recvfrom
    <3> QED BY <3>1, PartOf DEF Bytes
  <2>2. queue' = queue \o d /\ input' = input \o d /\ accepted' = accepted
    BY <1>3 DEF Read
  <2>3. ASSUME NEW z \in Bytes PROVE FramesIn[(input \o d) \o z] = accepted \o FramesIn[(queue \o d) \o z]
    <3>1. d \o z \in Bytes
      BY <2>1, ConcatProperties DEF Bytes
    <3>2. (input \o d) \o z = input \o (d \o z) /\ (queue \o d) \o z = queue \o (d \o z)
      <4>1. Associates(input, d, z) /\ Associates(queue, d, z)
        BY <1>1, <2>1, JoinAssociates
      <4> QED BY <4>1 DEF Associates
    <3> QED BY <3>1, <3>2 DEF SameFrames
  <2> QED BY <2>2, <2>3 DEF SameFrames
<1>4. CASE SkipByte
  <2>1. ~Waiting(queue) /\ Verdict(queue) = "bad" /\ queue # << >>
    <3>1. ~Waiting(queue) /\ Verdict(queue) = "bad"
      BY <1>1, <1>4, SizesAssumption DEF SkipByte, Enough, Waiting, Bytes
    <3> QED BY <1>1, <3>1, VerdictSizes
  <2>2. queue' = Tail(queue) /\ input' = input /\ accepted' = accepted
    BY <1>4 DEF SkipByte
  <2>3. ASSUME NEW z \in Bytes PROVE FramesIn[Tail(queue) \o z] = FramesIn[queue \o z]
    <3>1. queue \o z \in Bytes /\ ~Waiting(queue \o z) /\ Verdict(queue \o z) = "bad"
      BY <1>1, <2>1, VerdictStays
    <3>2. FramesIn[queue \o z] = FramesIn[Tail(queue \o z)]
      BY <3>1, FramesInUnfolds
    <3>3. Tail(queue \o z) = Tail(queue) \o z
      <4>1. queue \o z # << >>
        BY <3>1, VerdictSizes
      <4>2. 1 \in 1 .. Len(queue)
        BY <1>1, <2>1 DEF Bytes
      <4>3. queue \in Seq(Byte) /\ z \in Seq(Byte) /\ queue \o z \in Seq(Byte)
        BY <1>1, <3>1 DEF Bytes
      <4>4. Drop(queue \o z, 1) = Drop(queue, 1) \o z
        BY <4>2, <4>3, FrontStays
      <4>5. Tail(queue \o z) = Drop(queue \o z, 1) /\ Tail(queue) = Drop(queue, 1)
        BY <2>1, <4>1, <4>3, TailDrops
      <4> QED BY <4>4, <4>5
    <3> QED BY <3>2, <3>3
  <2> QED BY <2>2, <2>3 DEF SameFrames
<1>5. CASE Accept
  <2>1. ~Waiting(queue) /\ Verdict(queue) = "frame"
    BY <1>1, <1>5, SizesAssumption DEF Accept, Enough, Waiting, Bytes
  <2> PICK k \in 4 .. Len(queue) : k = GetLength(queue) /\ SubSeq(queue, 1, k) \in Bytes
    BY <1>1, <2>1, VerdictSizes
  <2> PICK f : f = SubSeq(queue, 1, k)
    OBVIOUS
  <2>2. queue' = Drop(queue, k) /\ input' = input /\ accepted' = Append(accepted, f) /\ f \in Bytes
    BY <1>5 DEF Accept
  <2>3. ASSUME NEW z \in Bytes
        PROVE  accepted \o FramesIn[queue \o z] = Append(accepted, f) \o FramesIn[Drop(queue, k) \o z]
    <3>1. /\ queue \o z \in Bytes /\ ~Waiting(queue \o z) /\ Verdict(queue \o z) = "frame"
          /\ GetLength(queue \o z) = k
      BY <1>1, <2>1, VerdictStays
    <3>2. k \in 1 .. Len(queue)
      BY <1>1 DEF Bytes
    <3>3. SubSeq(queue \o z, 1, k) = f /\ Drop(queue \o z, k) = Drop(queue, k) \o z
      BY <1>1, <3>2, FrontStays DEF Bytes
    <3>4. FramesIn[queue \o z] = << f >> \o FramesIn[Drop(queue, k) \o z]
      BY <3>1, <3>3, FramesInUnfolds
    <3> PICK g \in Seq(Bytes) : g = FramesIn[Drop(queue, k) \o z]
      <4>1. Drop(queue, k) \o z \in Bytes
        BY <1>1, <2>2, ConcatProperties DEF Bytes
      <4> QED BY <4>1, FramesInUnfolds
    <3>5. accepted \o (<< f >> \o g) = Append(accepted, f) \o g
      <4>1. accepted \in Seq(Bytes) /\ f \in Bytes /\ g \in Seq(Bytes)
        BY <1>1, <2>2
      <4> QED BY ONLY <4>1, OneMore
    <3> QED BY <3>4, <3>5
  <2> QED BY <2>2, <2>3 DEF SameFrames
<1>6. [Next]_vars => Read \/ SkipByte \/ Accept \/ UNCHANGED <<queue, input, accepted>>
  BY DEF Next, Receive, Network, Await, Send, Lose, Duplicate, Reorder, Noise, Faulty, receiver, board, vars
<1> QED BY <1>2, <1>3, <1>4, <1>5, <1>6

LEMMA InitSameFrames == Init => SameFrames
<1> SUFFICES ASSUME Init, NEW z \in Bytes PROVE FramesIn[<< >> \o z] = << >> \o FramesIn[<< >> \o z]
  BY DEF Init, SameFrames
<1>1. << >> \o z = z
  BY ConcatEmptySeq DEF Bytes
<1>2. FramesIn[z] \in Seq(Bytes)
  BY FramesInUnfolds
<1> QED BY <1>1, <1>2, ConcatEmptySeq

\* Wherever the board, the network or the buffer cut the bytes, the receiver
\* takes the frames that one reading of all of them finds, in their order.
THEOREM CutsDoNotMatter == Spec => []CutsMakeNoDifference
<1>1. ASSUME IInv, IInv', SameFrames, [Next]_vars PROVE SameFrames'
  BY <1>1, SameFramesStep DEF IInv
<1>2. ASSUME IInv, SameFrames PROVE CutsMakeNoDifference
  <2>1. queue \in Bytes /\ input \in Bytes /\ << >> \in Bytes
    BY <1>2 DEF IInv, TypeOK, Bytes
  <2>2. queue \o << >> = queue /\ input \o << >> = input
    BY <2>1, ConcatEmptySeq DEF Bytes
  <2> QED BY <1>2, <2>1, <2>2 DEF SameFrames, CutsMakeNoDifference
<1> QED BY InitSameFrames, <1>1, <1>2, InitIInv, NextIInv, PTL DEF Spec

-----------------------------------------------------------------------------
LEMMA TailIsShorter ==
    ASSUME NEW S, NEW s \in Seq(S), s # << >>, NEW n \in Nat, Len(s) < n + 1
    PROVE  Head(s) \in S /\ Tail(s) \in Seq(S) /\ Len(Tail(s)) < n
<1>1. Head(s) \in S /\ Tail(s) \in Seq(S) /\ Len(Tail(s)) = Len(s) - 1 /\ Len(s) \in Nat
  BY HeadTailProperties, LenProperties
<1> QED BY <1>1

\* The bytes of a sequence of datagrams or frames.
Joined[ss \in Seq(Bytes)] == IF ss = << >> THEN << >> ELSE Head(ss) \o Joined[Tail(ss)]

LEMMA JoinedUnfolds ==
    /\ Joined \in [Seq(Bytes) -> Bytes]
    /\ \A ss \in Seq(Bytes) : Joined[ss] = IF ss = << >> THEN << >> ELSE Head(ss) \o Joined[Tail(ss)]
<1> DEFINE Body(f, s) == IF s = << >> THEN << >> ELSE Head(s) \o f[Tail(s)]
           m == [s \in Seq(Bytes) |-> Len(s)]
           pre == [s \in Seq(Bytes) |-> IF s = << >> THEN << >> ELSE Head(s)]
           nxt == [s \in Seq(Bytes) |-> IF s = << >> THEN s ELSE Tail(s)]
<1>1. \A s \in Seq(Bytes) : Len(s) \in Nat
  OBVIOUS
<1>2. \A s \in Seq(Bytes) : s # << >> => /\ Head(s) \in Bytes /\ Tail(s) \in Seq(Bytes)
                                         /\ Len(Tail(s)) = Len(s) - 1
  BY HeadTailProperties
<1>3. << >> \in Bytes
  BY DEF Bytes
<1>4. m \in [Seq(Bytes) -> Nat] /\ pre \in [Seq(Bytes) -> Bytes] /\ nxt \in [Seq(Bytes) -> Seq(Bytes)]
  BY <1>1, <1>2, <1>3
<1>5. \A s \in Seq(Bytes) : s \notin {<< >>} => m[nxt[s]] < m[s]
  BY <1>1, <1>2
<1>6. PICK f \in [Seq(Bytes) -> Bytes] :
         \A s \in Seq(Bytes) : f[s] = IF s \in {<< >>} THEN << >> ELSE pre[s] \o f[nxt[s]]
  <2> HIDE DEF m, pre, nxt, Body
  <2>1. pre \in [Seq(Bytes) -> Seq(Byte)]
    BY <1>4 DEF Bytes
  <2>2. \E f \in [Seq(Bytes) -> Seq(Byte)] : Unwinds(f, Seq(Bytes), {<< >>}, pre, nxt)
    BY <1>4, <1>5, <2>1, RecursionExists
  <2> QED BY <2>2 DEF Unwinds, Bytes
<1>7. f = [s \in Seq(Bytes) |-> Body(f, s)]
  <2>1. \A s \in Seq(Bytes) : f[s] = Body(f, s)
    BY <1>6
  <2> QED BY <2>1
<1>8. Joined = CHOOSE g : g = [s \in Seq(Bytes) |-> Body(g, s)]
  BY DEF Joined
<1>9. Joined = [s \in Seq(Bytes) |-> Body(Joined, s)]
  BY <1>7, <1>8
<1>10. \A s \in Seq(Bytes) : Joined[s] = Body(Joined, s)
  BY <1>9
<1>11. \A s \in Seq(Bytes) : Joined[s] \in Bytes
  <2> DEFINE Good == {n \in Nat : \A s \in Seq(Bytes) : Len(s) < n => Joined[s] \in Bytes}
  <2>1. 0 \in Good
    BY <1>1
  <2>2. ASSUME NEW n \in Good PROVE n + 1 \in Good
    <3> SUFFICES ASSUME NEW s \in Seq(Bytes), Len(s) < n + 1 PROVE Joined[s] \in Bytes
      OBVIOUS
    <3>1. CASE s = << >>
      BY <1>3, <1>10, <3>1
    <3>2. CASE s # << >>
      <4> PICK h \in Bytes, r \in Seq(Bytes) : h = Head(s) /\ r = Tail(s) /\ Len(r) < n
        BY <3>2, TailIsShorter
      <4>1. Joined[r] \in Bytes
        OBVIOUS
      <4>2. Joined[s] = h \o Joined[r]
        BY <1>10, <3>2
      <4> QED BY <4>1, <4>2, ConcatProperties DEF Bytes
    <3> QED BY <3>1, <3>2
  <2> HIDE DEF Good
  <2>3. Nat \subseteq Good
    BY <2>1, <2>2, NatSetInduction
  <2>4. \A s \in Seq(Bytes) : Len(s) + 1 \in Good /\ Len(s) < Len(s) + 1
    BY <1>1, <2>3
  <2> QED BY <2>4 DEF Good
<1> QED BY <1>9, <1>10, <1>11

\* The bytes of one more.
LEMMA JoinedAppend ==
    ASSUME NEW ss \in Seq(Bytes), NEW d \in Bytes
    PROVE  Joined[Append(ss, d)] = Joined[ss] \o d
<1> DEFINE Good == {n \in Nat : \A s \in Seq(Bytes) : Len(s) < n => Joined[Append(s, d)] = Joined[s] \o d}
<1>1. \A s \in Seq(Bytes) : Len(s) \in Nat
  OBVIOUS
<1>2. 0 \in Good
  BY <1>1
<1>3. ASSUME NEW n \in Good PROVE n + 1 \in Good
  <2> SUFFICES ASSUME NEW s \in Seq(Bytes), Len(s) < n + 1 PROVE Joined[Append(s, d)] = Joined[s] \o d
    OBVIOUS
  <2> PICK a \in Seq(Bytes) : a = Append(s, d) /\ a # << >>
    BY AppendProperties
  <2>1. CASE s = << >>
    <3>1. Head(a) = d /\ Tail(a) = << >>
      BY <2>1
    <3>2. Joined[a] = d \o Joined[<< >>] /\ Joined[<< >>] = << >> /\ Joined[s] = << >>
      <4>1. << >> \in Seq(Bytes)
        OBVIOUS
      <4> QED BY <2>1, <3>1, <4>1, JoinedUnfolds
    <3>3. d \o << >> = d /\ << >> \o d = d
      BY ConcatEmptySeq DEF Bytes
    <3> QED BY <3>2, <3>3
  <2>2. CASE s # << >>
    <3> PICK h \in Bytes, r \in Seq(Bytes) : h = Head(s) /\ r = Tail(s) /\ Len(r) < n
      BY <2>2, TailIsShorter
    <3>1. Head(a) = h /\ Tail(a) = Append(r, d)
      BY <2>2, HeadTailAppend
    <3>2. Joined[Append(r, d)] = Joined[r] \o d
      OBVIOUS
    <3>3. Joined[a] = h \o (Joined[r] \o d)
      BY <3>1, <3>2, JoinedUnfolds
    <3>4. Joined[s] = h \o Joined[r]
      BY <2>2, JoinedUnfolds
    <3> PICK j \in Bytes : j = Joined[r]
      BY JoinedUnfolds
    <3>6. (h \o j) \o d = h \o (j \o d)
      <4>1. Associates(h, j, d)
        BY JoinAssociates
      <4> QED BY <4>1 DEF Associates
    <3> QED BY <3>3, <3>4, <3>6
  <2> QED BY <2>1, <2>2
<1> HIDE DEF Good
<1>4. Nat \subseteq Good
  BY <1>2, <1>3, NatSetInduction
<1>5. Len(ss) + 1 \in Good /\ Len(ss) < Len(ss) + 1
  BY <1>1, <1>4
<1> QED BY <1>5 DEF Good

\* What the board can send.
Sendable == {FrameOf(t, n, p) : t \in Types, n \in SeqNos, p \in Payloads}

\* A frame of the board: the receiver finds it, as long as it is, at the front.
LEMMA SendableIsFrame ==
    ASSUME NEW t \in Types, NEW n \in SeqNos, NEW p \in Payloads, NEW f, f = FrameOf(t, n, p)
    PROVE  /\ f \in Bytes /\ f[1] = t /\ f[3] = n /\ Len(f) <= ReadSize /\ Len(f) >= 4
           /\ ~Waiting(f) /\ Verdict(f) = "frame" /\ GetLength(f) = Len(f)
<1> USE SizesAssumption
<1>1. f \in Seq(Byte)
  BY FramesAssumption DEF SeqNos
<1> DEFINE body == <<t, Len(p) + 4, n>> \o p
<1>2. p \in Seq(Byte) /\ Len(p) \in Nat /\ n \in Nat
  BY DEF SeqNos
<1> PICK T : T = Byte \cup {t, Len(p) + 4, n}
  OBVIOUS
<1>3. /\ body \in Seq(T) /\ Len(body) = Len(p) + 3
      /\ body[1] = t /\ body[2] = Len(p) + 4 /\ body[3] = n
  <2> PICK h : h = <<t, Len(p) + 4, n>>
    OBVIOUS
  <2>1. h \in Seq(T) /\ Len(h) = 3 /\ h[1] = t /\ h[2] = Len(p) + 4 /\ h[3] = n
    OBVIOUS
  <2>2. p \in Seq(T)
    BY <1>2, SeqMonotonic
  <2>3. /\ h \o p \in Seq(T) /\ Len(h \o p) = Len(h) + Len(p)
        /\ \A i \in 1 .. Len(h) + Len(p) : (h \o p)[i] = IF i <= Len(h) THEN h[i] ELSE p[i - Len(h)]
    BY <2>1, <2>2, ConcatProperties
  <2> PICK b : b = h \o p
    OBVIOUS
  <2>4. b[1] = h[1] /\ b[2] = h[2] /\ b[3] = h[3]
    BY <1>2, <2>1, <2>3
  <2>5. Len(b) = Len(p) + 3
    BY <1>2, <2>1, <2>3
  <2> QED BY <2>1, <2>3, <2>4, <2>5
<1>4. f = Append(body, CheckSum(body))
  BY DEF FrameOf
<1> HIDE DEF body
<1> PICK b, c : b = body /\ c = CheckSum(body)
  OBVIOUS
<1> PICK l \in Nat : l = Len(p) + 4
  BY <1>2
<1>5. /\ Len(f) = l /\ f[l] = c /\ \A i \in 1 .. l - 1 : f[i] = b[i]
  BY <1>2, <1>3, <1>4, SMTT(30)
<1>6. f[1] = t /\ f[2] = l /\ f[3] = n
  BY <1>2, <1>3, <1>5
<1>7. SubSeq(f, 1, l - 1) = b
  <2>1. b \in Seq(T) /\ Len(b) = l - 1 /\ l - 1 \in Nat /\ l - 1 <= Len(f)
    BY <1>2, <1>3, <1>5
  <2>2. \A i \in 1 .. l - 1 : f[i] \in T
    BY <1>5, <2>1, ElementOfSeq
  <2> PICK q : q = SubSeq(f, 1, l - 1)
    OBVIOUS
  <2>3. /\ q \in Seq(T) /\ Len(q) = IF 1 <= l - 1 THEN (l - 1) - 1 + 1 ELSE 0
        /\ \A i \in 1 .. (l - 1) - 1 + 1 : q[i] = f[1 + i - 1]
    BY <2>1, <2>2, SubSeqProperties
  <2>4. Len(q) = Len(b)
    BY <2>1, <2>3
  <2>5. \A i \in 1 .. Len(q) : q[i] = b[i]
    <3> SUFFICES ASSUME NEW i \in 1 .. Len(q) PROVE q[i] = b[i]
      OBVIOUS
    <3>1. i \in 1 .. (l - 1) - 1 + 1 /\ i \in 1 .. l - 1 /\ 1 + i - 1 = i
      BY <2>1, <2>4
    <3> QED BY <1>5, <2>3, <3>1
  <2> QED BY <2>1, <2>3, <2>4, <2>5, SeqEqual
<1>8. l \in FRAME_HEAD_MIN_LEN .. maxSize /\ l \in FRAME_HEAD_PACKET_LEN_SIZE + 1 .. ReadSize
  BY FitAssumption
<1>9. GetLength(f) = Len(f) /\ IsFrameHead(f) /\ judge_check_sum(f, l)
  BY <1>5, <1>6, <1>7 DEF GetLength, IsFrameHead, judge_check_sum
<1>10. Verdict(f) = "frame"
  BY <1>5, <1>8, <1>9 DEF Verdict
<1>11. ~Waiting(f)
  BY <1>5, <1>8, <1>10 DEF Waiting
<1> QED BY <1>1, <1>5, <1>6, <1>8, <1>9, <1>10, <1>11 DEF Bytes

\* In the bytes of the board's frames the receiver finds these frames.
LEMMA FramesAreFound ==
    ASSUME NEW ss \in Seq(Sendable)
    PROVE  ss \in Seq(Bytes) /\ FramesIn[Joined[ss]] = ss
<1>0. Sendable \subseteq Bytes
  BY SendableIsFrame DEF Sendable
<1> DEFINE Good == {n \in Nat : \A s \in Seq(Sendable) : Len(s) < n => FramesIn[Joined[s]] = s}
<1>1. \A s \in Seq(Sendable) : Len(s) \in Nat /\ s \in Seq(Bytes)
  BY <1>0, SeqMonotonic
<1>2. 0 \in Good
  BY <1>1
<1>3. ASSUME NEW n \in Good PROVE n + 1 \in Good
  <2> SUFFICES ASSUME NEW s \in Seq(Sendable), Len(s) < n + 1 PROVE FramesIn[Joined[s]] = s
    OBVIOUS
  <2>1. CASE s = << >>
    <3>1. Joined[s] = << >>
      BY <1>1, <2>1, JoinedUnfolds
    <3>2. << >> \in Bytes /\ Waiting(<< >>)
      BY SizesAssumption DEF Bytes, Waiting
    <3> QED BY <2>1, <3>1, <3>2, FramesInUnfolds
  <2>2. CASE s # << >>
    <3> PICK h \in Sendable, r \in Seq(Sendable) : h = Head(s) /\ r = Tail(s) /\ Len(r) < n
      BY <2>2, TailIsShorter
    <3>1. s = << h >> \o r
      BY <2>2
    <3>2. FramesIn[Joined[r]] = r
      OBVIOUS
    <3>3. Joined[s] = h \o Joined[r]
      BY <1>1, <2>2, JoinedUnfolds
    <3>4. h \in Bytes /\ ~Waiting(h) /\ Verdict(h) = "frame" /\ GetLength(h) = Len(h) /\ Len(h) >= 4
      <4> PICK t \in Types, k \in SeqNos, p \in Payloads : h = FrameOf(t, k, p)
        BY DEF Sendable
      <4> QED BY SendableIsFrame
    <3> PICK z \in Bytes : z = Joined[r]
      BY <1>1, JoinedUnfolds
    <3>5. h \o z \in Bytes /\ ~Waiting(h \o z) /\ Verdict(h \o z) = "frame" /\ GetLength(h \o z) = Len(h)
      BY <3>4, VerdictStays
    <3>6. FramesIn[h \o z] = << SubSeq(h \o z, 1, Len(h)) >> \o FramesIn[Drop(h \o z, Len(h))]
      BY <3>5, FramesInUnfolds
    <3>7. SubSeq(h \o z, 1, Len(h)) = h /\ Drop(h \o z, Len(h)) = z
      <4>1. h \in Seq(Byte) /\ z \in Seq(Byte) /\ Len(h) \in 1 .. Len(h)
        BY <3>4 DEF Bytes
      <4>2. SubSeq(h \o z, 1, Len(h)) = SubSeq(h, 1, Len(h)) /\ Drop(h \o z, Len(h)) = Drop(h, Len(h)) \o z
        BY <4>1, FrontStays, ZenonT(40)
      <4>3. SubSeq(h, 1, Len(h)) = h
        BY <4>1, SubSeqFull
      <4>4. Drop(h, Len(h)) = << >>
        BY <4>1, SubSeqEmpty DEF Drop
      <4>5. << >> \o z = z
        BY <4>1, ConcatEmptySeq
      <4> QED BY <4>2, <4>3, <4>4, <4>5
    <3> QED BY <3>1, <3>2, <3>3, <3>6, <3>7
  <2> QED BY <2>1, <2>2
<1> HIDE DEF Good
<1>4. Nat \subseteq Good
  BY <1>2, <1>3, NatSetInduction
<1>5. Len(ss) + 1 \in Good /\ Len(ss) < Len(ss) + 1
  BY <1>1, <1>4
<1> QED BY <1>1, <1>5 DEF Good

-----------------------------------------------------------------------------
\* Without a fault of the network, the bytes read and those in transit are those
\* of the frames sent, and a read takes a datagram as a whole.
WholeLine ==
  faults \subseteq {"cut"} =>
    /\ input \o Joined[line] = Joined[sent]
    /\ \A i \in 1 .. Len(line) : Len(line[i]) <= ReadSize

\* Of the first m frames of s: none is of type t; the last of type t is the j-th;
\* and n is the number that follows.
NoneIn(t, s, m) == \A k \in 1 .. m : s[k][1] # t
LastIn(t, s, m, j) == s[j][1] = t /\ \A k \in j + 1 .. m : s[k][1] # t
Follows(t, s, m, n) ==
  \/ NoneIn(t, s, m) /\ n = start[t]
  \/ \E j \in 1 .. m : LastIn(t, s, m, j) /\ n = (s[j][3] + 1) % SeqNoMod

\* The frames sent are numbered, each type on its own.
Numbered ==
  /\ sent \in Seq(Sendable)
  /\ \A i \in 1 .. Len(sent) : Follows(sent[i][1], sent, i - 1, sent[i][3])
  /\ \A t \in Types : Follows(t, sent, Len(sent), next_seq[t])

\* The number kept of a type that is compared is that of its last frame.
KeptOf(t, s, n) ==
  \/ NoneIn(t, s, Len(s)) /\ n = 0
  \/ \E j \in 1 .. Len(s) : LastIn(t, s, Len(s), j) /\ n = s[j][3]
LastIsKept == \A t \in Compared : KeptOf(t, accepted, old_seq[t])

Explained ==
  faults \subseteq {"cut"} =>
    \A t \in alarmed : \/ start[t] # 1
                       \/ \E i \in 1 .. Len(accepted) : accepted[i][1] = t /\ accepted[i][3] = 0

ReportInv == IInv /\ SameFrames /\ WholeLine /\ Numbered /\ LastIsKept /\ Explained

\* Then the frames taken are the first of those sent.
AreFirstOf(acc, snt) ==
  /\ Len(acc) \in Nat /\ Len(snt) \in Nat /\ Len(acc) <= Len(snt)
  /\ \A i \in 1 .. Len(acc) : acc[i] = snt[i]

LEMMA TakenAreTheFirst ==
    ASSUME NEW inp \in Bytes, NEW q \in Bytes, NEW acc \in Seq(Bytes), NEW ln \in Seq(Bytes),
           NEW snt \in Seq(Sendable), inp \o Joined[ln] = Joined[snt],
           \A z \in Bytes : FramesIn[inp \o z] = acc \o FramesIn[q \o z]
    PROVE  AreFirstOf(acc, snt)
<1> PICK z \in Bytes : z = Joined[ln]
  BY JoinedUnfolds
<1>1. q \o z \in Bytes
  BY ConcatProperties DEF Bytes
<1> PICK g \in Seq(Bytes) : g = FramesIn[q \o z]
  BY <1>1, FramesInUnfolds
<1>2. snt = acc \o g
  BY FramesAreFound
<1> QED BY <1>2, ConcatProperties DEF AreFirstOf

\* The cut parts of a frame are the frame.
LEMMA PartsJoin ==
    ASSUME NEW f \in Bytes, NEW k \in 1 .. Len(f) - 1
    PROVE  /\ SubSeq(f, 1, k) \in Bytes /\ Drop(f, k) \in Bytes
           /\ Len(SubSeq(f, 1, k)) <= Len(f) /\ Len(Drop(f, k)) <= Len(f)
           /\ SubSeq(f, 1, k) \o Drop(f, k) = f
<1>1. f \in Seq(Byte) /\ Len(f) \in Nat /\ k \in 0 .. Len(f)
  BY DEF Bytes
<1>2. /\ SubSeq(f, 1, k) \in Seq(Byte) /\ Len(SubSeq(f, 1, k)) = k
      /\ Drop(f, k) \in Seq(Byte) /\ Len(Drop(f, k)) = Len(f) - k
  BY <1>1, PartOf, DropProperties, SMTT(30)
<1>3. SubSeq(f, 1, k) \o SubSeq(f, k + 1, Len(f)) = SubSeq(f, 1, Len(f))
  <2>1. 1 \in 1 .. Len(f) + 1 /\ k \in 1 - 1 .. Len(f) /\ Len(f) \in k .. Len(f)
    BY <1>1
  <2> QED BY <1>1, <2>1, ConcatAdjacentSubSeq
<1>4. SubSeq(f, 1, Len(f)) = f
  BY <1>1, SubSeqFull
<1> QED BY <1>1, <1>2, <1>3, <1>4 DEF Bytes, Drop

LEMMA WholeLineStep ==
    ASSUME IInv, Numbered, WholeLine, [Next]_vars
    PROVE  WholeLine'
<1> SUFFICES ASSUME faults' \subseteq {"cut"}
             PROVE  /\ input' \o Joined[line'] = Joined[sent']
                    /\ \A i \in 1 .. Len(line') : Len(line'[i]) <= ReadSize
  BY DEF WholeLine
<1>1. /\ line \in Seq(Bytes) /\ input \in Bytes /\ sent \in Seq(Bytes)
      /\ faults \subseteq Kinds /\ next_seq \in [Types -> SeqNos] /\ Joined[line] \in Bytes
      /\ Joined[sent] \in Bytes
  BY JoinedUnfolds DEF IInv, TypeOK
<1>2. CASE UNCHANGED <<input, line, sent, faults>>
  BY <1>2 DEF WholeLine
<1>3. CASE Network
  <2>1. \E kind \in {"lose", "duplicate", "reorder", "noise"} : faults' = faults \cup {kind}
    BY <1>3 DEF Network, Lose, Duplicate, Reorder, Noise, Faulty
  <2> QED BY <2>1
<1>4. ASSUME NEW t \in Types, NEW p \in Payloads, Send(t, p)
      PROVE  /\ input' \o Joined[line'] = Joined[sent']
             /\ \A i \in 1 .. Len(line') : Len(line'[i]) <= ReadSize
  <2> PICK n \in SeqNos : n = next_seq[t]
    BY <1>1
  <2> PICK f : f = FrameOf(t, n, p)
    OBVIOUS
  <2> PICK x \in Bytes, y \in Bytes : x = input /\ y = Joined[line]
    BY <1>1
  <2>1. f \in Bytes /\ Len(f) <= ReadSize
    BY SendableIsFrame
  <2>2. input' = input /\ sent' = Append(sent, f) /\ Joined[sent'] = Joined[sent] \o f
    <3>1. input' = input /\ sent' = Append(sent, f)
      BY <1>4 DEF Send
    <3> QED BY <1>1, <2>1, <3>1, JoinedAppend
  <2>3. faults \subseteq {"cut"}
    BY <1>4 DEF Send
  <2>4. /\ input \o Joined[line] = Joined[sent]
        /\ \A i \in 1 .. Len(line) : Len(line[i]) <= ReadSize
    BY <2>3 DEF WholeLine
  <2>5. CASE line' = Append(line, f)
    <3>1. Joined[line'] = Joined[line] \o f
      BY <1>1, <2>1, <2>5, JoinedAppend
    <3>0. f \in Bytes
      BY <2>1
    <3>2. x \o (y \o f) = (x \o y) \o f
      <4>1. Associates(x, y, f)
        BY ONLY x \in Bytes, y \in Bytes, <3>0, JoinAssociates
      <4> QED BY <4>1 DEF Associates
    <3>3. \A i \in 1 .. Len(line') : Len(line'[i]) <= ReadSize
      BY <1>1, <2>1, <2>4, <2>5
    <3> QED BY <2>2, <2>4, <3>1, <3>2, <3>3
  <2>6. CASE \E k \in Cuts \cap 1 .. Len(f) - 1 : line' = line \o << SubSeq(f, 1, k), Drop(f, k) >>
    <3> PICK k \in 1 .. Len(f) - 1 : line' = line \o << SubSeq(f, 1, k), Drop(f, k) >>
      BY <2>6
    <3> PICK a \in Bytes, b \in Bytes :
           /\ a = SubSeq(f, 1, k) /\ b = Drop(f, k) /\ Len(a) <= ReadSize /\ Len(b) <= ReadSize
           /\ a \o b = f
      <4>1. Len(f) \in Nat /\ ReadSize \in Nat
        BY <2>1, SizesAssumption DEF Bytes
      <4>2. /\ SubSeq(f, 1, k) \in Bytes /\ Drop(f, k) \in Bytes
            /\ Len(SubSeq(f, 1, k)) <= Len(f) /\ Len(Drop(f, k)) <= Len(f)
            /\ SubSeq(f, 1, k) \o Drop(f, k) = f
        BY <2>1, PartsJoin
      <4>3. Len(SubSeq(f, 1, k)) \in Nat /\ Len(Drop(f, k)) \in Nat
        BY <4>2 DEF Bytes
      <4>4. Len(SubSeq(f, 1, k)) <= ReadSize /\ Len(Drop(f, k)) <= ReadSize
        BY <2>1, <4>1, <4>2, <4>3
      <4> QED BY <4>2, <4>4
    <3>1. line' = Append(Append(line, a), b)
      <4>1. line' = line \o << a, b >>
        OBVIOUS
      <4>2. \A s \in Seq(Bytes) : s \o << a, b >> = Append(Append(s, a), b)
        BY ONLY a \in Bytes, b \in Bytes
      <4> QED BY <1>1, <4>1, <4>2
    <3>2. Joined[Append(line, a)] = Joined[line] \o a /\ Append(line, a) \in Seq(Bytes)
      BY <1>1, JoinedAppend, AppendProperties
    <3>3. Joined[line'] = (Joined[line] \o a) \o b
      BY <3>1, <3>2, JoinedAppend, ZenonT(40)
    <3>4. (y \o a) \o b = y \o (a \o b)
      <4>1. Associates(y, a, b)
        BY ONLY y \in Bytes, a \in Bytes, b \in Bytes, JoinAssociates
      <4> QED BY <4>1 DEF Associates
    <3>0. f \in Bytes
      BY <2>1
    <3>5. x \o (y \o f) = (x \o y) \o f
      <4>1. Associates(x, y, f)
        BY ONLY x \in Bytes, y \in Bytes, <3>0, JoinAssociates
      <4> QED BY <4>1 DEF Associates
    <3>6. \A i \in 1 .. Len(line') : Len(line'[i]) <= ReadSize
      <4>1. \A i \in 1 .. Len(Append(line, a)) : Len(Append(line, a)[i]) <= ReadSize
        BY <1>1, <2>4
      <4> PICK l2 \in Seq(Bytes) : l2 = Append(line, a)
        BY <3>2
      <4> QED BY <3>1, <4>1
    <3> QED BY <2>2, <2>4, <3>3, <3>4, <3>5, <3>6
  <2> QED BY <1>4, <2>5, <2>6 DEF Send
<1>5. CASE Read
  <2> PICK d \in Bytes, r \in Seq(Bytes) : d = line[1] /\ r = Tail(line) /\ line # << >> /\ d = Head(line)
    <3>1. line # << >> /\ line \in Seq(Bytes)
      BY <1>1, <1>5 DEF Read
    <3>2. line[1] \in Bytes /\ Tail(line) \in Seq(Bytes) /\ line[1] = Head(line)
      BY <3>1, HeadTailProperties
    <3> QED BY <3>1, <3>2
  <2> PICK x \in Bytes, y \in Bytes : x = input /\ y = Joined[r]
    BY <1>1, JoinedUnfolds
  <2>0. faults' = faults /\ sent' = sent
    BY <1>5 DEF Read, board
  <2>1. /\ input \o Joined[line] = Joined[sent]
        /\ \A i \in 1 .. Len(line) : Len(line[i]) <= ReadSize
    BY <2>0 DEF WholeLine
  <2>2. Len(d) <= ReadSize /\ Len(line) \in Nat /\ Len(d) \in Nat
    BY <1>1, <2>1 DEF Bytes
  <2>3. recvfrom(d) = d
    <3>1. (IF Len(d) < ReadSize THEN Len(d) ELSE ReadSize) = Len(d)
      BY <2>2, SizesAssumption
    <3>2. SubSeq(d, 1, Len(d)) = d
      BY SubSeqFull DEF Bytes
    <3> QED BY <3>1, <3>2 DEF recvfrom
  <2>4. line' = r /\ input' = input \o d
    BY <1>5, <2>3 DEF Read
  <2>5. Joined[line] = d \o Joined[r] /\ Joined[r] \in Bytes
    BY <1>1, JoinedUnfolds
  <2>6. (x \o d) \o y = x \o (d \o y)
    BY ONLY x \in Bytes, d \in Bytes, y \in Bytes, JoinAssociates DEF Associates
  <2>7. \A i \in 1 .. Len(r) : Len(r[i]) <= ReadSize
    <3> SUFFICES ASSUME NEW i \in 1 .. Len(r) PROVE Len(r[i]) <= ReadSize
      OBVIOUS
    <3>1. Len(r) = Len(line) - 1 /\ r[i] = line[i + 1] /\ i + 1 \in 1 .. Len(line)
      BY <1>1, <2>2, HeadTailProperties
    <3> QED BY <2>1, <3>1
  <2> QED BY <2>0, <2>1, <2>4, <2>5, <2>6, <2>7
<1>6. [Next]_vars => \/ Network \/ Read \/ \E t \in Types, p \in Payloads : Send(t, p)
                     \/ UNCHANGED <<input, line, sent, faults>>
  BY DEF Next, Receive, SkipByte, Await, Accept, receiver, board, vars
<1> QED BY <1>2, <1>3, <1>4, <1>5, <1>6

\* What follows depends only on the first frames.
LEMMA FollowsStays ==
    ASSUME NEW t, NEW s, NEW u, NEW m \in Nat, NEW n, \A i \in 1 .. m : s[i] = u[i], Follows(t, s, m, n)
    PROVE  Follows(t, u, m, n)
<1>1. NoneIn(t, s, m) => NoneIn(t, u, m)
  BY DEF NoneIn
<1>2. \A j \in 1 .. m : LastIn(t, s, m, j) => LastIn(t, u, m, j)
  BY DEF LastIn
<1> QED BY <1>1, <1>2 DEF Follows

LEMMA NumberedStep ==
    ASSUME IInv, Numbered, [Next]_vars
    PROVE  Numbered'
<1>1. CASE UNCHANGED <<sent, next_seq, start>>
  BY <1>1 DEF Numbered, Follows
<1>2. ASSUME NEW t \in Types, NEW p \in Payloads, Send(t, p) PROVE Numbered'
  <2> PICK k \in SeqNos : k = next_seq[t]
    BY DEF IInv, TypeOK
  <2> PICK f \in Sendable : f = FrameOf(t, k, p)
    BY DEF Sendable
  <2>0. sent \in Seq(Sendable)
    BY DEF Numbered
  <2> PICK s \in Seq(Sendable) : s = Append(sent, f)
    BY <2>0, AppendProperties
  <2> PICK l \in Nat : l = Len(sent)
    BY DEF Numbered
  <2>1. /\ sent' = s /\ next_seq' = [next_seq EXCEPT ![t] = (@ + 1) % SeqNoMod] /\ start' = start
    BY <1>2 DEF Send
  <2>2. f[1] = t /\ f[3] = k
    BY SendableIsFrame
  <2>3. Len(s) = l + 1 /\ s[l + 1] = f /\ \A i \in 1 .. l : s[i] = sent[i]
    BY DEF Numbered
  <2>6. l \in Nat /\ \A i \in 1 .. l : sent[i] = s[i]
    BY <2>3
  <2>4. ASSUME NEW i \in 1 .. Len(s) PROVE Follows(s[i][1], s, i - 1, s[i][3])
    <3>1. CASE i \in 1 .. l
      <4>1. s[i] = sent[i] /\ i - 1 \in Nat /\ \A j \in 1 .. i - 1 : sent[j] = s[j]
        BY <2>3, <3>1
      <4>2. Follows(sent[i][1], sent, i - 1, sent[i][3])
        BY <3>1 DEF Numbered
      <4>3. Follows(sent[i][1], s, i - 1, sent[i][3])
        BY ONLY <4>1, <4>2, FollowsStays
      <4> QED BY <4>1, <4>3
    <3>2. CASE i = l + 1
      <4>1. Follows(t, sent, l, k)
        BY DEF Numbered
      <4>2. Follows(t, s, l, k)
        BY ONLY <2>6, <4>1, FollowsStays
      <4>3. i - 1 = l
        BY <3>2
      <4> QED BY <2>2, <2>3, <3>2, <4>2, <4>3
    <3> QED BY <2>3, <3>1, <3>2
  <2>5. ASSUME NEW u \in Types PROVE Follows(u, s, Len(s), next_seq'[u])
    <3>1. CASE u = t
      <4>1. next_seq'[u] = (k + 1) % SeqNoMod
        BY <2>1, <3>1 DEF IInv, TypeOK
      <4>2. LastIn(u, s, l + 1, l + 1)
        BY <2>2, <2>3, <3>1 DEF LastIn
      <4>3. l + 1 \in 1 .. l + 1
        OBVIOUS
      <4> QED BY <2>2, <2>3, <4>1, <4>2, <4>3 DEF Follows
    <3>2. CASE u # t
      <4>1. Follows(u, sent, l, next_seq'[u])
        BY <2>1, <3>2 DEF Numbered, IInv, TypeOK
      <4>2. Follows(u, s, l, next_seq'[u])
        BY ONLY <2>6, <4>1, FollowsStays
      <4>3. s[l + 1][1] # u
        BY <2>2, <2>3, <3>2
      <4>4. NoneIn(u, s, l) => NoneIn(u, s, l + 1)
        BY <4>3 DEF NoneIn
      <4>5. \A j \in 1 .. l : LastIn(u, s, l, j) => LastIn(u, s, l + 1, j)
        BY <4>3 DEF LastIn
      <4> QED BY <2>3, <4>2, <4>4, <4>5 DEF Follows
    <3> QED BY <3>1, <3>2
  <2>7. (\A i \in 1 .. Len(sent) : Follows(sent[i][1], sent, i - 1, sent[i][3]))'
    BY <2>1, <2>4 DEF Follows
  <2>8. (\A u \in Types : Follows(u, sent, Len(sent), next_seq[u]))'
    BY <2>1, <2>5 DEF Follows
  <2> QED BY <2>1, <2>7, <2>8 DEF Numbered
<1>3. [Next]_vars => \/ UNCHANGED <<sent, next_seq, start>>
                     \/ \E t \in Types, p \in Payloads : Send(t, p)
  BY DEF Next, Receive, Network, Read, SkipByte, Await, Accept, Lose, Duplicate, Reorder, Noise, Faulty, board, vars
<1> QED BY <1>1, <1>2, <1>3

\* What Accept takes is a sequence of bytes.
LEMMA AcceptTakes ==
    ASSUME IInv, Accept
    PROVE  SubSeq(queue, 1, GetLength(queue)) \in Bytes
<1>1. queue \in Bytes
  BY DEF IInv, TypeOK
<1>2. ~Waiting(queue) /\ Verdict(queue) = "frame"
  BY <1>1, SizesAssumption DEF Accept, Enough, Waiting, Bytes
<1> QED BY <1>1, <1>2, VerdictSizes

LEMMA SmallerIsRest ==
    ASSUME NEW a \in Nat, NEW m \in Nat, a < m
    PROVE  a % m = a
OBVIOUS

\* acc is s with one more frame d at its end.
TakenOnce(s, d, l, acc) ==
  /\ acc \in Seq(Bytes) /\ Len(acc) = l + 1 /\ acc[l + 1] = d
  /\ \A i \in 1 .. l : acc[i] = s[i]
  /\ LastIn(d[1], acc, l + 1, l + 1)
  /\ \A t : t # d[1] =>
       /\ NoneIn(t, s, l) => NoneIn(t, acc, l + 1)
       /\ \A j \in 1 .. l : LastIn(t, s, l, j) => LastIn(t, acc, l + 1, j)

LEMMA OneTaken ==
    ASSUME NEW s \in Seq(Bytes), NEW d \in Bytes, NEW l \in Nat, l = Len(s),
           NEW acc, acc = Append(s, d)
    PROVE  TakenOnce(s, d, l, acc)
<1>1. /\ acc \in Seq(Bytes) /\ Len(acc) = l + 1 /\ acc[l + 1] = d
      /\ \A i \in 1 .. l : acc[i] = s[i]
  BY AppendProperties
<1>2. LastIn(d[1], acc, l + 1, l + 1)
  BY <1>1 DEF LastIn
<1>3. ASSUME NEW t, t # d[1], NoneIn(t, s, l) PROVE NoneIn(t, acc, l + 1)
  BY <1>1, <1>3 DEF NoneIn
<1>4. ASSUME NEW t, t # d[1], NEW j \in 1 .. l, LastIn(t, s, l, j) PROVE LastIn(t, acc, l + 1, j)
  BY <1>1, <1>4, SMTT(30) DEF LastIn
<1> QED BY <1>1, <1>2, <1>3, <1>4 DEF TakenOnce

\* The number kept of a type changes with its last frame only.
LEMMA LastIsKeptStep ==
    ASSUME IInv, LastIsKept, [Next]_vars
    PROVE  LastIsKept'
<1>1. CASE UNCHANGED <<accepted, old_seq>>
  BY <1>1 DEF LastIsKept
<1>2. CASE Accept
  <2>0. queue \in Bytes /\ accepted \in Seq(Bytes) /\ old_seq \in [Types -> Byte]
    BY DEF IInv, TypeOK
  <2> PICK d \in Bytes : d = SubSeq(queue, 1, GetLength(queue))
    BY <1>2, AcceptTakes DEF ReportInv
  <2> PICK l \in Nat : l = Len(accepted)
    BY <2>0
  <2> PICK taken \in Seq(Bytes) : taken = accepted
    BY <2>0
  <2> PICK acc : acc = Append(taken, d)
    OBVIOUS
  <2>1. /\ accepted' = acc
        /\ old_seq' = IF d[1] \in Compared THEN [old_seq EXCEPT ![d[1]] = d[3]] ELSE old_seq
    BY <1>2 DEF Accept, CheckSeq
  <2>9. acc = Append(taken, d) /\ l = Len(taken) /\ taken = accepted
    OBVIOUS
  <2>2. /\ Len(acc) = l + 1 /\ acc[l + 1] = d /\ \A i \in 1 .. l : acc[i] = taken[i]
        /\ LastIn(d[1], acc, l + 1, l + 1)
        /\ \A t : t # d[1] =>
             /\ NoneIn(t, taken, l) => NoneIn(t, acc, l + 1)
             /\ \A j \in 1 .. l : LastIn(t, taken, l, j) => LastIn(t, acc, l + 1, j)
    <3>1. TakenOnce(taken, d, l, acc)
      BY ONLY taken \in Seq(Bytes), d \in Bytes, l \in Nat, <2>9, OneTaken
    <3> QED BY <3>1 DEF TakenOnce
  <2>3. ASSUME NEW t \in Compared
        PROVE  KeptOf(t, acc, old_seq'[t])
    <3>0. t \in Types
      BY SizesAssumption
    <3>1. CASE t = d[1]
      <4>1. old_seq'[t] = d[3]
        BY <2>0, <2>1, <3>0, <3>1
      <4>2. LastIn(t, acc, l + 1, l + 1) /\ l + 1 \in 1 .. l + 1
        BY ONLY l \in Nat, <2>2, <3>1
      <4> QED BY <2>2, <4>1, <4>2, ZenonT(40) DEF KeptOf
    <3>2. CASE t # d[1]
      <4>1. old_seq'[t] = old_seq[t]
        BY <2>0, <2>1, <3>0, <3>2
      <4>4. CASE NoneIn(t, taken, l) /\ old_seq[t] = 0
        BY <2>2, <3>2, <4>1, <4>4 DEF KeptOf
      <4>5. CASE \E j \in 1 .. l : LastIn(t, taken, l, j) /\ old_seq[t] = taken[j][3]
        <5> PICK j \in 1 .. l : LastIn(t, taken, l, j) /\ old_seq[t] = taken[j][3]
          BY <4>5
        <5>1. j \in 1 .. Len(acc) /\ LastIn(t, acc, Len(acc), j) /\ old_seq'[t] = acc[j][3]
          <6>1. j \in 1 .. Len(acc)
            BY ONLY l \in Nat, j \in 1 .. l, <2>2
          <6>2. LastIn(t, acc, l + 1, j)
            BY <2>2, <3>2
          <6>3. old_seq'[t] = acc[j][3]
            BY <2>2, <4>1
          <6> QED BY <2>2, <6>1, <6>2, <6>3
        <5> QED BY <5>1 DEF KeptOf
      <4> QED BY <4>4, <4>5 DEF LastIsKept, KeptOf
    <3> QED BY <3>1, <3>2
  <2> QED BY <2>1, <2>3 DEF LastIsKept
<1>3. [Next]_vars => Accept \/ UNCHANGED <<accepted, old_seq>>
  BY DEF Next, Receive, Network, Read, SkipByte, Await, Lose, Duplicate, Reorder, Noise, Faulty,
         Send, receiver, vars
<1> QED BY <1>1, <1>2, <1>3

\* A number that follows, and is reported, is a first one or the wrap to 0.
LEMMA ReportedNumber ==
    ASSUME NEW t, NEW acc, NEW m \in Nat, NEW old, NEW n, Follows(t, acc, m, n), n - old # 1,
           \A i \in 1 .. m : acc[i][3] \in SeqNos,
           \/ NoneIn(t, acc, m) /\ old = 0
           \/ \E j \in 1 .. m : LastIn(t, acc, m, j) /\ old = acc[j][3]
    PROVE  n = 0 \/ start[t] # 1
<1>1. CASE NoneIn(t, acc, m) /\ old = 0
  <2>1. n = start[t]
    BY <1>1 DEF Follows, NoneIn, LastIn
  <2> QED BY <1>1, <2>1
<1>2. CASE \E j \in 1 .. m : LastIn(t, acc, m, j) /\ old = acc[j][3]
  <2> PICK j \in 1 .. m : LastIn(t, acc, m, j) /\ old = acc[j][3]
    BY <1>2
  <2> PICK i \in 1 .. m : LastIn(t, acc, m, i) /\ n = (acc[i][3] + 1) % SeqNoMod
    BY DEF Follows, NoneIn, LastIn
  <2>1. i = j
    BY DEF LastIn
  <2>2. n = (old + 1) % SeqNoMod /\ old \in 0 .. SeqNoMod - 1
    BY <2>1 DEF SeqNos
  <2>3. SeqNoMod \in Nat \ {0}
    BY SizesAssumption
  <2>4. CASE old + 1 < SeqNoMod
    <3>1. (old + 1) % SeqNoMod = old + 1
      BY <2>2, <2>3, <2>4, SmallerIsRest
    <3> QED BY <2>2, <3>1
  <2>5. CASE old + 1 = SeqNoMod
    <3>1. SeqNoMod % SeqNoMod = 0
      BY <2>3
    <3> QED BY <2>2, <2>5, <3>1
  <2> QED BY <2>2, <2>3, <2>4, <2>5
<1> QED BY <1>1, <1>2

\* On a line without faults the next frame taken is the next of those sent.
LEMMA ExplainedStep ==
    ASSUME ReportInv, IInv', SameFrames', WholeLine', Numbered', [Next]_vars
    PROVE  Explained'
<1> SUFFICES ASSUME faults' \subseteq {"cut"}
             PROVE  \A t \in alarmed' :
                      \/ start'[t] # 1
                      \/ \E i \in 1 .. Len(accepted') : accepted'[i][1] = t /\ accepted'[i][3] = 0
  BY DEF Explained
<1>1. CASE UNCHANGED <<accepted, alarmed, start>> /\ faults \subseteq faults'
  <2>1. \A t \in alarmed : \/ start[t] # 1
                           \/ \E i \in 1 .. Len(accepted) : accepted[i][1] = t /\ accepted[i][3] = 0
    BY <1>1 DEF ReportInv, Explained
  <2> QED BY <1>1, <2>1
<1>2. CASE Accept
  <2>0. queue \in Bytes /\ accepted \in Seq(Bytes)
    BY DEF ReportInv, IInv, TypeOK
  <2> PICK d \in Bytes : d = SubSeq(queue, 1, GetLength(queue))
    BY <1>2, AcceptTakes DEF ReportInv
  <2> PICK l \in Nat : l = Len(accepted)
    BY <2>0
  <2> PICK taken \in Seq(Bytes) : taken = accepted
    BY <2>0
  <2> PICK acc : acc = Append(taken, d)
    OBVIOUS
  <2>1. /\ accepted' = acc /\ UNCHANGED <<start, sent, line, faults, input>>
        /\ alarmed' = IF d[1] \in Compared /\ d[3] - old_seq[d[1]] # 1
                      THEN alarmed \cup {d[1]} ELSE alarmed
    BY <1>2 DEF Accept, CheckSeq, board
  <2>9. acc = Append(taken, d) /\ l = Len(taken) /\ taken = accepted
    OBVIOUS
  <2>2. /\ Len(acc) = l + 1 /\ acc[l + 1] = d /\ \A i \in 1 .. l : acc[i] = taken[i]
        /\ LastIn(d[1], acc, l + 1, l + 1)
        /\ \A t : t # d[1] =>
             /\ NoneIn(t, taken, l) => NoneIn(t, acc, l + 1)
             /\ \A j \in 1 .. l : LastIn(t, taken, l, j) => LastIn(t, acc, l + 1, j)
    <3>1. TakenOnce(taken, d, l, acc)
      BY ONLY taken \in Seq(Bytes), d \in Bytes, l \in Nat, <2>9, OneTaken
    <3> QED BY <3>1 DEF TakenOnce
  <2>3. \A t \in alarmed : \/ start[t] # 1
                           \/ \E i \in 1 .. l : acc[i][1] = t /\ acc[i][3] = 0
    BY <2>1, <2>2 DEF ReportInv, Explained
  <2>4. /\ sent \in Seq(Sendable) /\ acc \in Seq(Bytes)
        /\ Len(sent) \in Nat /\ l + 1 <= Len(sent) /\ \A i \in 1 .. l + 1 : acc[i] = sent[i]
    <3> PICK q : q = queue'
      OBVIOUS
    <3>1. input \in Bytes /\ q \in Bytes /\ acc \in Seq(Bytes) /\ line \in Seq(Bytes)
      BY <2>1 DEF ReportInv, IInv, TypeOK
    <3>2. input \o Joined[line] = Joined[sent]
      BY <2>1 DEF ReportInv, WholeLine
    <3>3. sent \in Seq(Sendable)
      BY DEF ReportInv, Numbered
    <3>4. \A z \in Bytes : FramesIn[input \o z] = acc \o FramesIn[q \o z]
      BY <2>1 DEF SameFrames
    <3>5. /\ Len(acc) \in Nat /\ Len(sent) \in Nat /\ Len(acc) <= Len(sent)
          /\ \A i \in 1 .. Len(acc) : acc[i] = sent[i]
      <4>1. AreFirstOf(acc, sent)
        BY ONLY <3>1, <3>2, <3>3, <3>4, TakenAreTheFirst
      <4> QED BY <4>1 DEF AreFirstOf
    <3> QED BY <2>2, <3>1, <3>3, <3>5
  <2>5. \A i \in 1 .. l + 1 : acc[i][1] \in Types /\ acc[i][3] \in SeqNos
    <3>1. ASSUME NEW f \in Sendable PROVE f[1] \in Types /\ f[3] \in SeqNos
      <4> PICK t \in Types, k \in SeqNos, p \in Payloads : f = FrameOf(t, k, p)
        BY DEF Sendable
      <4> QED BY SendableIsFrame
    <3>2. ASSUME NEW i \in 1 .. l + 1 PROVE acc[i][1] \in Types /\ acc[i][3] \in SeqNos
      <4>1. i \in 1 .. Len(sent)
        BY ONLY l \in Nat, i \in 1 .. l + 1, <2>4
      <4>2. sent[i] \in Sendable
        BY <2>4, <4>1, ElementOfSeq
      <4>3. acc[i] = sent[i]
        BY <2>4
      <4> QED BY <3>1, <4>2, <4>3
    <3> QED BY <3>2
  <2>6. ASSUME d[1] \in Compared, d[3] - old_seq[d[1]] # 1 PROVE d[3] = 0 \/ start[d[1]] # 1
    <3>0. l + 1 \in 1 .. l + 1
      OBVIOUS
    <3> PICK t \in Types, n \in SeqNos : t = d[1] /\ n = d[3]
      BY <2>2, <2>5, <3>0
    <3> PICK old : old = old_seq[t]
      OBVIOUS
    <3>1. Follows(t, sent, l, n)
      <4>1. l + 1 \in 1 .. Len(sent) /\ (l + 1) - 1 = l
        BY ONLY l \in Nat, <2>4
      <4>3. sent[l + 1] = d
        BY <2>2, <2>4, <3>0
      <4>2. \A i \in 1 .. Len(sent) : Follows(sent[i][1], sent, i - 1, sent[i][3])
        BY DEF ReportInv, Numbered
      <4> QED BY <4>1, <4>2, <4>3
    <3>2. \A i \in 1 .. l : sent[i] = accepted[i]
      <4>1. \A i \in 1 .. l : acc[i] = accepted[i]
        BY ONLY <2>2, <2>9
      <4>2. \A i \in 1 .. l : acc[i] = sent[i]
        BY ONLY l \in Nat, <2>4
      <4> QED BY ONLY <4>1, <4>2
    <3>3. Follows(t, accepted, l, n)
      BY ONLY l \in Nat, <3>1, <3>2, FollowsStays
    <3>4. \/ NoneIn(t, accepted, l) /\ old = 0
          \/ \E j \in 1 .. l : LastIn(t, accepted, l, j) /\ old = accepted[j][3]
      BY <2>6 DEF ReportInv, LastIsKept, KeptOf
    <3>5. \A i \in 1 .. l : accepted[i][3] \in SeqNos
      BY <2>2, <2>5
    <3>6. n - old # 1
      BY <2>6
    <3>7. n = 0 \/ start[t] # 1
      BY ONLY l \in Nat, <3>3, <3>4, <3>5, <3>6, ReportedNumber
    <3> QED BY <3>7
  <2>7. ASSUME NEW t \in alarmed'
        PROVE  start[t] # 1 \/ \E i \in 1 .. l + 1 : acc[i][1] = t /\ acc[i][3] = 0
    <3>1. CASE t \in alarmed
      BY <2>3, <3>1
    <3>2. CASE t \notin alarmed
      <4>1. t = d[1] /\ d[1] \in Compared /\ d[3] - old_seq[d[1]] # 1
        BY <2>1, <2>7, <3>2
      <4>2. l + 1 \in 1 .. l + 1
        OBVIOUS
      <4>3. acc[l + 1][1] = t /\ (acc[l + 1][3] = 0 \/ start[t] # 1)
        BY <2>2, <2>6, <4>1
      <4> QED BY <4>2, <4>3
    <3> QED BY <3>1, <3>2
  <2>8. Len(acc) = l + 1
    BY <2>2
  <2>10. accepted' = acc /\ start' = start
    BY <2>1
  <2> QED BY ONLY <2>7, <2>8, <2>10
<1>3. [Next]_vars => Accept \/ (UNCHANGED <<accepted, alarmed, start>> /\ faults \subseteq faults')
  BY DEF Next, Receive, Network, Read, SkipByte, Await, Lose, Duplicate, Reorder, Noise, Faulty,
         Send, receiver, board, vars
<1> QED BY <1>1, <1>2, <1>3

LEMMA InitReportInv == Init => ReportInv
<1> SUFFICES ASSUME Init PROVE ReportInv
  OBVIOUS
<1>1. /\ queue = << >> /\ line = << >> /\ sent = << >> /\ input = << >>
      /\ accepted = << >> /\ alarmed = {} /\ next_seq = start /\ old_seq = [t \in Types |-> 0]
  BY DEF Init
<1>2. IInv
  BY InitIInv
<1>3. << >> \in Bytes /\ << >> \in Seq(Bytes) /\ << >> \in Seq(Sendable) /\ Len(<< >>) = 0
  BY DEF Bytes
<1>4. SameFrames
  BY InitSameFrames
<1>5. WholeLine
  <2>1. Joined[<< >>] = << >> /\ << >> \o << >> = << >>
    <3>1. Joined[<< >>] = << >>
      BY <1>3, JoinedUnfolds
    <3> QED BY <3>1, <1>3, ConcatEmptySeq DEF Bytes
  <2> QED BY <1>1, <1>3, <2>1 DEF WholeLine
<1>6. \A t \in Types : NoneIn(t, << >>, 0)
  BY DEF NoneIn
<1>7. Numbered
  BY <1>1, <1>3, <1>6 DEF Numbered, Follows
<1>8. LastIsKept
  BY <1>1, <1>3, <1>6, SizesAssumption DEF LastIsKept, KeptOf
<1>9. Explained
  BY <1>1 DEF Explained
<1> QED BY <1>2, <1>4, <1>5, <1>7, <1>8, <1>9 DEF ReportInv

LEMMA NextReportInv == ReportInv /\ [Next]_vars => ReportInv'
<1> SUFFICES ASSUME ReportInv, [Next]_vars PROVE ReportInv'
  OBVIOUS
<1>1. IInv /\ SameFrames /\ WholeLine /\ Numbered /\ LastIsKept
  BY DEF ReportInv
<1>2. IInv' /\ SameFrames'
  BY <1>1, NextIInv, SameFramesStep DEF IInv
<1>3. WholeLine' /\ Numbered' /\ LastIsKept'
  BY <1>1, WholeLineStep, NumberedStep, LastIsKeptStep
<1>4. Explained'
  BY <1>2, <1>3, ExplainedStep
<1> QED BY <1>2, <1>3, <1>4 DEF ReportInv

\* ReportsAreExplained, for every board and line without faults: a report tells
\* of a first number other than 1 or of the wrap of the number to 0.
THEOREM ReportsHaveReasons == Spec => []ReportsAreExplained
<1>1. ReportInv => ReportsAreExplained
  <2> SUFFICES ASSUME ReportInv, faults \subseteq {"cut"}, NEW t \in alarmed, start[t] = 1
               PROVE  \E f \in ToSet(accepted) : f[1] = t /\ CheckSeq(f) = 0
    BY DEF ReportsAreExplained
  <2>1. PICK i \in 1 .. Len(accepted) : accepted[i][1] = t /\ accepted[i][3] = 0
    BY DEF ReportInv, Explained
  <2>2. accepted \in Seq(Bytes)
    BY DEF ReportInv, IInv, TypeOK
  <2>3. accepted[i] \in ToSet(accepted)
    BY <2>2 DEF ToSet
  <2> QED BY <2>1, <2>3 DEF CheckSeq
<1> QED BY InitReportInv, NextReportInv, <1>1, PTL DEF Spec

-----------------------------------------------------------------------------
\* The frames sent, and where whole ones of them are when nothing is cut and
\* nobody else sends: in transit, in the queue while it is scanned, or taken.
FramesSent == {sent[i] : i \in 1 .. Len(sent)}

Undivided == faults \cap {"cut", "noise"} = {}

WholeFrames ==
  Undivided =>
    /\ line \in Seq(FramesSent) /\ accepted \in Seq(FramesSent)
    /\ queue \in FramesSent \cup {<< >>}
    /\ pc = "read" => queue = << >>

\* A frame of the board, at the front of the queue: it is taken.
LEMMA SentIsTaken ==
  ASSUME IInv, Numbered, NEW f \in FramesSent
  PROVE  /\ f \in Bytes /\ Len(f) \in Nat /\ Len(f) <= ReadSize /\ f # << >>
         /\ ~Waiting(f) /\ Verdict(f) = "frame" /\ GetLength(f) = Len(f)
         /\ Len(f) > FRAME_HEAD_PACKET_LEN_SIZE
<1>1. sent \in Seq(Sendable)
  BY DEF Numbered
<1>2. f \in Sendable
  BY <1>1 DEF FramesSent
<1> PICK t \in Types, n \in SeqNos, p \in Payloads : f = FrameOf(t, n, p)
  BY <1>2 DEF Sendable
<1>3. /\ f \in Bytes /\ Len(f) <= ReadSize /\ Len(f) >= 4
      /\ ~Waiting(f) /\ Verdict(f) = "frame" /\ GetLength(f) = Len(f)
  BY SendableIsFrame
<1>4. Len(f) \in Nat
  BY <1>3 DEF Bytes
<1>5. f # << >>
  BY <1>3, <1>4
<1>6. Len(f) > FRAME_HEAD_PACKET_LEN_SIZE
  BY <1>3, <1>4, SizesAssumption DEF Waiting
<1> QED BY <1>3, <1>4, <1>5, <1>6

\* Faults of the network give back the datagrams that they found.
LEMMA NetworkKeepsDatagrams ==
  ASSUME NEW X, line \in Seq(X), Lose \/ Duplicate \/ Reorder
  PROVE  line' \in Seq(X)
<1>1. CASE Lose
  <2>1. PICK i \in DOMAIN line : line' = RemoveAt(line, i)
    BY <1>1 DEF Lose
  <2>2. /\ i \in 1 .. Len(line) /\ Len(line) \in Nat
        /\ i - 1 <= Len(line) /\ i + 1 \in Nat /\ i + 1 >= 1 /\ i - 1 \in Int
    BY <2>1
  <2>3. SubSeq(line, 1, i - 1) \in Seq(X)
    BY <2>2, PartOf, SMTT(30)
  <2>4. SubSeq(line, i + 1, Len(line)) \in Seq(X)
    BY <2>2, PartOf, SMTT(30)
  <2> QED BY <2>1, <2>3, <2>4, ConcatProperties DEF RemoveAt
<1>2. CASE Duplicate
  BY <1>2 DEF Duplicate
<1>3. CASE Reorder
  BY <1>3, SMTT(30) DEF Reorder
<1> QED BY <1>1, <1>2, <1>3

\* The first frames sent stay.
LEMMA SentGrows ==
  ASSUME IInv, [Next]_vars
  PROVE  FramesSent \subseteq FramesSent' /\ faults \subseteq faults'
<1>0. sent \in Seq(Bytes)
  BY DEF IInv, TypeOK
<1>1. ASSUME UNCHANGED sent PROVE FramesSent \subseteq FramesSent'
  <2>1. ASSUME NEW i \in 1 .. Len(sent) PROVE sent[i] \in FramesSent'
    <3>1. i \in 1 .. Len(sent') /\ sent'[i] = sent[i]
      BY <1>1
    <3> QED BY <3>1 DEF FramesSent
  <2> QED BY <2>1 DEF FramesSent
<1>2. ASSUME NEW t \in Types, NEW p \in Payloads, Send(t, p) PROVE FramesSent \subseteq FramesSent'
  <2> PICK f : sent' = Append(sent, f)
    BY <1>2 DEF Send
  <2>1. ASSUME NEW i \in 1 .. Len(sent) PROVE sent[i] \in FramesSent'
    <3>1. i \in 1 .. Len(sent') /\ sent'[i] = sent[i]
      BY <1>0
    <3> QED BY <3>1 DEF FramesSent
  <2> QED BY <2>1 DEF FramesSent
<1>3. [Next]_vars => UNCHANGED sent \/ \E t \in Types, p \in Payloads : Send(t, p)
  BY DEF Next, Receive, Network, Read, SkipByte, Await, Accept, Lose, Duplicate, Reorder, Noise, Faulty, board, vars
<1>4. [Next]_vars => faults \subseteq faults'
  BY DEF Next, Receive, Network, Read, SkipByte, Await, Accept, Lose, Duplicate, Reorder, Noise, Faulty, Send, vars
<1> QED BY <1>1, <1>2, <1>3, <1>4

LEMMA WholeFramesStep ==
  ASSUME IInv, Numbered, WholeFrames, [Next]_vars
  PROVE  WholeFrames'
<1> PICK X : X = FramesSent'
  OBVIOUS
<1> SUFFICES ASSUME Undivided'
             PROVE  /\ line' \in Seq(X) /\ accepted' \in Seq(X)
                    /\ queue' \in X \cup {<< >>}
                    /\ pc' = "read" => queue' = << >>
  BY DEF WholeFrames
<1>1. FramesSent \subseteq X /\ Undivided
  BY SentGrows DEF Undivided
<1>2. /\ line \in Seq(FramesSent) /\ accepted \in Seq(FramesSent)
      /\ queue \in FramesSent \cup {<< >>}
      /\ pc = "read" => queue = << >>
  BY <1>1 DEF WholeFrames
<1>3. line \in Seq(X) /\ accepted \in Seq(X)
  BY <1>1, <1>2, SeqMonotonic
<1>4. << >> \in Bytes /\ Len(<< >>) = 0
  BY DEF Bytes
<1>5. CASE Network
  <2>1. UNCHANGED receiver
    BY <1>5 DEF Network, Lose, Duplicate, Reorder, Noise, Faulty
  <2>2. Lose \/ Duplicate \/ Reorder
    BY <1>5 DEF Network, Noise, Faulty, Undivided
  <2>3. line' \in Seq(X)
    BY <1>3, <2>2, NetworkKeepsDatagrams
  <2> QED BY <1>1, <1>2, <1>3, <2>1, <2>3 DEF receiver
<1>6. ASSUME NEW t \in Types, NEW p \in Payloads, Send(t, p)
      PROVE  /\ line' \in Seq(X) /\ UNCHANGED receiver
  <2> PICK f : f = FrameOf(t, next_seq[t], p)
    OBVIOUS
  <2>1. line' = Append(line, f) /\ sent' = Append(sent, f) /\ UNCHANGED receiver
    BY <1>6 DEF Send, Undivided
  <2>2. f \in X
    <3>1. sent \in Seq(Bytes) /\ Len(sent) \in Nat
      BY DEF IInv, TypeOK
    <3>2. Len(sent') = Len(sent) + 1 /\ sent'[Len(sent')] = f
      BY <2>1, <3>1
    <3>3. Len(sent') \in 1 .. Len(sent')
      BY <3>1, <3>2
    <3> QED BY <3>2, <3>3 DEF FramesSent
  <2>3. Append(line, f) \in Seq(X)
    BY ONLY <1>3, <2>2, AppendProperties
  <2> QED BY <2>1, <2>3
<1>7. CASE Read
  <2> PICK f : f = line[1]
    OBVIOUS
  <2>1. line # << >> /\ queue = << >> /\ line' = Tail(line) /\ queue' = queue \o recvfrom(f)
        /\ pc' = "scan" /\ accepted' = accepted
    BY <1>2, <1>7 DEF Read
  <2>2. f \in FramesSent /\ Tail(line) \in Seq(X)
    <3>1. Head(line) \in FramesSent /\ Tail(line) \in Seq(FramesSent) /\ line[1] = Head(line)
      BY ONLY <1>2, <2>1, HeadTailProperties
    <3> QED BY <1>1, <3>1, SeqMonotonic
  <2>3. f \in Seq(Byte) /\ Len(f) \in Nat /\ Len(f) <= ReadSize
    BY <2>2, SentIsTaken DEF Bytes
  <2>4. recvfrom(f) = f
    <3>1. (IF Len(f) < ReadSize THEN Len(f) ELSE ReadSize) = Len(f)
      BY <2>3, SizesAssumption
    <3>2. SubSeq(f, 1, Len(f)) = f
      BY <2>3, SubSeqFull
    <3> QED BY <3>1, <3>2 DEF recvfrom
  <2>5. << >> \o f = f
    BY <2>3, ConcatEmptySeq
  <2> QED BY <1>1, <1>3, <2>1, <2>2, <2>4, <2>5
<1>8. CASE SkipByte
  <2>1. Enough /\ Verdict(queue) = "bad"
    BY <1>8 DEF SkipByte
  <2>2. queue \in FramesSent
    BY <1>2, <1>4, <2>1, SizesAssumption DEF Enough
  <2> QED BY <2>1, <2>2, SentIsTaken
<1>9. CASE Await
  <2>1. UNCHANGED <<queue, accepted, line>> /\ (Enough => Verdict(queue) = "partial")
    BY <1>9 DEF Await
  <2>2. queue \notin FramesSent
    BY <2>1, SentIsTaken DEF Enough
  <2> QED BY <1>2, <1>3, <2>1, <2>2
<1>10. CASE Accept
  <2> PICK f, l : f = queue /\ l = GetLength(f)
    OBVIOUS
  <2>1. /\ Enough /\ queue' = Drop(f, l) /\ accepted' = Append(accepted, SubSeq(f, 1, l))
        /\ UNCHANGED <<pc, line>> /\ pc = "scan"
    BY <1>10 DEF Accept
  <2>2. f \in FramesSent
    BY <1>2, <1>4, <2>1, SizesAssumption DEF Enough
  <2>3. f \in Seq(Byte) /\ l = Len(f)
    BY <2>2, SentIsTaken DEF Bytes
  <2>4. SubSeq(f, 1, l) = f /\ Drop(f, l) = << >>
    BY ONLY <2>3, SubSeqFull, SubSeqEmpty DEF Drop
  <2>5. Append(accepted, f) \in Seq(X)
    BY <1>1, <1>3, <2>2, AppendProperties
  <2> QED BY <1>3, <2>1, <2>4, <2>5
<1>11. CASE UNCHANGED vars
  BY <1>1, <1>2, <1>3, <1>11 DEF vars, receiver
<1> QED BY <1>1, <1>2, <1>3, <1>5, <1>6, <1>7, <1>8, <1>9, <1>10, <1>11 DEF Next, Receive, receiver

-----------------------------------------------------------------------------
\* Numbers modulo m: the quotient and the rest, named.
LEMMA DivMod ==
  ASSUME NEW a \in Nat, NEW m \in Nat \ {0}
  PROVE  \E q \in Nat, r \in 0 .. m - 1 : q = a \div m /\ r = a % m /\ q * m + r = a
<1>1. a % m \in 0 .. m - 1
  OBVIOUS
<1>2. a \div m \in Nat
  OBVIOUS
<1>3. a % m = a - (a \div m) * m
  OBVIOUS
<1> PICK q \in Nat, r \in 0 .. m - 1 : q = a \div m /\ r = a % m
  BY <1>1, <1>2
<1>4. r = a - q * m
  BY <1>3
<1>5. q * m \in Nat
  OBVIOUS
<1>6. q * m + r = a
  BY <1>4, <1>5
<1> QED BY <1>6

\* Products keep the order.
LEMMA NotSmaller ==
  ASSUME NEW m \in Nat, NEW a \in Nat, NEW b \in Nat, a < b
  PROVE  a * m + m <= b * m
<1>1. PICK d \in Nat : b = a + 1 + d
  <2>1. b - a - 1 \in Nat /\ b = a + 1 + (b - a - 1)
    OBVIOUS
  <2> QED BY <2>1
<1>2. b * m = a * m + m + d * m /\ d * m \in Nat /\ a * m \in Nat
  BY <1>1
<1> QED BY <1>2

\* A quotient and a rest are the only ones.
LEMMA DivIs ==
  ASSUME NEW m \in Nat \ {0}, NEW q \in Nat, NEW r \in 0 .. m - 1, NEW a, q * m + r = a
  PROVE  a \div m = q /\ a % m = r
<1>1. a \in Nat
  OBVIOUS
<1> PICK p \in Nat, s \in 0 .. m - 1 : p = a \div m /\ s = a % m /\ p * m + s = a
  BY <1>1, DivMod
<1>2. q * m \in Nat /\ p * m \in Nat
  BY ONLY q \in Nat, p \in Nat, m \in Nat \ {0}
<1>3. CASE p < q
  <2>1. p * m + m <= q * m
    BY <1>3, NotSmaller
  <2> QED BY <1>2, <2>1
<1>4. CASE q < p
  <2>1. q * m + m <= p * m
    BY <1>4, NotSmaller
  <2> QED BY <1>2, <2>1
<1>5. CASE p = q
  <2> PICK k \in Nat : k = q * m /\ k + r = a /\ k + s = a
    BY <1>2, <1>5
  <2>1. k + r = a /\ k + s = a
    OBVIOUS
  <2>2. r = s
    BY ONLY <2>1, k \in Nat, r \in 0 .. m - 1, s \in 0 .. m - 1, m \in Nat \ {0}
  <2> QED BY <1>5, <2>2
<1>6. p < q \/ q < p \/ p = q
  BY ONLY p \in Nat, q \in Nat
<1> QED BY <1>3, <1>4, <1>5, <1>6

\* The rest of the next number.
LEMMA ModNext ==
  ASSUME NEW m \in Nat \ {0}, NEW a \in Nat
  PROVE  ((a % m) + 1) % m = (a + 1) % m
<1> PICK q \in Nat, r \in 0 .. m - 1 : q = a \div m /\ r = a % m /\ q * m + r = a
  BY DivMod
<1> PICK x \in Nat : x = q * m
  BY ONLY q \in Nat, m \in Nat \ {0}
<1> PICK b \in Nat : b = a + 1 /\ b = x + r + 1
  <2>1. a + 1 \in Nat /\ a + 1 = x + r + 1
    OBVIOUS
  <2> QED BY <2>1
<1>1. CASE r + 1 < m
  <2> PICK w \in 0 .. m - 1 : w = r + 1
    <3>1. r + 1 \in 0 .. m - 1
      BY ONLY <1>1, r \in 0 .. m - 1, m \in Nat \ {0}
    <3> QED BY <3>1
  <2>1. q * m + w = b
    <3>1. x + w = b
      OBVIOUS
    <3> QED BY <3>1
  <2>2. b % m = w
    BY ONLY <2>1, q \in Nat, w \in 0 .. m - 1, m \in Nat \ {0}, DivIs
  <2>3. w % m = w
    BY ONLY w \in 0 .. m - 1, m \in Nat \ {0}
  <2> QED BY <2>2, <2>3
<1>2. CASE r + 1 = m
  <2> PICK p \in Nat, z \in 0 .. m - 1 : p = q + 1 /\ z = 0
    OBVIOUS
  <2>1. p * m + z = b
    <3>1. p * m = q * m + m
      BY ONLY q \in Nat, m \in Nat \ {0}, p = q + 1
    <3>2. p * m = x + m
      BY <3>1
    <3> QED BY <1>2, <3>2
  <2>2. b % m = z
    BY ONLY <2>1, p \in Nat, z \in 0 .. m - 1, m \in Nat \ {0}, DivIs
  <2>3. m % m = 0
    BY ONLY m \in Nat \ {0}
  <2> QED BY <1>2, <2>2, <2>3
<1> QED BY <1>1, <1>2

\* Numbers less than m apart have different rests.
LEMMA ModOnce ==
  ASSUME NEW m \in Nat \ {0}, NEW a \in Nat, NEW x \in 0 .. m - 1, NEW y \in 0 .. m - 1,
         (a + x) % m = (a + y) % m
  PROVE  x = y
<1>1. ASSUME NEW b \in Nat, NEW d \in Nat, b < d, d < b + m, b % m = d % m PROVE FALSE
  <2> PICK q \in Nat, r \in 0 .. m - 1 : q = b \div m /\ r = b % m /\ q * m + r = b
    BY <1>1, DivMod
  <2> PICK p \in Nat, s \in 0 .. m - 1 : p = d \div m /\ s = d % m /\ p * m + s = d
    BY <1>1, DivMod
  <2>1. r = s
    BY <1>1
  <2> PICK u \in Nat, v \in Nat : u = q * m /\ v = p * m
    BY ONLY q \in Nat, p \in Nat, m \in Nat \ {0}
  <2>2. u < v /\ v < u + m
    BY <1>1, <2>1
  <2>3. CASE q < p
    <3>1. u + m <= v
      BY <2>3, NotSmaller
    <3> QED BY ONLY <2>2, <3>1, u \in Nat, v \in Nat, m \in Nat \ {0}
  <2>4. CASE p < q
    <3>1. v + m <= u
      BY <2>4, NotSmaller
    <3> QED BY ONLY <2>2, <3>1, u \in Nat, v \in Nat, m \in Nat \ {0}
  <2>5. CASE p = q
    BY <2>2, <2>5
  <2> QED BY <2>3, <2>4, <2>5
<1>2. /\ a + x \in Nat /\ a + y \in Nat /\ a + x < (a + y) + m /\ a + y < (a + x) + m
      /\ x < y => a + x < a + y
      /\ y < x => a + y < a + x
      /\ x < y \/ y < x \/ x = y
  OBVIOUS
<1>3. ~(x < y)
  BY <1>1, <1>2
<1>4. ~(y < x)
  BY <1>1, <1>2
<1> QED BY <1>2, <1>3, <1>4

\* The frames sent of a type have consecutive numbers: rank[i] of its frames were
\* sent before the one at place i.
RankedBy(t, s, c, rank) ==
  /\ c \in 0 .. Len(s) /\ rank \in [1 .. Len(s) -> Nat]
  /\ \A i \in 1 .. Len(s) : s[i][1] = t => rank[i] < c /\ s[i][3] = (start[t] + rank[i]) % SeqNoMod
  /\ \A i, j \in 1 .. Len(s) : s[i][1] = t /\ s[j][1] = t /\ i < j => rank[i] < rank[j]

Ranked ==
  \A t \in Types : \E c, rank : /\ RankedBy(t, sent, c, rank)
                                /\ next_seq[t] = (start[t] + c) % SeqNoMod

LEMMA RankedStep ==
  ASSUME IInv, Ranked, [Next]_vars
  PROVE  Ranked'
<1>1. ASSUME UNCHANGED <<sent, next_seq, start>> PROVE Ranked'
  BY <1>1 DEF Ranked, RankedBy
<1>2. ASSUME NEW t \in Types, NEW p \in Payloads, Send(t, p) PROVE Ranked'
  <2>0. /\ sent \in Seq(Bytes) /\ next_seq \in [Types -> SeqNos] /\ start \in [Types -> Starts]
    BY DEF IInv, TypeOK
  <2> PICK k \in SeqNos : k = next_seq[t]
    BY <2>0
  <2> PICK f \in Bytes : f = FrameOf(t, k, p) /\ f[1] = t /\ f[3] = k
    BY SendableIsFrame
  <2> PICK l \in Nat : l = Len(sent)
    BY <2>0
  <2> PICK s : s = Append(sent, f)
    OBVIOUS
  <2>1. /\ sent' = s /\ next_seq' = [next_seq EXCEPT ![t] = (@ + 1) % SeqNoMod] /\ start' = start
    BY <1>2 DEF Send
  <2>2. Len(s) = l + 1 /\ s[l + 1] = f /\ \A i \in 1 .. l : s[i] = sent[i]
    BY ONLY <2>0, f \in Bytes, l = Len(sent), s = Append(sent, f), AppendProperties
  <2>3. ASSUME NEW u \in Types
        PROVE  \E c, rank : RankedBy(u, s, c, rank) /\ next_seq'[u] = (start[u] + c) % SeqNoMod
    <3> PICK c, rank : RankedBy(u, sent, c, rank) /\ next_seq[u] = (start[u] + c) % SeqNoMod
      BY DEF Ranked
    <3>1. /\ c \in 0 .. l /\ rank \in [1 .. l -> Nat]
          /\ \A i \in 1 .. l : s[i][1] = u => rank[i] < c /\ s[i][3] = (start[u] + rank[i]) % SeqNoMod
          /\ \A i, j \in 1 .. l : s[i][1] = u /\ s[j][1] = u /\ i < j => rank[i] < rank[j]
      BY <2>2 DEF RankedBy
    <3> PICK e \in 0 .. l + 1 : e = IF u = t THEN c + 1 ELSE c
      BY <3>1
    <3> PICK r : r = [i \in 1 .. l + 1 |-> IF i <= l THEN rank[i] ELSE c]
      OBVIOUS
    <3>2. r \in [1 .. l + 1 -> Nat]
      BY <3>1
    <3>3. (\A i \in 1 .. l : r[i] = rank[i] /\ i \in 1 .. l + 1) /\ r[l + 1] = c
      OBVIOUS
    <3>4. \A i \in 1 .. l + 1 : i \in 1 .. l \/ i = l + 1
      OBVIOUS
    <3>5. \A i \in 1 .. l : rank[i] \in Nat
      BY <3>1
    <3>6. c \in Nat /\ start[u] \in Nat
      <4>1. start[u] \in Starts /\ Starts \subseteq 0 .. SeqNoMod - 1
        BY <2>0, SizesAssumption
      <4>2. SeqNoMod \in Int
        BY SizesAssumption
      <4> PICK v, m : v = start[u] /\ m = SeqNoMod
        OBVIOUS
      <4>4. v \in 0 .. m - 1
        BY <4>1
      <4>3. start[u] \in Nat
        BY ONLY <4>2, <4>4, v = start[u], m = SeqNoMod
      <4> QED BY <3>1, <4>3
    <3>7. next_seq'[u] = (start[u] + e) % SeqNoMod
      <4>1. CASE u = t
        <5>1. next_seq'[u] = (next_seq[u] + 1) % SeqNoMod
          BY <2>0, <2>1, <4>1
        <5>2. SeqNoMod \in Nat \ {0} /\ start[u] + c \in Nat
          BY <3>6, SizesAssumption, SMTT(30)
        <5>3. (((start[u] + c) % SeqNoMod) + 1) % SeqNoMod = ((start[u] + c) + 1) % SeqNoMod
          BY ONLY <5>2, ModNext
        <5>5. e = c + 1
          BY <4>1
        <5>4. (start[u] + c) + 1 = start[u] + e
          BY ONLY <3>6, <5>5
        <5> QED BY <5>1, <5>3, <5>4
      <4>2. CASE u # t
        BY <2>0, <2>1, <4>2
      <4> QED BY <4>1, <4>2
    <3>8. ASSUME NEW i \in 1 .. l + 1, s[i][1] = u
          PROVE  r[i] < e /\ s[i][3] = (start[u] + r[i]) % SeqNoMod
      <4>1. CASE i \in 1 .. l
        <5>1. rank[i] < c /\ s[i][3] = (start[u] + rank[i]) % SeqNoMod /\ r[i] = rank[i]
          BY <3>1, <3>3, <3>8, <4>1
        <5>2. rank[i] < e
          BY <3>5, <3>6, <4>1, <5>1
        <5> QED BY <5>1, <5>2
      <4>2. CASE i = l + 1
        <5>1. u = t /\ s[i][3] = k /\ r[i] = c
          BY <2>2, <3>3, <3>8, <4>2
        <5>2. e = c + 1 /\ k = (start[u] + c) % SeqNoMod
          BY <5>1
        <5> QED BY <3>6, <5>1, <5>2
      <4> QED BY <3>4, <4>1, <4>2
    <3>9. ASSUME NEW i \in 1 .. l + 1, NEW j \in 1 .. l + 1, s[i][1] = u, s[j][1] = u, i < j
          PROVE  r[i] < r[j]
      <4>1. i \in 1 .. l
        BY <3>9
      <4>2. r[i] = rank[i]
        BY ONLY <3>3, <4>1
      <4>3. CASE j \in 1 .. l
        <5>1. r[j] = rank[j]
          BY ONLY <3>3, <4>3
        <5>2. rank[i] < rank[j]
          BY <3>1, <3>9, <4>1, <4>3
        <5> QED BY <4>2, <5>1, <5>2
      <4>4. CASE j = l + 1
        <5>1. rank[i] < c /\ r[j] = c
          BY <3>1, <3>3, <3>9, <4>1, <4>4
        <5> QED BY <4>2, <5>1
      <4> QED BY <3>4, <4>3, <4>4
    <3>10. RankedBy(u, s, e, r)
      BY ONLY <2>2, <3>2, <3>8, <3>9, e \in 0 .. l + 1 DEF RankedBy
    <3> QED BY <3>7, <3>10
  <2>4. ASSUME NEW u \in Types, NEW c, NEW rank, RankedBy(u, s, c, rank) PROVE RankedBy(u, sent, c, rank)'
    <3>1. s = sent' /\ start' = start
      BY <2>1
    <3> QED BY ONLY <2>4, <3>1 DEF RankedBy
  <2>5. ASSUME NEW u \in Types
        PROVE  \E c, rank : RankedBy(u, sent, c, rank)' /\ next_seq'[u] = (start'[u] + c) % SeqNoMod
    <3> PICK c, rank : RankedBy(u, s, c, rank) /\ next_seq'[u] = (start[u] + c) % SeqNoMod
      BY <2>3
    <3> QED BY <2>1, <2>4
  <2> QED BY <2>5 DEF Ranked
<1>3. [Next]_vars => \/ UNCHANGED <<sent, next_seq, start>>
                     \/ \E t \in Types, p \in Payloads : Send(t, p)
  BY DEF Next, Receive, Network, Read, SkipByte, Await, Accept, Lose, Duplicate, Reorder, Noise, Faulty, board, vars
<1> QED BY <1>1, <1>2, <1>3

\* What was taken of a type without a report: the numbers 1, 2, and so on up to the
\* number kept, in this order.
Counted(t, s, n) ==
  /\ n \in Nat
  /\ \A i \in 1 .. Len(s) : s[i][1] = t => s[i][3] \in 1 .. n
  /\ \A i, j \in 1 .. Len(s) : s[i][1] = t /\ s[j][1] = t /\ i < j => s[i][3] < s[j][3]
  /\ \A k \in 1 .. n : \E i \in 1 .. Len(s) : s[i][1] = t /\ s[i][3] = k

SilentIsCounted == \A t \in Compared \ alarmed : Counted(t, accepted, old_seq[t])

LEMMA SilentIsCountedStep ==
  ASSUME IInv, SilentIsCounted, [Next]_vars
  PROVE  SilentIsCounted'
<1>1. CASE UNCHANGED <<accepted, old_seq, alarmed>>
  BY <1>1 DEF SilentIsCounted
<1>2. CASE Accept
  <2>0. queue \in Bytes /\ accepted \in Seq(Bytes) /\ old_seq \in [Types -> Byte]
    BY DEF IInv, TypeOK
  <2> PICK d \in Bytes : d = SubSeq(queue, 1, GetLength(queue))
    BY <1>2, AcceptTakes
  <2> PICK s \in Seq(Bytes), l \in Nat : s = accepted /\ l = Len(s)
    BY <2>0
  <2> PICK acc : acc = Append(s, d)
    OBVIOUS
  <2>1. /\ accepted' = acc
        /\ old_seq' = IF d[1] \in Compared THEN [old_seq EXCEPT ![d[1]] = d[3]] ELSE old_seq
        /\ alarmed' = IF d[1] \in Compared /\ d[3] - old_seq[d[1]] # 1
                      THEN alarmed \cup {d[1]} ELSE alarmed
    BY <1>2 DEF Accept, CheckSeq
  <2>2. Len(acc) = l + 1 /\ acc[l + 1] = d /\ \A i \in 1 .. l : acc[i] = s[i]
    BY ONLY s \in Seq(Bytes), d \in Bytes, l = Len(s), acc = Append(s, d), AppendProperties
  <2>3. \A i \in 1 .. l + 1 : i \in 1 .. l \/ i = l + 1
    OBVIOUS
  <2>4. ASSUME NEW t \in Compared \ alarmed' PROVE Counted(t, acc, old_seq'[t])
    <3>0. t \in Types
      BY SizesAssumption
    <3> PICK old : old = old_seq[t]
      OBVIOUS
    <3>1. t \notin alarmed
      BY <2>1, <2>4
    <3>2. /\ old \in Nat
          /\ \A i \in 1 .. l : s[i][1] = t => s[i][3] \in 1 .. old
          /\ \A i, j \in 1 .. l : s[i][1] = t /\ s[j][1] = t /\ i < j => s[i][3] < s[j][3]
          /\ \A k \in 1 .. old : \E i \in 1 .. l : s[i][1] = t /\ s[i][3] = k
      <4>1. Counted(t, s, old)
        BY <3>1 DEF SilentIsCounted
      <4> QED BY ONLY <4>1, l = Len(s) DEF Counted
    <3>3. CASE d[1] # t
      <4>1. old_seq'[t] = old
        BY <2>0, <2>1, <3>0, <3>3
      <4>2. \A i \in 1 .. l + 1 : acc[i][1] = t => i \in 1 .. l
        BY <2>2, <2>3, <3>3
      <4>3. Counted(t, acc, old)
        <5>1. \A i \in 1 .. l + 1 : acc[i][1] = t => acc[i][3] \in 1 .. old
          BY ONLY <2>2, <3>2, <4>2
        <5>2. \A i, j \in 1 .. l + 1 : acc[i][1] = t /\ acc[j][1] = t /\ i < j => acc[i][3] < acc[j][3]
          BY ONLY <2>2, <3>2, <4>2
        <5>3. ASSUME NEW k \in 1 .. old PROVE \E i \in 1 .. l + 1 : acc[i][1] = t /\ acc[i][3] = k
          <6> PICK i \in 1 .. l : s[i][1] = t /\ s[i][3] = k
            BY <3>2
          <6>1. i \in 1 .. l + 1 /\ acc[i] = s[i]
            BY <2>2
          <6> QED BY <6>1
        <5> QED BY ONLY <2>2, <3>2, <5>1, <5>2, <5>3 DEF Counted
      <4> QED BY <4>1, <4>3
    <3>4. CASE d[1] = t
      <4> PICK n : n = d[3]
        OBVIOUS
      <4>1. n - old = 1 /\ old_seq'[t] = n
        BY <2>0, <2>1, <2>4, <3>0, <3>4
      <4>0. d[3] \in Int
        <5>1. old_seq' \in [Types -> Byte]
          BY <1>2, NextIInv DEF Next, Receive, IInv, TypeOK
        <5>2. old_seq'[t] \in Byte
          BY <3>0, <5>1
        <5>3. ByteMod \in Nat
          BY SizesAssumption
        <5> QED BY ONLY <4>1, <5>2, <5>3, n = d[3] DEF Byte
      <4>2. n \in Nat /\ n = old + 1
        BY ONLY <3>2, <4>0, <4>1, n = d[3]
      <4>3. ASSUME NEW i \in 1 .. l + 1, acc[i][1] = t PROVE acc[i][3] \in 1 .. n
        <5>1. CASE i \in 1 .. l
          <6>1. acc[i][3] \in 1 .. old
            BY <2>2, <3>2, <4>3, <5>1
          <6> QED BY ONLY <3>2, <4>2, <6>1
        <5>2. CASE i = l + 1
          <6>1. acc[i][3] = n
            BY <2>2, <5>2
          <6> QED BY ONLY <3>2, <4>2, <6>1
        <5> QED BY <2>3, <5>1, <5>2
      <4>4. ASSUME NEW i \in 1 .. l + 1, NEW j \in 1 .. l + 1, acc[i][1] = t, acc[j][1] = t, i < j
            PROVE  acc[i][3] < acc[j][3]
        <5>1. i \in 1 .. l
          BY <4>4
        <5>2. CASE j \in 1 .. l
          BY <2>2, <3>2, <4>4, <5>1, <5>2
        <5>3. CASE j = l + 1
          <6>1. acc[i][3] \in 1 .. old /\ acc[j][3] = n
            BY <2>2, <3>2, <4>4, <5>1, <5>3, ZenonT(40)
          <6> QED BY ONLY <3>2, <4>2, <6>1
        <5> QED BY <2>3, <5>2, <5>3
      <4>5. ASSUME NEW k \in 1 .. n PROVE \E i \in 1 .. l + 1 : acc[i][1] = t /\ acc[i][3] = k
        <5>1. CASE k \in 1 .. old
          <6> PICK i \in 1 .. l : s[i][1] = t /\ s[i][3] = k
            BY <3>2, <5>1
          <6>1. i \in 1 .. l + 1 /\ acc[i] = s[i]
            BY <2>2
          <6> QED BY <6>1
        <5>2. CASE k = n
          <6>1. l + 1 \in 1 .. l + 1
            OBVIOUS
          <6> QED BY <2>2, <3>4, <5>2, <6>1
        <5>3. k \in 1 .. old \/ k = n
          BY ONLY <3>2, <4>2, k \in 1 .. n
        <5> QED BY <5>1, <5>2, <5>3
      <4>6. Counted(t, acc, n)
        BY ONLY <2>2, <4>2, <4>3, <4>4, <4>5 DEF Counted
      <4> QED BY <4>1, <4>6
    <3> QED BY <3>3, <3>4
  <2> QED BY <2>1, <2>4 DEF SilentIsCounted
<1>3. [Next]_vars => Accept \/ UNCHANGED <<accepted, old_seq, alarmed>>
  BY DEF Next, Receive, Network, Read, SkipByte, Await, Lose, Duplicate, Reorder, Noise, Faulty,
         Send, receiver, vars
<1> QED BY <1>1, <1>2, <1>3

\* Numbers that the ranks of places give, less than a round apart: where they
\* are one apart, so are the ranks.
LEMMA NextHasNextRank ==
  ASSUME NEW M \in Nat \ {0}, NEW z \in Nat, NEW x \in Nat, NEW y \in Nat,
         x + 1 < M, y < M, (z + y) % M = ((z + x) % M) + 1
  PROVE  y = x + 1
<1> PICK a \in Nat, b \in Nat : a = z + x /\ b = z + y
  OBVIOUS
<1> PICK r \in 0 .. M - 1, w \in 0 .. M - 1 : r = a % M /\ w = b % M
  OBVIOUS
<1>1. w = r + 1
  OBVIOUS
<1>2. (r + 1) % M = w
  BY ONLY <1>1, w \in 0 .. M - 1, M \in Nat \ {0}
<1>3. ((a % M) + 1) % M = (a + 1) % M
  BY ONLY a \in Nat, M \in Nat \ {0}, ModNext
<1>4. (a + 1) % M = b % M
  BY ONLY <1>2, <1>3, r = a % M, w = b % M
<1>5. a + 1 = z + (x + 1) /\ x + 1 \in 0 .. M - 1 /\ y \in 0 .. M - 1
  OBVIOUS
<1>6. (z + (x + 1)) % M = (z + y) % M
  BY ONLY <1>4, <1>5, b = z + y
<1> QED BY ONLY <1>5, <1>6, z \in Nat, M \in Nat \ {0}, ModOnce

\* Places A whose numbers are 1 to o in their order, at places S numbered by their
\* ranks: they keep the order, and leave none out between.
NumberedInOrder(S, A, at, num, rank, M, z, c, o) ==
  /\ S \subseteq Nat /\ A \subseteq Nat /\ at \in [A -> S]
  /\ num \in [S -> Int] /\ rank \in [S -> Nat]
  /\ M \in Nat \ {0} /\ z \in Nat /\ c \in Nat /\ c < M /\ o \in Nat
  /\ \A k \in S : rank[k] < c /\ num[k] = (z + rank[k]) % M
  /\ \A k, m \in S : k < m => rank[k] < rank[m]
  /\ \A i \in A : num[at[i]] \in 1 .. o
  /\ \A i, j \in A : i < j => num[at[i]] < num[at[j]]
  /\ \A n \in 1 .. o : \E i \in A : num[at[i]] = n

LEMMA OneRun ==
  ASSUME NEW S, NEW A, NEW at, NEW num, NEW rank, NEW M, NEW z, NEW c, NEW o,
         NumberedInOrder(S, A, at, num, rank, M, z, c, o)
  PROVE  /\ \A i, j \in A : i < j => at[i] < at[j]
         /\ \A i, j \in A, k \in S : at[i] < k /\ k < at[j] => \E m \in A : at[m] = k
<1> /\ S \in SUBSET Nat /\ A \in SUBSET Nat /\ at \in [A -> S] /\ num \in [S -> Int]
    /\ rank \in [S -> Nat] /\ M \in Nat \ {0} /\ z \in Nat /\ c \in Nat /\ c < M /\ o \in Nat
  BY DEF NumberedInOrder
<1> /\ \A k \in S : rank[k] < c /\ num[k] = (z + rank[k]) % M
    /\ \A k, m \in S : k < m => rank[k] < rank[m]
    /\ \A i \in A : num[at[i]] \in 1 .. o
    /\ \A i, j \in A : i < j => num[at[i]] < num[at[j]]
    /\ \A n \in 1 .. o : \E i \in A : num[at[i]] = n
  BY DEF NumberedInOrder
<1>1. ASSUME NEW k \in S, NEW m \in S, num[k] = num[m] PROVE rank[k] = rank[m]
  <2> PICK x \in Nat, y \in Nat : x = rank[k] /\ y = rank[m]
    OBVIOUS
  <2>1. x \in 0 .. M - 1 /\ y \in 0 .. M - 1 /\ (z + x) % M = (z + y) % M
    BY <1>1
  <2>2. x = y
    BY ONLY <2>1, z \in Nat, M \in Nat \ {0}, ModOnce
  <2> QED BY <2>2
<1>2. ASSUME NEW k \in S, NEW m \in S, num[k] = num[m] + 1 PROVE rank[k] = rank[m] + 1
  <2> PICK x \in Nat, y \in Nat : x = rank[m] /\ y = rank[k]
    OBVIOUS
  <2>1. x + 1 < M /\ y < M /\ (z + y) % M = ((z + x) % M) + 1
    BY <1>2
  <2>2. y = x + 1
    BY ONLY <2>1, z \in Nat, x \in Nat, y \in Nat, M \in Nat \ {0}, NextHasNextRank
  <2> QED BY <2>2
<1> DEFINE Far == {d \in Nat : \A k, m \in S :
                     num[m] >= 1 /\ num[k] <= o /\ num[k] = num[m] + d => rank[k] = rank[m] + d}
<1>3. 0 \in Far
  <2> SUFFICES ASSUME NEW k \in S, NEW m \in S, num[k] = num[m] + 0 PROVE rank[k] = rank[m] + 0
    OBVIOUS
  <2>1. num[k] = num[m]
    OBVIOUS
  <2>2. rank[k] = rank[m] /\ rank[m] \in Nat
    BY <1>1, <2>1
  <2> QED BY <2>2
<1>4. ASSUME NEW d \in Nat, d \in Far PROVE d + 1 \in Far
  <2> SUFFICES ASSUME NEW k \in S, NEW m \in S, num[m] >= 1, num[k] <= o, num[k] = num[m] + (d + 1)
               PROVE  rank[k] = rank[m] + (d + 1)
    OBVIOUS
  <2> PICK x \in Int : x = num[m]
    OBVIOUS
  <2>1. x + d \in 1 .. o /\ num[k] = (x + d) + 1
    OBVIOUS
  <2> PICK p \in S : num[p] = x + d
    <3> PICK i \in A : num[at[i]] = x + d
      BY <2>1
    <3> QED OBVIOUS
  <2>2. rank[p] = rank[m] + d
    BY <1>4, <2>1
  <2>3. rank[k] = rank[p] + 1
    BY <1>2, <2>1
  <2>4. rank[m] \in Nat
    OBVIOUS
  <2> QED BY ONLY <2>2, <2>3, <2>4, d \in Nat
<1>5. Nat \subseteq Far
  <2> HIDE DEF Far
  <2>1. \A d \in Nat : d \in Far => d + 1 \in Far
    BY <1>4
  <2> QED BY ONLY <1>3, <2>1, NatSetInduction
<1>6. ASSUME NEW i \in A, NEW j \in A, NEW d \in Nat, num[at[j]] = num[at[i]] + d
      PROVE  rank[at[j]] = rank[at[i]] + d
  <2>1. d \in Far /\ at[i] \in S /\ at[j] \in S
    BY <1>5
  <2>2. num[at[i]] >= 1 /\ num[at[j]] <= o
    OBVIOUS
  <2> QED BY <1>6, <2>1, <2>2
<1> HIDE DEF Far
<1>7. ASSUME NEW k \in S, NEW m \in S, rank[k] < rank[m] PROVE k < m
  <2>1. k \in Nat /\ m \in Nat /\ rank[k] \in Nat /\ rank[m] \in Nat
    OBVIOUS
  <2>2. ~(m < k)
    BY <1>7, <2>1
  <2>3. k # m
    BY <1>7, <2>1
  <2> QED BY ONLY <2>1, <2>2, <2>3
<1>8. ASSUME NEW k \in S, NEW m \in S, rank[k] = rank[m] PROVE k = m
  <2>1. k \in Nat /\ m \in Nat /\ rank[k] \in Nat /\ rank[m] \in Nat
    OBVIOUS
  <2>2. ~(m < k) /\ ~(k < m)
    BY <1>8, <2>1
  <2> QED BY ONLY <2>1, <2>2
<1>9. ASSUME NEW i \in A, NEW j \in A, i < j PROVE at[i] < at[j]
  <2> PICK x \in 1 .. o, y \in 1 .. o : x = num[at[i]] /\ y = num[at[j]]
    OBVIOUS
  <2>1. x < y
    BY <1>9
  <2> PICK d \in Nat : y = x + d /\ d > 0
    <3>1. y - x \in Nat /\ y = x + (y - x) /\ y - x > 0
      BY ONLY <2>1, x \in 1 .. o, y \in 1 .. o, o \in Nat
    <3> QED BY <3>1
  <2>2. rank[at[j]] = rank[at[i]] + d
    <3>1. num[at[j]] = num[at[i]] + d
      OBVIOUS
    <3> QED BY ONLY <1>6, <3>1, i \in A, j \in A, d \in Nat, Zenon
  <2>3. at[i] \in S /\ at[j] \in S /\ rank[at[i]] \in Nat
    OBVIOUS
  <2>4. rank[at[i]] < rank[at[j]]
    BY ONLY <2>2, <2>3, d \in Nat, d > 0
  <2> QED BY <1>7, <2>3, <2>4
<1>10. ASSUME NEW i \in A, NEW j \in A, NEW k \in S, at[i] < k, k < at[j]
       PROVE  \E m \in A : at[m] = k
  <2> PICK x \in 1 .. o, y \in 1 .. o : x = num[at[i]] /\ y = num[at[j]]
    OBVIOUS
  <2> PICK u \in Nat, v \in Nat, w \in Nat : u = rank[at[i]] /\ v = rank[k] /\ w = rank[at[j]]
    OBVIOUS
  <2>1. at[i] \in S /\ at[j] \in S
    OBVIOUS
  <2>2. u < v /\ v < w
    BY <1>10, <2>1
  <2>3. x <= y
    <3> SUFFICES ASSUME y < x PROVE FALSE
      OBVIOUS
    <3> PICK d \in Nat : x = y + d
      <4>1. x - y \in Nat /\ x = y + (x - y)
        OBVIOUS
      <4> QED BY <4>1
    <3>1. u = w + d
      <4>1. num[at[i]] = num[at[j]] + d
        OBVIOUS
      <4>2. rank[at[i]] = rank[at[j]] + d
        BY ONLY <1>6, <4>1, i \in A, j \in A, d \in Nat, Zenon
      <4> QED BY <4>2
    <3> QED BY ONLY <2>2, <3>1, u \in Nat, v \in Nat, w \in Nat, d \in Nat
  <2> PICK d \in Nat : y = x + d
    <3>1. y - x \in Nat /\ y = x + (y - x)
      BY <2>3
    <3> QED BY <3>1
  <2>4. w = u + d
    <3>1. num[at[j]] = num[at[i]] + d
      OBVIOUS
    <3>2. rank[at[j]] = rank[at[i]] + d
      BY ONLY <1>6, <3>1, i \in A, j \in A, d \in Nat, Zenon
    <3> QED BY <3>2
  <2> PICK e \in Nat : v = u + e /\ e < d
    <3>1. v - u \in Nat /\ v = u + (v - u) /\ v - u < d
      BY ONLY <2>2, <2>4, u \in Nat, v \in Nat, w \in Nat, d \in Nat
    <3> QED BY <3>1
  <2>5. x + e \in 1 .. o
    BY ONLY x \in 1 .. o, y \in 1 .. o, y = x + d, d \in Nat, e \in Nat, e < d, o \in Nat
  <2> PICK m \in A : num[at[m]] = x + e
    BY <2>5
  <2>6. rank[at[m]] = u + e
    BY <1>6
  <2>7. rank[at[m]] = rank[k] /\ at[m] \in S
    BY <2>6
  <2>8. at[m] = k
    BY <1>8, <2>7
  <2> QED BY <2>8
<1> QED BY <1>9, <1>10

\* Silence is no loss, inductively.
SilenceInv == IInv /\ Numbered /\ WholeFrames /\ Ranked /\ SilentIsCounted

LEMMA InitSilenceInv == Init => SilenceInv
<1> SUFFICES ASSUME Init PROVE SilenceInv
  OBVIOUS
<1>1. /\ queue = << >> /\ line = << >> /\ sent = << >> /\ accepted = << >>
      /\ next_seq = start /\ start \in [Types -> Starts] /\ old_seq = [t \in Types |-> 0]
  BY DEF Init
<1>2. IInv
  BY InitIInv
<1>3. Numbered
  BY InitReportInv DEF ReportInv
<1>4. WholeFrames
  BY <1>1 DEF WholeFrames
<1>5. ASSUME NEW t \in Types
      PROVE  \E c, rank : RankedBy(t, sent, c, rank) /\ next_seq[t] = (start[t] + c) % SeqNoMod
  <2> PICK r : r = [i \in 1 .. 0 |-> 0]
    OBVIOUS
  <2>1. r \in [1 .. 0 -> Nat] /\ Len(sent) = 0
    BY <1>1
  <2>2. RankedBy(t, sent, 0, r)
    BY <2>1 DEF RankedBy
  <2>3. start[t] = (start[t] + 0) % SeqNoMod
    <3>1. start[t] \in Starts /\ Starts \subseteq 0 .. SeqNoMod - 1
      BY <1>1, SizesAssumption
    <3>2. start[t] \in 0 .. SeqNoMod - 1
      BY <3>1
    <3>3. SeqNoMod \in Nat \ {0}
      BY SizesAssumption
    <3> QED BY ONLY <3>2, <3>3
  <2> QED BY <1>1, <2>2, <2>3
<1>6. Ranked
  BY <1>5 DEF Ranked
<1>7. SilentIsCounted
  BY <1>1, SizesAssumption DEF SilentIsCounted, Counted
<1> QED BY <1>2, <1>3, <1>4, <1>6, <1>7 DEF SilenceInv

LEMMA NextSilenceInv == SilenceInv /\ [Next]_vars => SilenceInv'
<1> SUFFICES ASSUME SilenceInv, [Next]_vars PROVE SilenceInv'
  OBVIOUS
<1>1. IInv /\ Numbered /\ WholeFrames /\ Ranked /\ SilentIsCounted
  BY DEF SilenceInv
<1>2. IInv' /\ Numbered'
  BY <1>1, NextIInv, NumberedStep
<1>3. WholeFrames' /\ Ranked' /\ SilentIsCounted'
  BY <1>1, WholeFramesStep, RankedStep, SilentIsCountedStep
<1> QED BY <1>2, <1>3 DEF SilenceInv

\* What was taken of a type without a report is one run of what was sent of it.
LEMMA SilentIsOneRun ==
  ASSUME SilenceInv, Undivided, Len(sent) < SeqNoMod, NEW t \in Compared \ alarmed
  PROVE  TakenInOneRun(t)
<1>0. t \in Types
  BY SizesAssumption
<1> PICK s \in Seq(Bytes), a \in Seq(Bytes) : s = sent /\ a = accepted
  BY DEF SilenceInv, IInv, TypeOK
<1> PICK S, A : S = Places(t, s) /\ A = Places(t, a)
  OBVIOUS
<1>1. /\ \A k \in S : k \in 1 .. Len(s) /\ s[k][1] = t
      /\ \A k \in 1 .. Len(s) : s[k][1] = t => k \in S
      /\ \A i \in A : i \in 1 .. Len(a) /\ a[i][1] = t
      /\ \A i \in 1 .. Len(a) : a[i][1] = t => i \in A
  BY DEF Places
<1>2. S \in SUBSET Nat /\ A \in SUBSET Nat
  BY <1>1
<1>3. ASSUME NEW i \in A PROVE \E k \in S : s[k] = a[i]
  <2>1. a \in Seq(FramesSent) /\ i \in 1 .. Len(a) /\ a[i][1] = t
    BY <1>1 DEF SilenceInv, WholeFrames
  <2>2. a[i] \in FramesSent
    BY ONLY <2>1, ElementOfSeq
  <2> PICK k \in 1 .. Len(s) : s[k] = a[i]
    BY <2>2 DEF FramesSent
  <2> QED BY <1>1, <2>1
<1> PICK at : at = [i \in A |-> CHOOSE k \in S : s[k] = a[i]]
  OBVIOUS
<1>4. at \in [A -> S] /\ \A i \in A : s[at[i]] = a[i]
  BY ONLY <1>3, at = [i \in A |-> CHOOSE k \in S : s[k] = a[i]]
<1> PICK z \in Nat, M \in Nat \ {0} : z = start[t] /\ M = SeqNoMod
  <2>1. start[t] \in Starts /\ Starts \subseteq 0 .. SeqNoMod - 1 /\ SeqNoMod \in Nat \ {0}
    BY <1>0, SizesAssumption DEF SilenceInv, IInv, TypeOK
  <2>2. start[t] \in Nat
    <3>1. start[t] \in 0 .. SeqNoMod - 1
      BY <2>1
    <3> QED BY ONLY <2>1, <3>1
  <2> QED BY <2>1, <2>2
<1> PICK c, r : RankedBy(t, s, c, r)
  BY <1>0 DEF SilenceInv, Ranked
<1>5. /\ c \in 0 .. Len(s) /\ r \in [1 .. Len(s) -> Nat] /\ Len(s) \in Nat /\ Len(s) < M
      /\ \A i \in 1 .. Len(s) : s[i][1] = t => r[i] < c /\ s[i][3] = (z + r[i]) % M
      /\ \A i, j \in 1 .. Len(s) : s[i][1] = t /\ s[j][1] = t /\ i < j => r[i] < r[j]
  BY DEF RankedBy
<1> PICK num, rank : num = [k \in S |-> s[k][3]] /\ rank = [k \in S |-> r[k]]
  OBVIOUS
<1>6. rank \in [S -> Nat] /\ num \in [S -> Int] /\ c \in Nat /\ c < M
  <2>1. ASSUME NEW k \in S PROVE r[k] \in Nat /\ s[k][3] \in Int
    <3>1. r[k] \in Nat /\ s[k][3] = (z + r[k]) % M
      BY <1>1, <1>5
    <3> QED BY ONLY <3>1, z \in Nat, M \in Nat \ {0}
  <2>2. c \in Nat /\ c < M
    BY ONLY <1>5, M \in Nat \ {0}
  <2> QED BY <2>1, <2>2
<1>7. \A k \in S : rank[k] < c /\ num[k] = (z + rank[k]) % M
  BY <1>1, <1>5
<1>8. \A k, m \in S : k < m => rank[k] < rank[m]
  BY <1>1, <1>5
<1> PICK o : o = old_seq[t]
  OBVIOUS
<1>9. Counted(t, a, o)
  BY DEF SilenceInv, SilentIsCounted
<1>10. /\ o \in Nat
       /\ \A i \in 1 .. Len(a) : a[i][1] = t => a[i][3] \in 1 .. o
       /\ \A i, j \in 1 .. Len(a) : a[i][1] = t /\ a[j][1] = t /\ i < j => a[i][3] < a[j][3]
       /\ \A k \in 1 .. o : \E i \in 1 .. Len(a) : a[i][1] = t /\ a[i][3] = k
  BY ONLY <1>9 DEF Counted
<1>11. ASSUME NEW i \in A PROVE at[i] \in S /\ num[at[i]] = a[i][3]
  <2>1. at[i] \in S /\ s[at[i]] = a[i]
    BY <1>4
  <2> QED BY <2>1
<1>12. \A i \in A : num[at[i]] \in 1 .. o
  BY ONLY <1>1, <1>10, <1>11
<1>13. \A i, j \in A : i < j => num[at[i]] < num[at[j]]
  BY ONLY <1>1, <1>10, <1>11, ZenonT(40)
<1>14. ASSUME NEW n \in 1 .. o PROVE \E i \in A : num[at[i]] = n
  <2> PICK i \in 1 .. Len(a) : a[i][1] = t /\ a[i][3] = n
    BY <1>10
  <2>1. i \in A
    BY <1>1
  <2>2. num[at[i]] = n
    BY <1>11, <2>1
  <2> QED BY <2>1, <2>2
<1>15. \A n \in 1 .. o : \E i \in A : num[at[i]] = n
  BY <1>14
<1>16. /\ \A i, j \in A : i < j => at[i] < at[j]
       /\ \A i, j \in A, k \in S : at[i] < k /\ k < at[j] => \E m \in A : at[m] = k
  <2>1. S \in SUBSET Nat /\ A \in SUBSET Nat /\ at \in [A -> S] /\ o \in Nat
    BY <1>2, <1>4, <1>10
  <2>2. rank \in [S -> Nat] /\ num \in [S -> Int] /\ c \in Nat /\ c < M /\ z \in Nat /\ M \in Nat \ {0}
    BY <1>6
  <2>3. NumberedInOrder(S, A, at, num, rank, M, z, c, o)
    BY ONLY <1>7, <1>8, <1>12, <1>13, <1>15, <2>1, <2>2 DEF NumberedInOrder
  <2> QED BY ONLY <2>3, OneRun
<1>17. at \in [Places(t, accepted) -> Places(t, sent)] /\ DOMAIN at = A
  BY <1>4
<1>18. \A i \in A : sent[at[i]] = accepted[i]
  BY <1>4, ZenonT(40)
<1>19. \A i, j \in A, k \in Places(t, sent) : at[i] < k /\ k < at[j] => \E m \in A : at[m] = k
  BY <1>16
<1>20. \A i, j \in DOMAIN at : i < j => at[i] < at[j]
  BY <1>16, <1>17
<1> QED BY ONLY <1>17, <1>18, <1>19, <1>20 DEF TakenInOneRun

\* SilenceMeansNoLoss, for any types, frames and sizes, and whatever is lost,
\* repeated or exchanged, as long as the board has not been once round the numbers:
\* after a whole round is lost the next number is the one that is waited for.
THEOREM SilenceIsTrusted == Spec => [](Len(sent) < SeqNoMod => SilenceMeansNoLoss)
<1>1. ASSUME SilenceInv, Len(sent) < SeqNoMod PROVE SilenceMeansNoLoss
  <2> SUFFICES ASSUME Undivided
               PROVE  /\ ToSet(accepted) \subseteq ToSet(sent)
                      /\ \A t \in Compared \ alarmed : TakenInOneRun(t)
    BY DEF SilenceMeansNoLoss, Undivided
  <2>1. ASSUME NEW f \in ToSet(accepted) PROVE f \in ToSet(sent)
    <3>1. accepted \in Seq(FramesSent) /\ sent \in Seq(Bytes)
      BY <1>1 DEF SilenceInv, WholeFrames, IInv, TypeOK
    <3> PICK i \in 1 .. Len(accepted) : f = accepted[i]
      BY <3>1 DEF ToSet
    <3>2. f \in FramesSent
      BY <3>1
    <3> PICK k \in 1 .. Len(sent) : f = sent[k]
      BY <3>2 DEF FramesSent
    <3> QED BY <3>1 DEF ToSet
  <2>2. \A t \in Compared \ alarmed : TakenInOneRun(t)
    BY <1>1, SilentIsOneRun
  <2> QED BY <2>1, <2>2
<1>2. SilenceInv => (Len(sent) < SeqNoMod => SilenceMeansNoLoss)
  BY <1>1
<1> QED BY InitSilenceInv, NextSilenceInv, <1>2, PTL DEF Spec

=============================================================================
