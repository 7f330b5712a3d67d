--------------------------- MODULE FrameReceiver ---------------------------
(***************************************************************************)
(* The receiver of the sensor board's frames: the loop of                  *)
(* device_test/testCase/UdpDevice_test.cpp (that of spi_test.cpp is the    *)
(* same, reading from the SPI device), which puts what it reads at the end *)
(* of a queue and then takes whole frames off its front, searching byte by *)
(* byte for the next header when the front is not a frame.                 *)
(*                                                                         *)
(* A frame is <<type, length, seq, ..., sum>>, each field one byte wide: a *)
(* type byte stands for the header, the frame's class and its sensor id.   *)
(* Frame, CircularBuffer, the board and the network are not in the         *)
(* repository: they are modelled from how the loop uses them.              *)
(***************************************************************************)
EXTENDS Integers, FiniteSets, SequencesExt

CONSTANTS Types,       \* the header bytes: a frame class and a sensor
          Compared,    \* those of Optic, Groove and IMU frames
          ByteMod,     \* values of a byte
          SeqNoMod,    \* values of a sequence number
          Starts,      \* the numbers the board's first frames may have
          Cuts,        \* where the board may cut a frame in two
          Payloads,    \* what the board puts between seq and sum
          Noises,      \* datagrams other programs send to the port
          FRAME_HEAD_PACKET_LEN_SIZE,  \* bytes from the header to the length
          FRAME_HEAD_MIN_LEN, maxSize, \* the frame lengths that are accepted
          ReadSize,    \* sizeof(buff), the bytes one read can take
          QueueSize,   \* the capacity of queue_buff
          MaxSends,    \* bound: frames the board sends
          MaxFaults    \* bound: kinds of faults of one run

Byte == 0 .. ByteMod - 1

ASSUME SizesAssumption ==
  /\ ByteMod \in Nat \ {0} /\ SeqNoMod \in 1 .. ByteMod
  /\ Types \subseteq Byte /\ Compared \subseteq Types /\ Starts \subseteq 0 .. SeqNoMod - 1 /\ Cuts \subseteq Nat
  /\ Payloads \subseteq Seq(Byte) /\ Noises \subseteq Seq(Byte)
  /\ FRAME_HEAD_PACKET_LEN_SIZE \in Nat /\ FRAME_HEAD_PACKET_LEN_SIZE >= 2
  /\ FRAME_HEAD_MIN_LEN \in Nat /\ FRAME_HEAD_MIN_LEN >= 4
  /\ {maxSize, ReadSize, QueueSize, MaxSends, MaxFaults} \subseteq Nat
  /\ FRAME_HEAD_PACKET_LEN_SIZE < maxSize

VARIABLES queue, pc, old_seq,        \* the receiver
          line, next_seq,            \* datagrams in transit; the board
          start, sent, input,        \* history: first seqs, frames, bytes read
          accepted, alarmed, faults  \* history: frames taken, types reported

receiver == <<queue, pc, old_seq, accepted, alarmed>>
board    == <<next_seq, start, sent>>
vars     == <<receiver, line, board, input, faults>>

Bytes  == Seq(Byte)
SeqNos == 0 .. SeqNoMod - 1
Kinds  == {"cut", "lose", "duplicate", "reorder", "noise"}

-----------------------------------------------------------------------------
\* Frame: header, length, checksum and sequence number at the front of s.
CheckSum(s) == FoldLeft(LAMBDA x, y : (x + y) % ByteMod, 0, s)
IsFrameHead(s) == s[1] \in Types
GetLength(s)   == s[2]
CheckSeq(s)    == s[3]
judge_check_sum(s, len) == CheckSum(SubSeq(s, 1, len - 1)) = s[len]

FrameOf(t, seq, p) ==
  LET body == <<t, Len(p) + 4, seq>> \o p IN Append(body, CheckSum(body))

\* The board's frames consist of bytes.
ASSUME FramesAssumption ==
  \A t \in Types, n \in 0 .. SeqNoMod - 1, p \in Payloads : FrameOf(t, n, p) \in Seq(Byte)

\* They are frames that the receiver takes, and fit into one read.
ASSUME FitAssumption ==
  \A p \in Payloads : /\ Len(p) + 4 \in FRAME_HEAD_MIN_LEN .. maxSize
                      /\ Len(p) + 4 \in FRAME_HEAD_PACKET_LEN_SIZE + 1 .. ReadSize

Drop(s, n) == SubSeq(s, n + 1, Len(s))

Init == /\ queue = << >> /\ pc = "read" /\ old_seq = [t \in Types |-> 0]
        /\ start \in [Types -> Starts] /\ next_seq = start
        /\ line = << >> /\ sent = << >> /\ input = << >>
        /\ accepted = << >> /\ alarmed = {} /\ faults = {}

-----------------------------------------------------------------------------
\* The board sends its next frame of a type, in one datagram or cut in two.
Send(t, p) ==
  LET f == FrameOf(t, next_seq[t], p) IN
  /\ Len(sent) < MaxSends
  /\ sent' = Append(sent, f)
  /\ next_seq' = [next_seq EXCEPT ![t] = (@ + 1) % SeqNoMod]
  /\ \/ line' = Append(line, f) /\ UNCHANGED faults
     \/ /\ faults' = faults \cup {"cut"}
        /\ \E k \in Cuts \cap 1 .. Len(f) - 1 :
             line' = line \o << SubSeq(f, 1, k), Drop(f, k) >>
  /\ UNCHANGED <<receiver, start, input>>

\* UDP loses, duplicates and reorders datagrams, and anyone may send to the
\* port.
Faulty(kind) == /\ Cardinality((faults \cup {kind}) \ {"cut"}) <= MaxFaults
                /\ kind \notin faults
                /\ faults' = faults \cup {kind}
                /\ UNCHANGED <<receiver, board, input>>

Lose == Faulty("lose") /\ \E i \in DOMAIN line : line' = RemoveAt(line, i)
Duplicate == Faulty("duplicate") /\ \E i \in DOMAIN line : line' = Append(line, line[i])
Reorder == /\ Faulty("reorder")
           /\ \E i \in 1 .. Len(line) - 1 :
                line' = [line EXCEPT ![i] = line[i + 1], ![i + 1] = line[i]]
Noise(d) == Faulty("noise") /\ line' = Append(line, d)

-----------------------------------------------------------------------------
\* UdpDevice::read: recvfrom cuts off what does not fit in the buffer.
recvfrom(d) == SubSeq(d, 1, IF Len(d) < ReadSize THEN Len(d) ELSE ReadSize)

\* The loop waits for a datagram and puts what it reads at the queue's end.
Read == /\ pc = "read" /\ line # << >>
        /\ line' = Tail(line)
        /\ queue' = queue \o recvfrom(line[1])
        /\ input' = input \o recvfrom(line[1])
        /\ pc' = "scan"
        /\ UNCHANGED <<old_seq, accepted, alarmed, board, faults>>

\* The loop's condition, and the verdict of its body on the queue's front.
Enough == Len(queue) > FRAME_HEAD_PACKET_LEN_SIZE

\* Variant: a length above maxSize is waited for.
VerdictAnyLength(s) ==
  IF ~ IsFrameHead(s) \/ GetLength(s) < FRAME_HEAD_MIN_LEN THEN "bad"
  ELSE IF GetLength(s) > Len(s) THEN "partial"
  ELSE IF judge_check_sum(s, GetLength(s)) THEN "frame" ELSE "bad"

\* Variant: a frame that is not complete is treated as a bad one.
VerdictImpatient(s) ==
  IF ~ IsFrameHead(s) \/ GetLength(s) \notin FRAME_HEAD_MIN_LEN .. maxSize THEN "bad"
  ELSE IF GetLength(s) <= Len(s) /\ judge_check_sum(s, GetLength(s)) THEN "frame" ELSE "bad"

Verdict(s) ==
  IF ~ IsFrameHead(s) \/ GetLength(s) \notin FRAME_HEAD_MIN_LEN .. maxSize THEN "bad"
  ELSE IF GetLength(s) > Len(s) THEN "partial"
  ELSE IF judge_check_sum(s, GetLength(s)) THEN "frame" ELSE "bad"

\* Variant: the loop goes on without a pop when the length or the sum is bad.
SkipByteOffHead ==
  /\ pc = "scan" /\ Enough /\ Verdict(queue) = "bad"
  /\ queue' = IF IsFrameHead(queue) THEN queue ELSE Tail(queue)
  /\ UNCHANGED <<pc, old_seq, accepted, alarmed, line, board, input, faults>>

\* No header, a length out of range or a bad checksum: pop one byte.
SkipByte ==
  /\ pc = "scan" /\ Enough /\ Verdict(queue) = "bad"
  /\ queue' = Tail(queue)
  /\ UNCHANGED <<pc, old_seq, accepted, alarmed, line, board, input, faults>>

\* Too few bytes for a header, or for the frame it announces: read again.
Await ==
  /\ pc = "scan" /\ (Enough => Verdict(queue) = "partial")
  /\ pc' = "read"
  /\ UNCHANGED <<queue, old_seq, accepted, alarmed, line, board, input, faults>>

\* Variant: the number is not kept.
AcceptForgets ==
  LET len == GetLength(queue)
      data_buff == SubSeq(queue, 1, len)
      type == data_buff[1]
      seq == CheckSeq(data_buff)
  IN /\ pc = "scan" /\ Enough /\ Verdict(queue) = "frame"
     /\ queue' = Drop(queue, len)
     /\ alarmed' = IF type \in Compared /\ seq - old_seq[type] # 1
                   THEN alarmed \cup {type} ELSE alarmed
     /\ UNCHANGED old_seq
     /\ accepted' = Append(accepted, data_buff)
     /\ UNCHANGED <<pc, line, board, input, faults>>

\* Variant: only numbers that are too high are reported.
AcceptReportsGapsOnly ==
  LET len == GetLength(queue)
      data_buff == SubSeq(queue, 1, len)
      type == data_buff[1]
      seq == CheckSeq(data_buff)
  IN /\ pc = "scan" /\ Enough /\ Verdict(queue) = "frame"
     /\ queue' = Drop(queue, len)
     /\ alarmed' = IF type \in Compared /\ seq - old_seq[type] > 1
                   THEN alarmed \cup {type} ELSE alarmed
     /\ old_seq' = IF type \in Compared THEN [old_seq EXCEPT ![type] = seq] ELSE old_seq
     /\ accepted' = Append(accepted, data_buff)
     /\ UNCHANGED <<pc, line, board, input, faults>>

\* A whole frame: pop it, and for the classes that are compared report a
\* sequence number that does not follow the last one of its type.
Accept ==
  LET len == GetLength(queue)
      data_buff == SubSeq(queue, 1, len)
      type == data_buff[1]
      seq == CheckSeq(data_buff)
  IN /\ pc = "scan" /\ Enough /\ Verdict(queue) = "frame"
     /\ queue' = Drop(queue, len)
     /\ alarmed' = IF type \in Compared /\ seq - old_seq[type] # 1
                   THEN alarmed \cup {type} ELSE alarmed
     /\ old_seq' = IF type \in Compared THEN [old_seq EXCEPT ![type] = seq] ELSE old_seq
     /\ accepted' = Append(accepted, data_buff)
     /\ UNCHANGED <<pc, line, board, input, faults>>

Receive == Read \/ SkipByte \/ Await \/ Accept
Network == Lose \/ Duplicate \/ Reorder \/ \E d \in Noises : Noise(d)
Next == Receive \/ Network \/ \E t \in Types, p \in Payloads : Send(t, p)

\* The receiver's loop runs; the board and the network owe nothing.
Spec == Init /\ [][Next]_vars /\ WF_vars(Receive)

-----------------------------------------------------------------------------
\* The queue holds bytes and the last numbers are sequence numbers.
TypeOK == /\ queue \in Bytes /\ pc \in {"read", "scan"}
          /\ old_seq \in [Types -> Byte]
          /\ line \in Seq(Bytes) /\ input \in Bytes
          /\ start \in [Types -> Starts] /\ next_seq \in [Types -> SeqNos]
          /\ sent \in Seq(Bytes) /\ accepted \in Seq(Bytes)
          /\ alarmed \subseteq Compared /\ faults \subseteq Kinds

\* Before each read the queue holds less than one frame: at most the bytes up
\* to the length, or the beginning of a frame whose rest is still to come.
\* It is the part of QueueFits that is true at the top of the loop.
OnlyAPartialFrameWaits ==
  pc = "read" => ~ Enough \/ Verdict(queue) = "partial"

\* The queue never holds more than it has room for, whatever is sent to the
\* port: behind bytes that read like a header, whole frames wait for the bytes
\* the length promises, and the next read comes on top of them.
QueueFits == Len(queue) <= QueueSize

\* The frames in s, read from the front as one piece: the reference.
FramesIn[s \in Bytes] ==
  IF Len(s) <= FRAME_HEAD_PACKET_LEN_SIZE \/ Verdict(s) = "partial" THEN << >>
  ELSE IF Verdict(s) = "bad" THEN FramesIn[Tail(s)]
  ELSE << SubSeq(s, 1, GetLength(s)) >> \o FramesIn[Drop(s, GetLength(s))]

\* How the bytes were cut into datagrams makes no difference: what was taken,
\* and what is still in the queue, are the frames of all the bytes read.
CutsMakeNoDifference == FramesIn[input] = accepted \o FramesIn[queue]

\* The places of the frames of a type in s.
Places(t, s) == {i \in DOMAIN s : s[i][1] = t}

\* The frames of type t that were taken are those of one run of the frames of
\* type t that were sent: in their order, none twice, and none left out between.
TakenInOneRun(t) ==
  \E at \in [Places(t, accepted) -> Places(t, sent)] :
    /\ \A i \in DOMAIN at : sent[at[i]] = accepted[i]
    /\ \A i, j \in DOMAIN at : i < j => at[i] < at[j]
    /\ \A i, j \in DOMAIN at, k \in Places(t, sent) :
         at[i] < k /\ k < at[j] => \E m \in DOMAIN at : at[m] = k

\* When the board's datagrams are whole frames and nobody else sends, what is
\* taken is what the board sent, and a type that is compared and without a
\* report has been taken without a gap, a repetition or a change of order.
SilenceMeansNoLoss ==
  faults \cap {"cut", "noise"} = {} =>
    /\ ToSet(accepted) \subseteq ToSet(sent)
    /\ \A t \in Compared \ alarmed : TakenInOneRun(t)

\* On a line without faults only a first number other than 1, or the wrap of
\* the number to 0, is reported.
ReportsAreExplained ==
  faults \subseteq {"cut"} =>
    \A t \in alarmed : \/ start[t] # 1
                       \/ \E f \in ToSet(accepted) : f[1] = t /\ CheckSeq(f) = 0

\* Every read is digested: the inner loop ends.
ScanEnds == pc = "scan" ~> pc = "read"

\* Frames that nothing disturbs are all taken in the end, however they are cut.
UndisturbedFramesArrive == [](faults \subseteq {"cut"}) => <>[](accepted = sent)
=============================================================================
