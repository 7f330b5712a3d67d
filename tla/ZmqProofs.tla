----------------------------- MODULE ZmqProofs -----------------------------
(***************************************************************************)
(* Proofs about the programs of zmq_test: ZmqTransfer (the file transfer   *)
(* over REQ and REP) for every file and any number of restarts of the      *)
(* sender, and MultipartSocket (two-part messages over PUB and SUB) for    *)
(* every set of threads and calls and every length of the queue.           *)
(***************************************************************************)
EXTENDS ZmqTransfer, MultipartSocket, SequenceTheorems, TLAPS

-----------------------------------------------------------------------------
(* The file transfer.  The argument is a lockstep: as long as no request   *)
(* of a killed sender came between, the receiver has served begin_str and  *)
(* then every line the sender has read but the first, which is sent into a *)
(* socket that still waits for its first reply, and but the one in         *)
(* transit.                                                                *)

\* The sender's stream can still reach the end of the file, or has.
Good == ~fail \/ eof

\* The lines before pos have been read.
StreamInv == /\ ~eof /\ ~fail => pos <= Len(Read(file))
             /\ eof => pos = Len(Read(file)) + 1

\* The sender's socket: between a send and the receipt of the reply the request
\* or its reply may be in transit, at other times neither is.
WireInv == /\ opened <= me
           /\ \A c \in Senders : c > me => request[c] = None /\ ~reply[c]
           /\ request[me] # None => ~reply[me]
           /\ req_state = "send" => request[me] = None /\ ~reply[me]
           /\ pc \in {"recv", "recv_end"} => req_state = "recv"
           /\ pc = "done" => req_state = "send"

\* begin_str and the first line go out before the first reply.
PhaseInv == /\ begin_flag => pc = "loop" /\ pos = 1 /\ ~eof /\ req_state = "send" /\ opened # me
            /\ pc = "loop" /\ req_state = "recv" => pos = 1 /\ ~begin_flag
            /\ pc \in {"recv_end", "done"} => eof
            /\ Good /\ (pc = "recv" \/ (pc = "loop" /\ ~begin_flag /\ req_state = "send"))
                 => pos >= 2

\* Until the receiver has served begin_str nothing else is sent.
OpeningInv == ~intruded /\ ~begin_flag /\ opened # me =>
    /\ request[me] = BeginStr /\ req_state = "recv" /\ pc \in {"loop", "recv"}
    /\ Good => pos <= 2

\* Then recv.txt holds all lines read but the first, and but the one in transit.
CopyInv == ~intruded /\ opened = me /\ Good /\ Plain(file) =>
    IF pc = "recv" /\ request[me] # None
    THEN /\ pos >= 3 /\ request[me] = Read(file)[pos - 1]
         /\ out = SubSeq(Read(file), 2, pos - 2)
    ELSE /\ request[me] = None \/ (pc = "recv_end" /\ request[me] = EndStr)
         /\ out = SubSeq(Read(file), 2, pos - 1)

TransferInv == TypeOK /\ StreamInv /\ WireInv /\ PhaseInv /\ OpeningInv /\ CopyInv

-----------------------------------------------------------------------------
\* What getline reads off a file.
LEMMA ReadIsSeq ==
    ASSUME file \in Files
    PROVE  /\ file.lines \in Seq(Lines) /\ Len(file.lines) \in Nat
           /\ Read(file) \in Seq(Lines) /\ Len(Read(file)) \in Nat \ {0}
           /\ Len(Read(file)) = IF file.newline \/ file.lines = <<>> THEN Len(file.lines) + 1
                                                                    ELSE Len(file.lines)
           /\ \A i \in 1 .. Len(file.lines) : Read(file)[i] = file.lines[i]
           /\ Len(Read(file)) = Len(file.lines) + 1 => Read(file)[Len(file.lines) + 1] = Blank
           /\ Plain(file) => \A i \in 2 .. Len(Read(file)) : Read(file)[i] \notin {BeginStr, EndStr}
<1>1. file.lines \in Seq(Lines) /\ Len(file.lines) \in Nat /\ Blank \in Lines
      /\ Blank \notin {BeginStr, EndStr}
  BY FilesAssumption
<1>2. CASE file.newline \/ file.lines = <<>>
  <2>1. Read(file) = Append(file.lines, Blank)
    BY <1>2 DEF Read
  <2>2. /\ Read(file) \in Seq(Lines) /\ Len(Read(file)) = Len(file.lines) + 1
        /\ \A i \in 1 .. Len(file.lines) : Read(file)[i] = file.lines[i]
        /\ Read(file)[Len(file.lines) + 1] = Blank
    BY <1>1, <2>1, AppendProperties
  <2>3. ASSUME Plain(file), NEW i \in 2 .. Len(Read(file))
        PROVE  Read(file)[i] \notin {BeginStr, EndStr}
    <3>1. CASE i = Len(file.lines) + 1
      BY <1>1, <2>2, <3>1
    <3>2. CASE i \in 2 .. Len(file.lines)
      <4>1. i \in 1 .. Len(file.lines)
        BY <1>1, <3>2
      <4> QED BY <2>2, <2>3, <3>2, <4>1 DEF Plain
    <3> QED BY <1>1, <2>2, <3>1, <3>2
  <2> QED BY <1>1, <1>2, <2>2, <2>3
<1>3. CASE ~(file.newline \/ file.lines = <<>>)
  <2>1. Read(file) = file.lines
    BY <1>3 DEF Read
  <2> QED BY <1>1, <1>3, <2>1 DEF Plain
<1> QED BY <1>2, <1>3

\* A getline before the end of the file.
LEMMA GetLineReads ==
    ASSUME TypeOK, StreamInv, ~eof
    PROVE  /\ GetLine.line \in Lines /\ GetLine.eof \in BOOLEAN /\ GetLine.fail \in BOOLEAN
           /\ fail => GetLine.fail /\ ~GetLine.eof
           /\ ~fail => /\ GetLine.line = Read(file)[pos] /\ pos <= Len(Read(file))
                       /\ pos + 1 <= Len(file.lines) + 2
                       /\ GetLine.eof => pos = Len(Read(file))
                       /\ ~GetLine.eof /\ ~GetLine.fail => pos + 1 <= Len(Read(file))
<1>1. /\ file \in Files /\ pos \in 1 .. Len(file.lines) + 2 /\ fail \in BOOLEAN /\ eof = FALSE
      /\ file.newline \in BOOLEAN /\ Blank \in Lines
  BY FilesAssumption DEF TypeOK
<1>2. CASE fail
  BY <1>1, <1>2 DEF GetLine
<1>3. CASE ~fail
  <2>1. /\ file.lines \in Seq(Lines) /\ Len(file.lines) \in Nat
        /\ Len(Read(file)) = IF file.newline \/ file.lines = <<>> THEN Len(file.lines) + 1
                                                                  ELSE Len(file.lines)
        /\ \A i \in 1 .. Len(file.lines) : Read(file)[i] = file.lines[i]
        /\ Len(Read(file)) = Len(file.lines) + 1 => Read(file)[Len(file.lines) + 1] = Blank
    BY <1>1, ReadIsSeq
  <2>2. pos <= Len(Read(file)) /\ pos \in Nat \ {0}
    BY <1>1, <1>3, <2>1 DEF StreamInv
  <2>3. CASE pos > Len(file.lines)
    <3>1. GetLine = [line |-> Blank, eof |-> TRUE, fail |-> TRUE]
      BY <1>3, <2>3 DEF GetLine
    <3>2. pos = Len(file.lines) + 1 /\ Len(Read(file)) = Len(file.lines) + 1
      BY <2>1, <2>2, <2>3
    <3> QED BY <1>1, <1>3, <2>1, <2>2, <3>1, <3>2
  <2>4. CASE ~(pos > Len(file.lines))
    <3>1. pos \in 1 .. Len(file.lines)
      BY <2>1, <2>2, <2>4
    <3>2. /\ GetLine.line = file.lines[pos] /\ GetLine.fail = (file.lines[pos] = Long)
          /\ GetLine.eof = (pos = Len(file.lines) /\ ~file.newline /\ file.lines[pos] # Long)
      BY <1>3, <2>4 DEF GetLine
    <3>3. GetLine.line = Read(file)[pos] /\ GetLine.line \in Lines
      BY <2>1, <3>1, <3>2
    <3>4. GetLine.eof => pos = Len(Read(file))
      <4>1. file.lines # <<>>
        BY <2>1, <3>1
      <4> QED BY <2>1, <3>2, <4>1
    <3>5. ~GetLine.eof /\ ~GetLine.fail => pos + 1 <= Len(Read(file))
      <4>1. CASE pos = Len(file.lines)
        <5> SUFFICES ASSUME ~GetLine.eof, ~GetLine.fail PROVE pos + 1 <= Len(Read(file))
          OBVIOUS
        <5>1. file.newline
          BY <1>1, <3>2, <4>1
        <5>2. Len(Read(file)) = Len(file.lines) + 1
          BY <2>1, <5>1
        <5> QED BY <2>1, <4>1, <5>2
      <4>2. CASE pos # Len(file.lines)
        BY <2>1, <3>1, <4>2
      <4> QED BY <4>1, <4>2
    <3> QED BY <1>3, <2>1, <2>2, <3>1, <3>2, <3>3, <3>4, <3>5
  <2> QED BY <2>3, <2>4
<1> QED BY <1>1, <1>2, <1>3

\* The piece of the file that recv.txt holds grows by a line, or is empty.
LEMMA PieceGrows ==
    ASSUME NEW s \in Seq(Lines), NEW n \in 2 .. Len(s)
    PROVE  SubSeq(s, 2, n) = Append(SubSeq(s, 2, n - 1), s[n])
<1>1. Len(s) \in Nat /\ \A i \in 1 .. Len(s) : s[i] \in Lines
  OBVIOUS
<1>2. /\ SubSeq(s, 2, n) \in Seq(Lines) /\ Len(SubSeq(s, 2, n)) = n - 1
      /\ \A i \in 1 .. n - 1 : SubSeq(s, 2, n)[i] = s[i + 1]
  BY <1>1, SubSeqProperties
<1>3. /\ SubSeq(s, 2, n - 1) \in Seq(Lines) /\ Len(SubSeq(s, 2, n - 1)) = n - 2
      /\ \A i \in 1 .. n - 2 : SubSeq(s, 2, n - 1)[i] = s[i + 1]
  <2>1. \A i \in 2 .. n - 1 : s[i] \in Lines
    BY <1>1
  <2> QED BY <2>1, SubSeqProperties
<1>4. s[n] \in Lines
  BY <1>1
<1> PICK t \in Seq(Lines) : t = SubSeq(s, 2, n - 1)
  BY <1>3
<1>5. /\ Append(t, s[n]) \in Seq(Lines) /\ Len(Append(t, s[n])) = n - 1
      /\ \A i \in 1 .. n - 2 : Append(t, s[n])[i] = s[i + 1]
      /\ Append(t, s[n])[n - 1] = s[n]
  BY <1>3, <1>4, AppendProperties
<1>6. \A i \in 1 .. n - 1 : SubSeq(s, 2, n)[i] = Append(t, s[n])[i]
  <2> TAKE i \in 1 .. n - 1
  <2>1. CASE i = n - 1
    BY <1>2, <1>5, <2>1
  <2>2. CASE i \in 1 .. n - 2
    BY <1>2, <1>5, <2>2
  <2> QED BY <2>1, <2>2
<1> QED BY <1>2, <1>5, <1>6, SeqEqual

-----------------------------------------------------------------------------
LEMMA SendBeginKeepsCopy ==
    ASSUME TransferInv, SendBegin
    PROVE  TransferInv'
<1>1. /\ pc = "loop" /\ begin_flag /\ ~eof /\ begin_flag' = FALSE /\ pos = 1 /\ opened # me
      /\ req_state = "send" /\ req_state' = "recv"
      /\ request' = [request EXCEPT ![me] = BeginStr] /\ request[me] = None /\ ~reply[me]
      /\ file' = file /\ pc' = pc /\ pos' = pos /\ eof' = eof /\ fail' = fail /\ me' = me
      /\ reply' = reply /\ out' = out /\ finish_flag' = finish_flag /\ opened' = opened
      /\ intruded' = intruded
  BY DEF SendBegin, Send, stream, receiver, TransferInv, PhaseInv, WireInv
<1>2. me \in Senders /\ request \in [Senders -> Msgs] /\ BeginStr \in Msgs /\ BeginStr # None
  BY FilesAssumption DEF TransferInv, TypeOK, Msgs
<1>3. request' \in [Senders -> Msgs] /\ request'[me] = BeginStr
      /\ \A c \in Senders : c # me => request'[c] = request[c]
  BY <1>1, <1>2
<1>4. TypeOK'
  BY <1>1, <1>3 DEF TransferInv, TypeOK
<1>5. StreamInv'
  BY <1>1 DEF TransferInv, StreamInv
<1>6. WireInv'
  <2>1. \A c \in Senders : c > me => request'[c] = None /\ ~reply[c]
    BY <1>2, <1>3, BoundsAssumption DEF TransferInv, WireInv, Senders
  <2> QED BY <1>1, <1>3, <2>1 DEF TransferInv, WireInv
<1>7. PhaseInv'
  BY <1>1 DEF TransferInv, PhaseInv, Good
<1>8. OpeningInv'
  BY <1>1, <1>3 DEF OpeningInv, Good
<1>9. CopyInv'
  BY <1>1 DEF CopyInv
<1> QED BY <1>4, <1>5, <1>6, <1>7, <1>8, <1>9 DEF TransferInv

\* The first line is lost, since the socket still waits for the first reply; any
\* later one is the next line of the file.
LEMMA SendLineKeepsCopy ==
    ASSUME TransferInv, SendLine
    PROVE  TransferInv'
<1> PICK next : next = GetLine
  OBVIOUS
<1>1. /\ pc = "loop" /\ ~eof /\ ~begin_flag /\ begin_flag' = begin_flag /\ pc' = "recv"
      /\ eof' = next.eof /\ fail' = next.fail /\ pos' = (IF fail THEN pos ELSE pos + 1)
      /\ Send(next.line)
      /\ file' = file /\ me' = me /\ reply' = reply /\ out' = out /\ finish_flag' = finish_flag
      /\ opened' = opened /\ intruded' = intruded
  BY DEF SendLine, receiver
<1>2. /\ next.line \in Lines /\ next.eof \in BOOLEAN /\ next.fail \in BOOLEAN
      /\ fail => next.fail /\ ~next.eof
      /\ ~fail => /\ next.line = Read(file)[pos] /\ pos <= Len(Read(file))
                  /\ pos + 1 <= Len(file.lines) + 2
                  /\ next.eof => pos = Len(Read(file))
                  /\ ~next.eof /\ ~next.fail => pos + 1 <= Len(Read(file))
  BY <1>1, GetLineReads DEF TransferInv
<1>3. /\ me \in Senders /\ request \in [Senders -> Msgs] /\ next.line \in Msgs /\ next.line # None
      /\ file \in Files /\ pos \in 1 .. Len(file.lines) + 2 /\ Len(file.lines) \in Nat
      /\ pos \in Nat \ {0} /\ fail \in BOOLEAN /\ req_state \in {"send", "recv"}
  BY <1>2, FilesAssumption, ReadIsSeq DEF TransferInv, TypeOK, Msgs
<1>4. \/ /\ req_state = "send" /\ request' = [request EXCEPT ![me] = next.line]
      \/ /\ req_state = "recv" /\ request' = request
  BY <1>1, <1>3 DEF Send
<1>5. req_state' = "recv"
  BY <1>1, <1>3 DEF Send
<1>6. request' \in [Senders -> Msgs] /\ \A c \in Senders : c # me => request'[c] = request[c]
  BY <1>3, <1>4
<1>7. TypeOK'
  <2>1. pos' \in 1 .. Len(file.lines) + 2
    BY <1>1, <1>2, <1>3
  <2> QED BY <1>1, <1>2, <1>5, <1>6, <2>1 DEF TransferInv, TypeOK
<1>8. Good' => ~fail /\ pos' = pos + 1
  BY <1>1, <1>2 DEF Good
<1>9. StreamInv'
  <2>1. Len(Read(file)) \in Nat
    BY <1>3, ReadIsSeq
  <2> QED BY <1>1, <1>2, <1>3, <2>1 DEF StreamInv
<1>10. WireInv'
  <2>1. \A c \in Senders : c > me => request'[c] = None /\ ~reply[c]
    BY <1>3, <1>6, BoundsAssumption DEF TransferInv, WireInv, Senders
  <2>2. request'[me] # None => ~reply[me]
    BY <1>4 DEF TransferInv, WireInv
  <2> QED BY <1>1, <1>5, <2>1, <2>2 DEF TransferInv, WireInv
<1>11. PhaseInv'
  BY <1>1, <1>3, <1>5, <1>8 DEF PhaseInv
<1>12. OpeningInv'
  <2> SUFFICES ASSUME ~intruded, opened # me
               PROVE  request'[me] = BeginStr /\ (Good' => pos' <= 2)
    BY <1>1, <1>5 DEF OpeningInv
  <2>1. request[me] = BeginStr /\ req_state = "recv"
    BY <1>1 DEF TransferInv, OpeningInv
  <2>2. pos = 1
    BY <1>1, <2>1 DEF TransferInv, PhaseInv
  <2> QED BY <1>3, <1>4, <1>8, <2>1, <2>2
<1>13. CopyInv'
  <2> SUFFICES ASSUME ~intruded, opened = me, Good', Plain(file)
               PROVE  IF request'[me] # None
                      THEN /\ pos' >= 3 /\ request'[me] = Read(file)[pos' - 1]
                           /\ out = SubSeq(Read(file), 2, pos' - 2)
                      ELSE out = SubSeq(Read(file), 2, pos' - 1)
    BY <1>1 DEF CopyInv, Plain, Read
  <2>1. ~fail /\ pos' = pos + 1 /\ Good
    BY <1>8 DEF Good
  <2>2. request[me] = None /\ out = SubSeq(Read(file), 2, pos - 1)
    BY <1>1, <2>1 DEF TransferInv, CopyInv
  <2>3. CASE req_state = "send"
    <3>1. request'[me] = Read(file)[pos] /\ request'[me] # None
      BY <1>2, <1>3, <1>4, <2>1, <2>3
    <3>2. pos >= 2
      BY <1>1, <2>1, <2>3 DEF TransferInv, PhaseInv
    <3>3. pos' - 1 = pos /\ pos' - 2 = pos - 1 /\ pos' >= 3
      BY <1>3, <2>1, <3>2
    <3> QED BY <2>2, <3>1, <3>3
  <2>4. CASE req_state = "recv"
    <3>1. pos = 1 /\ request'[me] = None
      BY <1>1, <1>4, <2>2, <2>4 DEF TransferInv, PhaseInv
    <3>2. SubSeq(Read(file), 2, 1) = <<>> /\ SubSeq(Read(file), 2, 0) = <<>>
      BY SubSeqEmpty
    <3>3. pos - 1 = 0 /\ pos' - 1 = 1
      BY <2>1, <3>1
    <3> QED BY <2>2, <3>1, <3>2, <3>3
  <2> QED BY <1>3, <2>3, <2>4
<1> QED BY <1>7, <1>9, <1>10, <1>11, <1>12, <1>13 DEF TransferInv

\* At the end of the file all lines have been answered.
LEMMA SendEndKeepsCopy ==
    ASSUME TransferInv, SendEnd
    PROVE  TransferInv'
<1>1. /\ pc = "loop" /\ eof /\ begin_flag' = FALSE /\ pc' = "recv_end" /\ Send(EndStr)
      /\ file' = file /\ pos' = pos /\ eof' = eof /\ fail' = fail /\ me' = me
      /\ reply' = reply /\ out' = out /\ finish_flag' = finish_flag /\ opened' = opened
      /\ intruded' = intruded
  BY DEF SendEnd, stream, receiver
<1>2. /\ me \in Senders /\ request \in [Senders -> Msgs] /\ EndStr \in Msgs /\ EndStr # None
      /\ file \in Files /\ req_state \in {"send", "recv"}
  BY FilesAssumption DEF TransferInv, TypeOK, Msgs
<1>3. req_state = "send" /\ ~begin_flag
  <2>1. pos = Len(Read(file)) + 1 /\ Len(Read(file)) \in Nat \ {0}
    BY <1>1, <1>2, ReadIsSeq DEF TransferInv, StreamInv
  <2>2. pos # 1
    BY <2>1
  <2> QED BY <1>1, <1>2, <2>2 DEF TransferInv, PhaseInv
<1>4. request' = [request EXCEPT ![me] = EndStr] /\ req_state' = "recv"
  BY <1>1, <1>3 DEF Send
<1>5. request' \in [Senders -> Msgs] /\ request'[me] = EndStr
      /\ \A c \in Senders : c # me => request'[c] = request[c]
  BY <1>2, <1>4
<1>6. TypeOK'
  BY <1>1, <1>4, <1>5 DEF TransferInv, TypeOK
<1>7. StreamInv' /\ PhaseInv'
  BY <1>1, <1>4 DEF TransferInv, StreamInv, PhaseInv
<1>8. WireInv'
  <2>1. \A c \in Senders : c > me => request'[c] = None /\ ~reply[c]
    BY <1>2, <1>5, BoundsAssumption DEF TransferInv, WireInv, Senders
  <2> QED BY <1>1, <1>3, <1>4, <1>5, <2>1 DEF TransferInv, WireInv
<1>9. OpeningInv'
  BY <1>1, <1>3 DEF TransferInv, OpeningInv
<1>10. CopyInv'
  <2> SUFFICES ASSUME ~intruded, opened = me, Plain(file)
               PROVE  out = SubSeq(Read(file), 2, pos - 1)
    BY <1>1, <1>5 DEF CopyInv, Plain, Read
  <2> QED BY <1>1 DEF TransferInv, CopyInv, Good
<1> QED BY <1>6, <1>7, <1>8, <1>9, <1>10 DEF TransferInv

\* The reply says that the request has been served.
LEMMA RecvKeepsCopy ==
    ASSUME TransferInv, Recv
    PROVE  TransferInv'
<1>1. /\ pc \in {"recv", "recv_end"} /\ reply[me] /\ req_state' = "send"
      /\ reply' = [reply EXCEPT ![me] = FALSE]
      /\ pc' = (IF pc = "recv" THEN "loop" ELSE "done")
      /\ file' = file /\ pos' = pos /\ eof' = eof /\ fail' = fail /\ me' = me
      /\ request' = request /\ out' = out /\ finish_flag' = finish_flag /\ opened' = opened
      /\ intruded' = intruded /\ begin_flag' = begin_flag
  BY DEF Recv, stream, receiver
<1>2. me \in Senders /\ reply \in [Senders -> BOOLEAN]
  BY DEF TransferInv, TypeOK
<1>3. reply' \in [Senders -> BOOLEAN] /\ ~reply'[me]
      /\ \A c \in Senders : c # me => reply'[c] = reply[c]
  BY <1>1, <1>2
<1>4. request[me] = None /\ ~begin_flag
  BY <1>1 DEF TransferInv, WireInv, PhaseInv
<1>5. TypeOK'
  BY <1>1, <1>3 DEF TransferInv, TypeOK
<1>6. StreamInv'
  BY <1>1 DEF TransferInv, StreamInv
<1>7. WireInv'
  <2>1. \A c \in Senders : c > me => request[c] = None /\ ~reply'[c]
    BY <1>2, <1>3, BoundsAssumption DEF TransferInv, WireInv, Senders
  <2> QED BY <1>1, <1>3, <1>4, <2>1 DEF TransferInv, WireInv
<1>8. PhaseInv'
  <2>1. Good' = Good
    BY <1>1 DEF Good
  <2>2. pc' = "done" => pc = "recv_end"
    BY <1>1
  <2>3. pc' = "loop" => pc = "recv"
    BY <1>1
  <2>4. pc' # "recv" /\ pc' # "recv_end" /\ req_state' # "recv"
    BY <1>1
  <2>5. Good' /\ pc' = "loop" => pos' >= 2
    <3>1. Good /\ pc = "recv" => pos >= 2
      BY DEF TransferInv, PhaseInv
    <3> QED BY <1>1, <2>1, <2>3, <3>1
  <2>6. pc' = "done" => eof'
    BY <1>1, <2>2 DEF TransferInv, PhaseInv
  <2> QED BY <1>1, <1>4, <2>4, <2>5, <2>6 DEF PhaseInv
<1>9. ~intruded => opened = me
  BY <1>4, FilesAssumption DEF TransferInv, OpeningInv
<1>10. OpeningInv'
  BY <1>1, <1>9 DEF OpeningInv
<1>11. CopyInv'
  BY <1>1, <1>4 DEF TransferInv, CopyInv, Good, Plain, Read
<1> QED BY <1>5, <1>6, <1>7, <1>8, <1>10, <1>11 DEF TransferInv

\* A new sender comes over a connection on which nothing has been.
LEMMA RestartKeepsCopy ==
    ASSUME TransferInv, Restart
    PROVE  TransferInv'
<1>1. /\ me < MaxSenders /\ me' = me + 1 /\ pc' = "loop" /\ begin_flag' = TRUE
      /\ req_state' = "send" /\ pos' = 1 /\ eof' = FALSE /\ fail' = ~file.exists
      /\ request' \in {request, [request EXCEPT ![me] = None]}
      /\ file' = file /\ reply' = reply /\ out' = out /\ finish_flag' = finish_flag
      /\ opened' = opened /\ intruded' = intruded
  BY DEF Restart, receiver
<1>2. /\ me \in 1 .. MaxSenders /\ Senders = 1 .. MaxSenders /\ MaxSenders \in Nat
      /\ request \in [Senders -> Msgs] /\ None \in Msgs /\ file \in Files
      /\ opened \in 0 .. MaxSenders
      /\ file.exists \in BOOLEAN
  BY BoundsAssumption, FilesAssumption DEF TransferInv, TypeOK, Senders, Msgs
<1>3. me' \in Senders /\ request' \in [Senders -> Msgs]
      /\ \A c \in Senders : c > me => request'[c] = request[c]
  BY <1>1, <1>2
<1>4. /\ Len(file.lines) \in Nat /\ Len(Read(file)) \in Nat \ {0}
  BY <1>2, ReadIsSeq
<1>5. TypeOK'
  <2>1. pos' \in 1 .. Len(file'.lines) + 2
    BY <1>1, <1>4
  <2>2. {eof', fail', begin_flag', finish_flag', intruded'} \subseteq BOOLEAN
    BY <1>1, <1>2 DEF TransferInv, TypeOK
  <2> QED BY <1>1, <1>3, <2>1, <2>2 DEF TransferInv, TypeOK
<1>6. opened' # me'
  BY <1>1, <1>2 DEF TransferInv, WireInv
<1>7. WireInv'
  <2>1. \A c \in Senders : c >= me + 1 => request'[c] = None /\ ~reply[c]
    BY <1>2, <1>3 DEF TransferInv, WireInv
  <2>2. request'[me'] = None /\ ~reply[me']
    BY <1>1, <1>2, <1>3, <2>1
  <2>3. opened <= me + 1
    BY <1>2 DEF TransferInv, WireInv
  <2>4. \A c \in Senders : c > me + 1 => request'[c] = None /\ ~reply[c]
    BY <1>2, <2>1
  <2> QED BY <1>1, <2>2, <2>3, <2>4 DEF WireInv
<1>8. StreamInv'
  BY <1>1, <1>4 DEF StreamInv, Read
<1>9. PhaseInv' /\ OpeningInv' /\ CopyInv'
  BY <1>1, <1>6 DEF PhaseInv, OpeningInv, CopyInv
<1> QED BY <1>5, <1>7, <1>8, <1>9 DEF TransferInv

\* The receiver takes a request of the sender as it comes; one of a killed sender
\* is served before begin_str, or intrudes.
LEMMA ServeKeepsCopy ==
    ASSUME TransferInv, NEW c \in Senders, Serve(c)
    PROVE  TransferInv'
<1> PICK m : m = request[c]
  OBVIOUS
<1>1. /\ m # None /\ Len(out) < MaxOut /\ Write(m)
      /\ request' = [request EXCEPT ![c] = None] /\ reply' = [reply EXCEPT ![c] = TRUE]
      /\ opened' = (IF m = BeginStr THEN c ELSE opened)
      /\ intruded' = (intruded \/ (c # me /\ opened = me)) /\ finish_flag' = (m = EndStr)
      /\ file' = file /\ pc' = pc /\ pos' = pos /\ eof' = eof /\ fail' = fail
      /\ begin_flag' = begin_flag /\ req_state' = req_state /\ me' = me
  BY DEF Serve, sender, stream
<1>2. /\ me \in 1 .. MaxSenders /\ c \in 1 .. MaxSenders /\ Senders = 1 .. MaxSenders
      /\ MaxSenders \in Nat /\ MaxOut \in Nat /\ request \in [Senders -> Msgs] /\ None \in Msgs
      /\ reply \in [Senders -> BOOLEAN] /\ opened \in 0 .. MaxSenders /\ intruded \in BOOLEAN
      /\ out \in Seq(Lines) /\ Len(out) \in Nat /\ file \in Files /\ m \in Lines
  BY <1>1, BoundsAssumption, FilesAssumption DEF TransferInv, TypeOK, Senders, Msgs
<1>3. /\ request' \in [Senders -> Msgs] /\ reply' \in [Senders -> BOOLEAN]
      /\ request'[c] = None /\ reply'[c]
      /\ \A d \in Senders : d # c => request'[d] = request[d] /\ reply'[d] = reply[d]
  BY <1>1, <1>2
<1>4. c <= me
  BY <1>1, <1>2 DEF TransferInv, WireInv
<1>5. TypeOK'
  <2>1. out' \in Seq(Lines) /\ Len(out') <= MaxOut
    <3>1. CASE out' = <<>>
      BY <1>2, <3>1
    <3>2. CASE out' = out
      BY <1>1, <1>2, <3>2
    <3>3. CASE out' = Append(out, m)
      <4>1. Append(out, m) \in Seq(Lines) /\ Len(Append(out, m)) = Len(out) + 1
        BY <1>2, AppendProperties
      <4> QED BY <1>1, <1>2, <3>3, <4>1
    <3> QED BY <1>1, <3>1, <3>2, <3>3 DEF Write
  <2>2. opened' \in 0 .. MaxSenders /\ intruded' \in BOOLEAN /\ finish_flag' \in BOOLEAN
    BY <1>1, <1>2
  <2> QED BY <1>1, <1>3, <2>1, <2>2 DEF TransferInv, TypeOK
<1>6. StreamInv'
  BY <1>1 DEF TransferInv, StreamInv
<1>7. WireInv'
  <2>1. opened' <= me
    BY <1>1, <1>4 DEF TransferInv, WireInv
  <2>2. \A d \in Senders : d > me => request'[d] = None /\ ~reply'[d]
    BY <1>2, <1>3, <1>4 DEF TransferInv, WireInv
  <2>3. request'[me] # None => ~reply'[me]
    BY <1>2, <1>3 DEF TransferInv, WireInv
  <2>4. req_state = "send" => request'[me] = None /\ ~reply'[me]
    BY <1>1, <1>2, <1>3 DEF TransferInv, WireInv
  <2> QED BY <1>1, <2>1, <2>2, <2>3, <2>4 DEF TransferInv, WireInv
<1>8. PhaseInv'
  <2>1. begin_flag => opened' # me
    <3> SUFFICES ASSUME begin_flag PROVE opened' # me
      OBVIOUS
    <3>1. opened # me /\ request[me] = None
      BY DEF TransferInv, PhaseInv, WireInv
    <3> QED BY <1>1, <3>1
  <2>2. Good' = Good
    BY <1>1 DEF Good
  <2> QED BY <1>1, <2>1, <2>2 DEF TransferInv, PhaseInv
<1>9. CASE c # me
  <2>1. intruded' \/ (opened # me /\ opened' # me /\ request'[me] = request[me])
    <3>1. request'[me] = request[me]
      BY <1>2, <1>3, <1>9
    <3>2. opened = me => intruded'
      BY <1>1, <1>9
    <3>3. opened # me => opened' # me
      BY <1>1, <1>9
    <3>4. CASE opened = me
      BY <3>2, <3>4
    <3>5. CASE opened # me
      BY <3>1, <3>3, <3>5
    <3> QED BY <3>4, <3>5
  <2>2. OpeningInv'
    BY <1>1, <2>1 DEF TransferInv, OpeningInv, Good
  <2>3. CopyInv'
    BY <1>1, <2>1 DEF CopyInv
  <2> QED BY <1>5, <1>6, <1>7, <1>8, <2>2, <2>3 DEF TransferInv
<1>10. CASE c = me
  <2>1. request[me] = m /\ request'[me] = None /\ ~begin_flag /\ intruded' = intruded
    BY <1>1, <1>2, <1>3, <1>10 DEF TransferInv, PhaseInv, WireInv
  <2>2. ~intruded => opened' = me
    BY <1>1, <1>10, <2>1 DEF TransferInv, OpeningInv
  <2>3. OpeningInv'
    BY <1>1, <2>1, <2>2 DEF OpeningInv
  <2>4. CopyInv'
    <3> SUFFICES ASSUME ~intruded, Good, Plain(file)
                 PROVE  out' = SubSeq(Read(file), 2, pos - 1)
      BY <1>1, <2>1 DEF CopyInv, Good, Plain, Read
    <3>1. CASE opened # me
      <4>1. m = BeginStr /\ pos <= 2
        BY <2>1, <3>1 DEF TransferInv, OpeningInv
      <4>2. pos - 1 < 2 /\ pos - 1 \in Int
        BY <1>2, <4>1, ReadIsSeq DEF TransferInv, TypeOK
      <4>3. SubSeq(Read(file), 2, pos - 1) = <<>>
        BY <4>2, SubSeqEmpty
      <4> QED BY <1>1, <4>1, <4>3 DEF Write
    <3>2. CASE opened = me
      <4>1. IF pc = "recv" THEN /\ pos >= 3 /\ m = Read(file)[pos - 1]
                                /\ out = SubSeq(Read(file), 2, pos - 2)
            ELSE m = EndStr /\ out = SubSeq(Read(file), 2, pos - 1)
        BY <1>1, <2>1, <3>2 DEF TransferInv, CopyInv
      <4>2. CASE pc # "recv"
        BY <1>1, <4>1, <4>2, FilesAssumption DEF Write
      <4>3. CASE pc = "recv"
        <5>1. /\ Read(file) \in Seq(Lines) /\ Len(Read(file)) \in Nat
              /\ \A i \in 2 .. Len(Read(file)) : Read(file)[i] \notin {BeginStr, EndStr}
          BY <1>2, ReadIsSeq
        <5>2. pos \in Nat /\ pos <= Len(Read(file)) + 1
          BY <1>2, <5>1, ReadIsSeq DEF TransferInv, TypeOK, StreamInv, Good
        <5> PICK n \in 2 .. Len(Read(file)) : n = pos - 1
          BY <4>1, <4>3, <5>1, <5>2
        <5>3. m \notin {BeginStr, EndStr} /\ out = SubSeq(Read(file), 2, n - 1) /\ m = Read(file)[n]
          BY <4>1, <4>3, <5>1, <5>2
        <5>4. out' = Append(out, m)
          BY <1>1, <5>3 DEF Write
        <5>5. SubSeq(Read(file), 2, n) = Append(SubSeq(Read(file), 2, n - 1), Read(file)[n])
          BY <5>1, PieceGrows
        <5> QED BY <5>3, <5>4, <5>5
      <4> QED BY <4>2, <4>3
    <3> QED BY <3>1, <3>2
  <2> QED BY <1>5, <1>6, <1>7, <1>8, <2>3, <2>4 DEF TransferInv
<1> QED BY <1>9, <1>10

LEMMA TransferInvHolds == Spec => []TransferInv
<1>1. Init => TransferInv
  <2> SUFFICES ASSUME Init PROVE TransferInv
    OBVIOUS
  <2>1. /\ file \in Files /\ file.exists \in BOOLEAN
        /\ Len(file.lines) \in Nat /\ Len(Read(file)) \in Nat \ {0}
    BY ReadIsSeq, FilesAssumption DEF Init
  <2>2. 1 \in Senders /\ MaxSenders \in Nat /\ MaxOut \in Nat /\ None \in Msgs
    BY BoundsAssumption DEF Senders, Msgs
  <2>3. TypeOK
    <3>1. pos \in 1 .. Len(file.lines) + 2
      BY <2>1 DEF Init
    <3>2. out \in Seq(Lines) /\ Len(out) <= MaxOut
      BY <2>2 DEF Init
    <3>3. request \in [Senders -> Msgs] /\ reply \in [Senders -> BOOLEAN] /\ opened \in 0 .. MaxSenders
      BY <2>2 DEF Init
    <3> QED BY <2>1, <2>2, <3>1, <3>2, <3>3 DEF Init, TypeOK
  <2>4. StreamInv
    BY <2>1 DEF Init, StreamInv
  <2>5. WireInv
    BY <2>2 DEF Init, WireInv
  <2>6. PhaseInv /\ OpeningInv /\ CopyInv
    BY DEF Init, PhaseInv, OpeningInv, CopyInv
  <2> QED BY <2>3, <2>4, <2>5, <2>6 DEF TransferInv
<1>2. TransferInv /\ [Next]_vars => TransferInv'
  <2>1. ASSUME TransferInv, UNCHANGED vars PROVE TransferInv'
    BY <2>1, SMTT(30) DEF vars, sender, stream, wire, receiver, TransferInv, TypeOK, StreamInv, WireInv, PhaseInv,
                OpeningInv, CopyInv, Good, Plain, Read
  <2> QED BY <2>1, SendBeginKeepsCopy, SendLineKeepsCopy, SendEndKeepsCopy, RecvKeepsCopy,
             RestartKeepsCopy, ServeKeepsCopy DEF Next, SenderNext
<1> QED BY <1>1, <1>2, PTL DEF Spec

\* A sender that has come to its end has given the receiver all lines of the file
\* but the first, however often it was killed and started again, unless a request
\* of a killed one came between.
THEOREM AllButFirstAreThere == Spec => []AllButFirstArrive
<1>1. TransferInv => AllButFirstArrive
  <2> SUFFICES ASSUME TransferInv, pc = "done", Plain(file), ~intruded
               PROVE  out = Tail(Read(file))
    BY DEF AllButFirstArrive
  <2>1. eof /\ req_state = "send" /\ Good
    BY DEF TransferInv, PhaseInv, WireInv, Good
  <2>2. ~begin_flag /\ opened = me
    BY <2>1 DEF TransferInv, PhaseInv, OpeningInv
  <2>3. out = SubSeq(Read(file), 2, pos - 1)
    BY <2>1, <2>2 DEF TransferInv, CopyInv
  <2>4. Read(file) \in Seq(Lines) /\ Len(Read(file)) \in Nat \ {0}
    BY ReadIsSeq DEF TransferInv, TypeOK
  <2>5. pos - 1 = Len(Read(file))
    BY <2>1, <2>4 DEF TransferInv, StreamInv
  <2>6. Read(file) # <<>>
    BY <2>4
  <2> QED BY <2>3, <2>4, <2>5, <2>6, TailIsSubSeq
<1> QED BY <1>1, TransferInvHolds, PTL

-----------------------------------------------------------------------------
\* The receiver has left and the reply the sender needs cannot come any more.
Stranded == /\ finish_flag
            /\ pc \in {"loop", "recv"} \/ (pc = "recv_end" /\ ~reply[me])

\* Once the receiver has left before the sender's last request, the sender never
\* gets to its end, not even when it is started again.
THEOREM SenderIsStranded == Spec => EarlyEndStrandsSender
<1>1. TransferInv /\ Stranded /\ [Next]_vars => Stranded'
  <2> SUFFICES ASSUME TransferInv, Stranded, [Next]_vars PROVE Stranded'
    OBVIOUS
  <2>1. CASE SendBegin \/ SendLine
    BY <2>1 DEF SendBegin, SendLine, receiver, Stranded
  <2>2. CASE SendEnd
    <3>1. pos # 1
      BY <2>2, ReadIsSeq DEF SendEnd, TransferInv, TypeOK, StreamInv
    <3>2. ~reply[me]
      BY <2>2, <3>1 DEF SendEnd, TransferInv, TypeOK, WireInv, PhaseInv
    <3> QED BY <2>2, <3>2 DEF SendEnd, receiver, Stranded
  <2>3. CASE Recv
    BY <2>3 DEF Recv, receiver, Stranded
  <2>4. CASE Restart
    <3>1. finish_flag' = finish_flag /\ pc' = "loop"
      BY <2>4 DEF Restart, receiver
    <3> QED BY <3>1 DEF Stranded
  <2>5. CASE \E c \in Senders : Serve(c)
    BY <2>5 DEF Serve, Stranded
  <2>6. CASE UNCHANGED vars
    BY <2>6 DEF vars, sender, wire, receiver, Stranded
  <2> QED BY <2>1, <2>2, <2>3, <2>4, <2>5, <2>6 DEF Next, SenderNext
<1>2. finish_flag /\ pc \in {"loop", "recv"} => Stranded
  <2> SUFFICES ASSUME finish_flag, pc \in {"loop", "recv"} PROVE Stranded
    OBVIOUS
  <2> QED BY DEF Stranded
<1>3. Stranded => pc # "done"
  BY DEF Stranded
<1> QED BY <1>1, <1>2, <1>3, TransferInvHolds, PTL DEF Spec, EarlyEndStrandsSender

-----------------------------------------------------------------------------
(* The two-part messages.  The parts put on the socket are cut in pieces:  *)
(* those that have been read, the rest of the message being read, the      *)
(* messages in the queue, and the message that has not been ended.         *)

Parts == {c.title : c \in Calls} \cup {SecondPart(c) : c \in Calls}

Results == [title : Parts, content : Parts \cup {NULL}, ret : {-1, 0}]

SocketTypes ==
    /\ calling \in [Publishers -> Calls \cup {NoCall}]
    /\ building \in Seq(Parts) /\ taken \in BOOLEAN
    /\ inbox \in Seq(Seq(Parts) \ {<<>>}) /\ rest \in Seq(Parts)
    /\ reading \in {"poll", "all", "done"}
    /\ sent \in Seq(Calls) /\ put \in Seq(Parts)
    /\ got \in Seq(Results) /\ read \in Seq(Parts)
    /\ due \in Nat /\ mixed \in BOOLEAN

\* s stands in p after the first n parts.
Stands(s, n, p) == n + Len(s) <= Len(p) /\ \A k \in 1 .. Len(s) : p[n + k] = s[k]

\* The message in place i of the inbox stands between cut[i] and cut[i + 1].
Cuts(cut) ==
    /\ cut \in [1 .. Len(inbox) + 1 -> Nat]
    /\ cut[1] = Len(read) + Len(rest) /\ cut[Len(inbox) + 1] = Ended
    /\ \A i \in 1 .. Len(inbox) : cut[i + 1] = cut[i] + Len(inbox[i])
                                  /\ Stands(inbox[i], cut[i], put)

\* What has been put on the socket is, in this order: what has been read, what is
\* left of the message being read, the inbox, and the message not ended.
InOrder ==
    /\ Stands(read, 0, put) /\ Stands(rest, Len(read), put)
    /\ \E cut : Cuts(cut)
    /\ taken => Stands(building, Ended, put)

OrderInv == /\ SocketTypes /\ InOrder
            /\ reading = "all" => due <= Ended
            /\ reading = "done" => due <= Len(read)

-----------------------------------------------------------------------------
\* A part more on the socket moves nothing.
LEMMA StandsStill ==
    ASSUME NEW s \in Seq(Parts), NEW p \in Seq(Parts), NEW n \in Nat, NEW e \in Parts,
           Stands(s, n, p)
    PROVE  Stands(s, n, Append(p, e))
<1>1. /\ Len(s) \in Nat /\ Len(p) \in Nat /\ Len(Append(p, e)) = Len(p) + 1
      /\ \A i \in 1 .. Len(p) : Append(p, e)[i] = p[i]
  OBVIOUS
<1> QED BY <1>1 DEF Stands

\* A message that stands at the end grows with the socket.
LEMMA StandsLonger ==
    ASSUME NEW s \in Seq(Parts), NEW p \in Seq(Parts), NEW n \in Nat, NEW e \in Parts,
           Stands(s, n, p), n + Len(s) = Len(p)
    PROVE  Stands(Append(s, e), n, Append(p, e))
<1>1. /\ Len(s) \in Nat /\ Len(Append(s, e)) = Len(s) + 1
      /\ \A i \in 1 .. Len(s) : Append(s, e)[i] = s[i]
      /\ Append(s, e)[Len(s) + 1] = e
  OBVIOUS
<1>2. /\ Len(p) \in Nat /\ Len(Append(p, e)) = Len(p) + 1
      /\ \A i \in 1 .. Len(p) : Append(p, e)[i] = p[i]
      /\ Append(p, e)[Len(p) + 1] = e
  OBVIOUS
<1> QED BY <1>1, <1>2 DEF Stands

\* The two halves of what stands in p stand there too.
LEMMA StandsCut ==
    ASSUME NEW s \in Seq(Parts), NEW p \in Seq(Parts), NEW n \in Nat, NEW m \in 0 .. Len(s),
           Stands(s, n, p)
    PROVE  /\ SubSeq(s, 1, m) \in Seq(Parts) /\ Len(SubSeq(s, 1, m)) = m
           /\ SubSeq(s, m + 1, Len(s)) \in Seq(Parts) /\ Len(SubSeq(s, m + 1, Len(s))) = Len(s) - m
           /\ Stands(SubSeq(s, 1, m), n, p) /\ Stands(SubSeq(s, m + 1, Len(s)), n + m, p)
<1>1. Len(s) \in Nat /\ Len(p) \in Nat /\ \A i \in 1 .. Len(s) : s[i] \in Parts
  OBVIOUS
<1>2. /\ SubSeq(s, 1, m) \in Seq(Parts) /\ Len(SubSeq(s, 1, m)) = m
      /\ \A i \in 1 .. m : SubSeq(s, 1, m)[i] = s[i]
  BY <1>1, SubSeqProperties
<1>3. /\ SubSeq(s, m + 1, Len(s)) \in Seq(Parts) /\ Len(SubSeq(s, m + 1, Len(s))) = Len(s) - m
      /\ \A i \in 1 .. Len(s) - m : SubSeq(s, m + 1, Len(s))[i] = s[m + i]
  BY <1>1, SubSeqProperties
<1>4. Stands(SubSeq(s, 1, m), n, p)
  BY <1>1, <1>2 DEF Stands
<1>5. Stands(SubSeq(s, m + 1, Len(s)), n + m, p)
  <2>1. (n + m) + (Len(s) - m) <= Len(p)
    BY <1>1 DEF Stands
  <2>2. \A i \in 1 .. Len(s) - m : p[(n + m) + i] = s[m + i]
    <3> TAKE i \in 1 .. Len(s) - m
    <3>1. m + i \in 1 .. Len(s) /\ n + (m + i) = (n + m) + i
      BY <1>1
    <3> QED BY <3>1 DEF Stands
  <2> QED BY <1>3, <2>1, <2>2 DEF Stands
<1> QED BY <1>2, <1>3, <1>4, <1>5

\* What stands one after the other stands there as a whole.
LEMMA StandsTogether ==
    ASSUME NEW s \in Seq(Parts), NEW t \in Seq(Parts), NEW p \in Seq(Parts),
           Stands(s, 0, p), Stands(t, Len(s), p)
    PROVE  /\ s \o t \in Seq(Parts) /\ Len(s \o t) = Len(s) + Len(t)
           /\ Stands(s \o t, 0, p)
<1>1. /\ s \o t \in Seq(Parts) /\ Len(s \o t) = Len(s) + Len(t)
      /\ \A i \in 1 .. Len(s) + Len(t) : (s \o t)[i] = IF i <= Len(s) THEN s[i] ELSE t[i - Len(s)]
  BY ConcatProperties
<1>2. Len(s) \in Nat /\ Len(t) \in Nat /\ Len(p) \in Nat
  OBVIOUS
<1> QED BY <1>1, <1>2 DEF Stands

LEMMA StandsIsSubSeq ==
    ASSUME NEW s \in Seq(Parts), NEW p \in Seq(Parts), NEW n \in Nat, Stands(s, n, p)
    PROVE  s = SubSeq(p, n + 1, n + Len(s))
<1>1. Len(s) \in Nat /\ Len(p) \in Nat /\ \A i \in 1 .. Len(p) : p[i] \in Parts
  OBVIOUS
<1>2. \A i \in n + 1 .. n + Len(s) : p[i] \in Parts
  BY <1>1 DEF Stands
<1>3. /\ SubSeq(p, n + 1, n + Len(s)) \in Seq(Parts)
      /\ Len(SubSeq(p, n + 1, n + Len(s))) = Len(s)
      /\ \A i \in 1 .. Len(s) : SubSeq(p, n + 1, n + Len(s))[i] = p[n + i]
  BY <1>1, <1>2, SubSeqProperties
<1>4. \A i \in 1 .. Len(s) : s[i] = SubSeq(p, n + 1, n + Len(s))[i]
  BY <1>3 DEF Stands
<1> QED BY <1>3, <1>4, SeqEqual

-----------------------------------------------------------------------------
\* A zmq_msg_send: the message that is built grows or ends at the end of what
\* has been put, or neither is touched.
LEMMA PutStep ==
    ASSUME SocketTypes, InOrder, NEW part \in Parts, NEW more \in BOOLEAN,
           Put(part, more), rest' = rest, read' = read
    PROVE  /\ put' \in Seq(Parts) /\ building' \in Seq(Parts) /\ taken' \in BOOLEAN
           /\ inbox' \in Seq(Seq(Parts) \ {<<>>})
           /\ InOrder' /\ Ended' >= Ended
<1> DEFINE goes == IF building = <<>> THEN part \in Subscribed /\ Len(inbox) < HighWater ELSE taken
           message == Append(building, part)
<1>1. /\ put' = (IF goes THEN Append(put, part) ELSE put)
      /\ building' = (IF more THEN message ELSE <<>>)
      /\ taken' = goes /\ goes \in BOOLEAN
      /\ inbox' = (IF goes /\ ~more THEN Append(inbox, message) ELSE inbox)
  BY DEF Put, SocketTypes
<1>2. /\ Len(put) \in Nat /\ put \in Seq(Parts) /\ building \in Seq(Parts) /\ Len(building) \in Nat
      /\ inbox \in Seq(Seq(Parts) \ {<<>>}) /\ Len(inbox) \in Nat
      /\ read \in Seq(Parts) /\ Len(read) \in Nat /\ rest \in Seq(Parts) /\ Len(rest) \in Nat
      /\ taken \in BOOLEAN /\ \A i \in 1 .. Len(inbox) : inbox[i] \in Seq(Parts)
  <2>1. \A i \in 1 .. Len(inbox) : inbox[i] \in Seq(Parts) \ {<<>>}
    BY ElementOfSeq DEF SocketTypes
  <2> QED BY <2>1 DEF SocketTypes
<1>3. /\ message \in Seq(Parts) \ {<<>>} /\ Len(message) = Len(building) + 1
      /\ Append(put, part) \in Seq(Parts) /\ Len(Append(put, part)) = Len(put) + 1
      /\ Append(inbox, message) \in Seq(Seq(Parts) \ {<<>>})
      /\ Len(Append(inbox, message)) = Len(inbox) + 1
      /\ Append(inbox, message)[Len(inbox) + 1] = message
      /\ \A i \in 1 .. Len(inbox) : Append(inbox, message)[i] = inbox[i]
  <2>1. message \in Seq(Parts) \ {<<>>} /\ Len(message) = Len(building) + 1
    BY <1>2, AppendProperties
  <2> HIDE DEF message
  <2> QED BY <1>2, <2>1
<1>4. PICK cut : Cuts(cut)
  BY DEF InOrder
<1>5. Ended \in Nat /\ Ended <= Len(put) /\ (building = <<>> => Ended = Len(put))
  <2>1. Ended \in Nat
    <3>1. Len(inbox) + 1 \in 1 .. Len(inbox) + 1
      BY <1>2
    <3> QED BY <1>4, <3>1 DEF Cuts
  <2>2. Ended = Len(put) - (IF taken THEN Len(building) ELSE 0)
    BY DEF Ended
  <2> QED BY <1>2, <2>1, <2>2
<1> HIDE DEF goes, message
<1>6. put' \in Seq(Parts) /\ building' \in Seq(Parts) /\ inbox' \in Seq(Seq(Parts) \ {<<>>})
  BY <1>1, <1>2, <1>3
<1>7. ASSUME NEW s \in Seq(Parts), NEW n \in Nat, Stands(s, n, put) PROVE Stands(s, n, put')
  BY <1>1, <1>2, <1>7, StandsStill
<1>8. Stands(read', 0, put') /\ Stands(rest', Len(read'), put')
  BY <1>2, <1>7 DEF InOrder
<1>9. CASE ~goes
  <2>1. Ended' = Ended /\ inbox' = inbox /\ put' = put /\ ~taken'
    <3>1. taken => building = <<>>
      BY <1>9 DEF goes
    <3> QED BY <1>1, <1>2, <1>5, <1>9, <3>1 DEF Ended
  <2>2. Cuts(cut)'
    BY <1>4, <2>1 DEF Cuts
  <2> QED BY <1>1, <1>5, <1>6, <1>8, <2>1, <2>2 DEF InOrder
<1>10. CASE goes
  <2>1. put' = Append(put, part) /\ taken'
    BY <1>1, <1>10
  <2>2. Stands(building, Ended, put) /\ Ended + Len(building) = Len(put)
    <3>1. CASE building = <<>>
      BY <1>2, <1>5, <3>1 DEF Stands
    <3>2. CASE building # <<>>
      BY <1>2, <1>10, <3>2 DEF goes, InOrder, Ended
    <3> QED BY <3>1, <3>2
  <2>3. Stands(message, Ended, put')
    BY <1>2, <1>5, <2>1, <2>2, StandsLonger DEF message
  <2>4. CASE more
    <3>1. building' = message /\ inbox' = inbox
      BY <1>1, <2>4
    <3>2. Ended' = Ended
      <4>1. Ended' = (Len(put) + 1) - (Len(building) + 1)
        BY <1>3, <2>1, <3>1 DEF Ended
      <4> QED BY <1>2, <1>5, <2>2, <4>1
    <3>3. Cuts(cut)'
      <4> SUFFICES ASSUME NEW i \in 1 .. Len(inbox) PROVE Stands(inbox[i], cut[i], put')
        BY <1>4, <3>1, <3>2 DEF Cuts
      <4>1. inbox[i] \in Seq(Parts) /\ cut[i] \in Nat /\ Stands(inbox[i], cut[i], put)
        <5>1. i \in 1 .. Len(inbox) + 1
          BY <1>2
        <5> QED BY <1>2, <1>4, <5>1 DEF Cuts
      <4> QED BY <1>7, <4>1
    <3> QED BY <1>1, <1>5, <1>6, <1>8, <2>3, <3>1, <3>2, <3>3 DEF InOrder
  <2>5. CASE ~more
    <3>1. building' = <<>> /\ inbox' = Append(inbox, message)
      BY <1>1, <1>10, <2>5
    <3>2. Ended' = Len(put) + 1 /\ Len(building') = 0
      BY <1>2, <1>3, <2>1, <3>1 DEF Ended
    <3> PICK longer : longer = [i \in 1 .. Len(inbox) + 2 |->
                                  IF i = Len(inbox) + 2 THEN Len(put) + 1 ELSE cut[i]]
      OBVIOUS
    <3>3. /\ cut \in [1 .. Len(inbox) + 1 -> Nat] /\ cut[Len(inbox) + 1] = Ended
          /\ cut[1] = Len(read) + Len(rest)
          /\ \A i \in 1 .. Len(inbox) : /\ cut[i + 1] = cut[i] + Len(inbox[i])
                                        /\ Stands(inbox[i], cut[i], put)
      BY <1>4 DEF Cuts
    <3>4. /\ longer \in [1 .. Len(inbox') + 1 -> Nat] /\ longer[Len(inbox') + 1] = Ended'
          /\ longer[1] = Len(read') + Len(rest')
      BY <1>2, <1>3, <3>1, <3>2, <3>3
    <3>5. \A i \in 1 .. Len(inbox) + 1 : longer[i] = cut[i]
      BY <1>2
    <3>6. longer[Len(inbox) + 2] = Len(put) + 1
      BY <1>2
    <3>7. ASSUME NEW i \in 1 .. Len(inbox')
          PROVE  longer[i + 1] = longer[i] + Len(inbox'[i]) /\ Stands(inbox'[i], longer[i], put')
      <4>1. CASE i = Len(inbox) + 1
        <5>1. inbox'[i] = message /\ longer[i] = Ended /\ longer[i + 1] = Len(put) + 1
          BY <1>2, <1>3, <3>1, <3>3, <3>5, <3>6, <4>1
        <5>2. Len(put) + 1 = Ended + Len(message)
          BY <1>2, <1>3, <1>5, <2>2
        <5> QED BY <2>3, <5>1, <5>2
      <4>2. CASE i \in 1 .. Len(inbox)
        <5>1. inbox'[i] = inbox[i] /\ longer[i] = cut[i] /\ longer[i + 1] = cut[i + 1]
          BY <1>2, <1>3, <3>1, <3>5, <4>2
        <5>2. inbox[i] \in Seq(Parts) /\ cut[i] \in Nat
          <6>1. i \in 1 .. Len(inbox) + 1
            BY <1>2, <4>2
          <6> QED BY <1>2, <3>3, <4>2, <6>1
        <5> QED BY <1>7, <3>3, <4>2, <5>1, <5>2
      <4> QED BY <1>2, <1>3, <3>1, <4>1, <4>2, SMTT(30)
    <3>8. Cuts(longer)'
      BY <3>4, <3>7 DEF Cuts
    <3>9. Stands(building', Ended', put')
      BY <1>3, <2>1, <3>1, <3>2 DEF Stands
    <3> QED BY <1>1, <1>2, <1>5, <1>6, <1>8, <3>2, <3>8, <3>9 DEF InOrder
  <2> QED BY <2>4, <2>5
<1> QED BY <1>9, <1>10

\* A receive: one or two parts more have been read, in their order.
LEMMA Recv2Step ==
    ASSUME SocketTypes, InOrder, PollIn, Recv2, publishing' = publishing
    PROVE  /\ inbox' \in Seq(Seq(Parts) \ {<<>>}) /\ rest' \in Seq(Parts)
           /\ read' \in Seq(Parts) /\ got' \in Seq(Results)
           /\ InOrder' /\ Ended' = Ended
<1>1. /\ Len(put) \in Nat /\ put \in Seq(Parts) /\ Len(inbox) \in Nat
      /\ inbox \in Seq(Seq(Parts) \ {<<>>})
      /\ read \in Seq(Parts) /\ Len(read) \in Nat /\ rest \in Seq(Parts) /\ Len(rest) \in Nat
      /\ got \in Seq(Results)
  BY DEF SocketTypes
<1>2. Ended' = Ended /\ put' = put /\ taken' = taken /\ building' = building
  BY DEF publishing, Ended
<1>3. PICK cut : Cuts(cut)
  BY DEF InOrder
<1>4. /\ cut \in [1 .. Len(inbox) + 1 -> Nat]
      /\ cut[1] = Len(read) + Len(rest) /\ cut[Len(inbox) + 1] = Ended
      /\ \A i \in 1 .. Len(inbox) : cut[i + 1] = cut[i] + Len(inbox[i])
                                    /\ Stands(inbox[i], cut[i], put)
  BY <1>3 DEF Cuts
\* The message that is read stands where the parts read so far end.
<1>5. /\ Current \in Seq(Parts) /\ Len(Current) \in Nat \ {0} /\ Stands(Current, Len(read), put)
      /\ inbox' \in Seq(Seq(Parts) \ {<<>>})
      /\ \E f : /\ f \in [1 .. Len(inbox') + 1 -> Nat]
                /\ f[1] = Len(read) + Len(Current) /\ f[Len(inbox') + 1] = Ended
                /\ \A i \in 1 .. Len(inbox') : f[i + 1] = f[i] + Len(inbox'[i])
                                              /\ Stands(inbox'[i], f[i], put)
  <2>1. CASE rest # <<>>
    <3>1. Current = rest /\ inbox' = inbox
      BY <2>1 DEF Current, Recv2
    <3>2. Stands(rest, Len(read), put)
      BY DEF InOrder
    <3>3. Len(rest) \in Nat \ {0}
      BY <1>1, <2>1
    <3> QED BY <1>1, <1>4, <3>1, <3>2, <3>3
  <2>2. CASE rest = <<>>
    <3>1. inbox # <<>> /\ Current = Head(inbox) /\ inbox' = Tail(inbox)
      BY <2>2 DEF PollIn, Current, Recv2
    <3>2. /\ Len(inbox) # 0 /\ Current = inbox[1] /\ Current \in Seq(Parts) \ {<<>>}
          /\ inbox' \in Seq(Seq(Parts) \ {<<>>}) /\ Len(inbox') = Len(inbox) - 1
          /\ \A i \in 1 .. Len(inbox) - 1 : inbox'[i] = inbox[i + 1]
      BY <1>1, <3>1, HeadTailProperties
    <3>3. Len(Current) \in Nat \ {0} /\ Len(rest) = 0 /\ cut[1] = Len(read)
      BY <1>1, <1>4, <2>2, <3>2
    <3>4. 1 \in 1 .. Len(inbox)
      BY <1>1, <3>2
    <3>5. Stands(Current, Len(read), put) /\ cut[2] = Len(read) + Len(Current)
      <4>1. cut[1 + 1] = cut[1] + Len(inbox[1]) /\ Stands(inbox[1], cut[1], put)
        BY <1>4, <3>4
      <4> QED BY <3>2, <3>3, <4>1
    <3> PICK f : f = [i \in 1 .. Len(inbox) |-> cut[i + 1]]
      OBVIOUS
    <3>6. f \in [1 .. Len(inbox') + 1 -> Nat]
      <4>1. \A i \in 1 .. Len(inbox) : i + 1 \in 1 .. Len(inbox) + 1
        BY <1>1
      <4>2. f \in [1 .. Len(inbox) -> Nat]
        BY <1>4, <4>1
      <4> QED BY <1>1, <3>2, <4>2
    <3>7. f[1] = Len(read) + Len(Current) /\ f[Len(inbox') + 1] = Ended
      <4>1. Len(inbox') + 1 = Len(inbox) /\ Len(inbox) \in 1 .. Len(inbox)
        BY <1>1, <3>2
      <4> QED BY <1>4, <3>4, <3>5, <4>1
    <3>8. ASSUME NEW i \in 1 .. Len(inbox')
          PROVE  f[i + 1] = f[i] + Len(inbox'[i]) /\ Stands(inbox'[i], f[i], put)
      <4>1. i \in 1 .. Len(inbox) /\ i + 1 \in 1 .. Len(inbox) /\ i \in 1 .. Len(inbox) - 1
        BY <1>1, <3>2
      <4>2. f[i] = cut[i + 1] /\ f[i + 1] = cut[(i + 1) + 1] /\ inbox'[i] = inbox[i + 1]
        BY <3>2, <4>1
      <4> QED BY <1>4, <4>1, <4>2
    <3>9. \E g : /\ g \in [1 .. Len(inbox') + 1 -> Nat]
                 /\ g[1] = Len(read) + Len(Current) /\ g[Len(inbox') + 1] = Ended
                 /\ \A i \in 1 .. Len(inbox') : g[i + 1] = g[i] + Len(inbox'[i])
                                               /\ Stands(inbox'[i], g[i], put)
      BY <3>6, <3>7, <3>8
    <3> QED BY <3>2, <3>3, <3>5, <3>9
  <2> QED BY <2>1, <2>2
<1>a. Current \in Seq(Parts) /\ Len(Current) \in Nat \ {0} /\ Stands(Current, Len(read), put)
  BY <1>5
<1>b. PICK n \in 1 .. 2 : n = IF Len(Current) = 1 THEN 1 ELSE 2
  OBVIOUS
<1>6. n \in 0 .. Len(Current) /\ n \in Nat
  <2>1. CASE Len(Current) = 1
    BY <1>b, <2>1
  <2>2. CASE Len(Current) # 1
    <3>1. n = 2
      BY <1>b, <2>2
    <3>2. Len(Current) \in Nat \ {0, 1}
      BY <1>a, <2>2
    <3>3. PICK m \in Nat \ {0, 1} : m = Len(Current)
      BY <3>2
    <3>4. 2 \in 0 .. m
      OBVIOUS
    <3> QED BY <3>1, <3>3, <3>4
  <2> QED BY <2>1, <2>2
\* What is read, and what is left.
<1>7. read' = read \o SubSeq(Current, 1, n) /\ rest' = SubSeq(Current, n + 1, Len(Current))
  <2>1. read' = read \o SubSeq(Current, 1, n)
    BY <1>b DEF Recv2
  <2>2. CASE n = 2
    BY <1>b, <2>1, <2>2 DEF Recv2
  <2>3. CASE n = 1
    <3>1. Len(Current) = 1
      BY <1>b, <2>3
    <3>2. SubSeq(Current, 3, 1) = <<>> /\ SubSeq(Current, 2, 1) = <<>>
      BY SubSeqEmpty
    <3> QED BY <2>1, <2>3, <3>1, <3>2 DEF Recv2
  <2> QED BY <2>1, <2>2, <2>3
<1>8. /\ SubSeq(Current, 1, n) \in Seq(Parts) /\ Len(SubSeq(Current, 1, n)) = n
      /\ rest' \in Seq(Parts) /\ Len(rest') = Len(Current) - n
      /\ Stands(SubSeq(Current, 1, n), Len(read), put) /\ Stands(rest', Len(read) + n, put)
  BY <1>1, <1>a, <1>6, <1>7, StandsCut
<1>9. read' \in Seq(Parts) /\ Len(read') = Len(read) + n /\ Stands(read', 0, put)
  <2>1. Stands(read, 0, put)
    BY DEF InOrder
  <2> PICK piece \in Seq(Parts) : piece = SubSeq(Current, 1, n)
    BY <1>8
  <2>2. Len(piece) = n /\ Stands(piece, Len(read), put) /\ read' = read \o piece
    BY <1>7, <1>8
  <2>4. /\ read \in Seq(Parts) /\ put \in Seq(Parts) /\ Len(piece) = n
        /\ Stands(read, 0, put) /\ Stands(piece, Len(read), put)
    BY <1>1, <2>1, <2>2
  <2>5. /\ read \o piece \in Seq(Parts) /\ Len(read \o piece) = Len(read) + Len(piece)
        /\ Stands(read \o piece, 0, put)
    BY <2>4, StandsTogether
  <2>3. read \o piece \in Seq(Parts) /\ Len(read \o piece) = Len(read) + n
        /\ Stands(read \o piece, 0, put)
    BY <2>2, <2>5
  <2> QED BY <2>2, <2>3
<1>10. got' \in Seq(Results)
  <2>1. Current[1] \in Parts /\ (Len(Current) # 1 => Current[2] \in Parts)
    <3>1. 1 \in 1 .. Len(Current) /\ (Len(Current) # 1 => 2 \in 1 .. Len(Current))
      BY <1>a
    <3> QED BY <1>a, <3>1, ElementOfSeq
  <2>2. (IF Len(Current) = 1 THEN [title |-> Current[1], content |-> NULL, ret |-> -1]
         ELSE [title |-> Current[1], content |-> Current[2], ret |-> 0]) \in Results
    BY <2>1 DEF Results
  <2> QED BY <1>1, <2>2, AppendProperties DEF Recv2
<1>11. \E f : Cuts(f)'
  <2>1. PICK f : /\ f \in [1 .. Len(inbox') + 1 -> Nat]
                 /\ f[1] = Len(read) + Len(Current) /\ f[Len(inbox') + 1] = Ended
                 /\ \A i \in 1 .. Len(inbox') : f[i + 1] = f[i] + Len(inbox'[i])
                                               /\ Stands(inbox'[i], f[i], put)
    BY <1>5
  <2>2. f[1] = Len(read') + Len(rest')
    BY <1>1, <1>a, <1>6, <1>8, <1>9, <2>1
  <2>3. Cuts(f)'
    BY <1>2, <2>1, <2>2 DEF Cuts
  <2> QED BY <2>3
<1>12. InOrder'
  BY <1>2, <1>8, <1>9, <1>11 DEF InOrder
<1> QED BY <1>2, <1>5, <1>8, <1>9, <1>10, <1>12

\* What a thread sends are parts.
LEMMA SentAreParts ==
    ASSUME NEW call \in Calls
    PROVE  call.title \in Parts /\ SecondPart(call) \in Parts
BY DEF Parts

LEMMA SendKeepsOrder ==
    ASSUME OrderInv, NEW t \in Publishers, SendTitle(t) \/ SendData(t)
    PROVE  OrderInv'
<1>1. /\ rest' = rest /\ reading' = reading /\ got' = got /\ read' = read /\ due' = due
      /\ mixed' \in BOOLEAN
  BY DEF SendTitle, SendData, receiving, OrderInv, SocketTypes
<1>2. /\ calling' \in [Publishers -> Calls \cup {NoCall}] /\ sent' \in Seq(Calls)
      /\ \E part \in Parts, more \in BOOLEAN : Put(part, more)
  <2>1. CASE SendTitle(t)
    <3>1. PICK call \in Calls : /\ calling' = [calling EXCEPT ![t] = call]
                                /\ sent' = Append(sent, call) /\ Put(call.title, TRUE)
      BY <2>1 DEF SendTitle
    <3>2. sent' \in Seq(Calls)
      BY <3>1 DEF OrderInv, SocketTypes
    <3> QED BY <3>1, <3>2, SentAreParts DEF OrderInv, SocketTypes
  <2>2. CASE SendData(t)
    <3>1. /\ calling' = [calling EXCEPT ![t] = NoCall] /\ sent' = sent
          /\ Put(SecondPart(calling[t]), FALSE) /\ calling[t] # NoCall
      BY <2>2 DEF SendData
    <3>2. calling[t] \in Calls
      BY <3>1 DEF OrderInv, SocketTypes
    <3> QED BY <3>1, <3>2, SentAreParts DEF OrderInv, SocketTypes
  <2> QED BY <2>1, <2>2
<1>3. /\ put' \in Seq(Parts) /\ building' \in Seq(Parts) /\ taken' \in BOOLEAN
      /\ inbox' \in Seq(Seq(Parts) \ {<<>>}) /\ InOrder' /\ Ended' >= Ended
  BY <1>1, <1>2, PutStep DEF OrderInv
<1>4. SocketTypes'
  BY <1>1, <1>2, <1>3 DEF OrderInv, SocketTypes
<1>5. Ended \in Int /\ Ended' \in Int /\ due \in Nat
  BY <1>3, <1>4 DEF Ended, OrderInv, SocketTypes
<1>6. reading = "all" => due <= Ended'
  <2> SUFFICES ASSUME reading = "all" PROVE due <= Ended'
    OBVIOUS
  <2>1. due <= Ended
    BY DEF OrderInv
  <2> QED BY <1>3, <1>5, <2>1
<1> QED BY <1>1, <1>3, <1>4, <1>6 DEF OrderInv

LEMMA ReadKeepsOrder ==
    ASSUME OrderInv, SocketRead
    PROVE  OrderInv'
<1>1. publishing' = publishing
  BY DEF SocketRead, Recv2Parts, RecvAllStart, RecvAllNext, RecvAllEnd, RecvAllReturn
<1>2. Ended \in Nat
  <2>1. PICK cut : Cuts(cut)
    BY DEF OrderInv, InOrder
  <2>2. Len(inbox) + 1 \in 1 .. Len(inbox) + 1
    BY DEF OrderInv, SocketTypes
  <2> QED BY <2>1, <2>2 DEF Cuts
<1>3. ASSUME inbox' = inbox, rest' = rest, got' = got, read' = read, 
             due' \in Nat, reading' \in {"poll", "all", "done"}
      PROVE  SocketTypes' /\ InOrder' /\ Ended' = Ended
  <2>1. SocketTypes' /\ Ended' = Ended
    BY <1>1, <1>3 DEF publishing, OrderInv, SocketTypes, Ended
  <2>2. InOrder'
    BY <1>1, <1>3, <2>1, SMTT(30) DEF publishing, OrderInv, InOrder, Cuts
  <2> QED BY <2>1, <2>2
<1>4. CASE Recv2Parts \/ RecvAllNext
  <2>1. /\ PollIn /\ Recv2 /\ due' \in Nat /\ reading' \in {"poll", "all"}
        /\ reading' = "all" => reading = "all" /\ due' = due
    BY <1>4 DEF Recv2Parts, RecvAllNext, OrderInv, SocketTypes
  <2>2. /\ inbox' \in Seq(Seq(Parts) \ {<<>>}) /\ rest' \in Seq(Parts)
        /\ read' \in Seq(Parts) /\ got' \in Seq(Results) /\ InOrder' /\ Ended' = Ended
    BY <1>1, <2>1, Recv2Step DEF OrderInv
  <2>3. SocketTypes'
    BY <1>1, <2>1, <2>2 DEF publishing, OrderInv, SocketTypes
  <2> QED BY <2>1, <2>2, <2>3 DEF OrderInv
<1>5. CASE RecvAllStart
  BY <1>2, <1>3, <1>5 DEF RecvAllStart, OrderInv
<1>6. CASE RecvAllEnd
  <2>1. /\ reading = "all" /\ reading' = "done" /\ rest = <<>> /\ inbox = <<>>
        /\ inbox' = inbox /\ rest' = rest /\ got' = got /\ read' = read /\ due' = due
    BY <1>6 DEF RecvAllEnd, PollIn
  <2>2. SocketTypes' /\ InOrder'
    BY <1>3, <2>1 DEF OrderInv, SocketTypes
  <2>3. PICK cut : Cuts(cut)
    BY DEF OrderInv, InOrder
  <2>4. Ended = Len(read)
    <3>1. Len(inbox) = 0 /\ Len(rest) = 0 /\ Len(read) \in Nat
      BY <2>1 DEF OrderInv, SocketTypes
    <3> QED BY <2>3, <3>1 DEF Cuts
  <2>5. due <= Len(read)
    BY <2>1, <2>4 DEF OrderInv
  <2> QED BY <2>1, <2>2, <2>5 DEF OrderInv
<1>7. CASE RecvAllReturn
  BY <1>3, <1>7 DEF RecvAllReturn, OrderInv
<1> QED BY <1>4, <1>5, <1>6, <1>7 DEF SocketRead

LEMMA OrderInvHolds == SocketSpec => []OrderInv
<1>1. SocketInit => OrderInv
  <2> SUFFICES ASSUME SocketInit PROVE OrderInv
    OBVIOUS
  <2>1. SocketTypes /\ Ended = 0
    <3>1. calling \in [Publishers -> Calls \cup {NoCall}]
      BY DEF SocketInit
    <3>2. <<>> \in Seq(Parts) /\ <<>> \in Seq(Calls) /\ <<>> \in Seq(Results)
          /\ <<>> \in Seq(Seq(Parts) \ {<<>>}) /\ Len(<<>>) = 0
      OBVIOUS
    <3>3. SocketTypes
      BY <3>1, <3>2 DEF SocketInit, SocketTypes
    <3>4. put = <<>> /\ taken = FALSE
      BY DEF SocketInit
    <3> QED BY <3>2, <3>3, <3>4 DEF Ended
  <2>2. InOrder
    <3>1. Len(<<>>) = 0
      OBVIOUS
    <3>2. Cuts([i \in 1 .. 1 |-> 0])
      BY <2>1, <3>1 DEF SocketInit, Cuts
    <3> QED BY <3>1, <3>2 DEF SocketInit, InOrder, Stands
  <2> QED BY <2>1, <2>2 DEF SocketInit, OrderInv
<1>2. OrderInv /\ [SocketNext]_socketVars => OrderInv'
  <2>1. ASSUME OrderInv, UNCHANGED socketVars PROVE OrderInv'
    <3>1. Ended' = Ended /\ SocketTypes'
      BY <2>1 DEF socketVars, publishing, receiving, OrderInv, SocketTypes, Ended
    <3>2. InOrder'
      BY <2>1, <3>1 DEF socketVars, publishing, receiving, OrderInv, InOrder, Cuts
    <3> QED BY <2>1, <3>1, <3>2 DEF socketVars, receiving, OrderInv
  <2> QED BY <2>1, SendKeepsOrder, ReadKeepsOrder DEF SocketNext
<1> QED BY <1>1, <1>2, PTL DEF SocketSpec

\* Mixed or not, the parts are read in the order in which they were put on the
\* socket, and a RecvAllMessages that returns 0 has taken all that was there.
THEOREM PartsAreInOrder == SocketSpec => []PartsStayInOrder
<1>1. OrderInv => PartsStayInOrder
  <2> SUFFICES ASSUME OrderInv PROVE PartsStayInOrder
    OBVIOUS
  <2>1. /\ read \in Seq(Parts) /\ rest \in Seq(Parts) /\ put \in Seq(Parts)
        /\ Len(read) \in Nat /\ Len(rest) \in Nat
        /\ Stands(read, 0, put) /\ Stands(rest, Len(read), put)
    BY DEF OrderInv, SocketTypes, InOrder
  <2>2. read = SubSeq(put, 0 + 1, 0 + Len(read))
    BY <2>1, StandsIsSubSeq
  <2>3. rest = SubSeq(put, Len(read) + 1, Len(read) + Len(rest))
    BY <2>1, StandsIsSubSeq
  <2>4. reading = "done" => Len(read) >= due
    BY <2>1 DEF OrderInv, SocketTypes
  <2> QED BY <2>1, <2>2, <2>3, <2>4 DEF PartsStayInOrder
<1> QED BY <1>1, OrderInvHolds, PTL

-----------------------------------------------------------------------------
\* Some thread is between its parts.
Busy == \E t \in Publishers : calling[t] # NoCall

\* The calls that have sent both parts.
Complete == IF Busy THEN Len(sent) - 1 ELSE Len(sent)

Message(call) == <<call.title, SecondPart(call)>>
Result(call)  == [title |-> call.title, content |-> SecondPart(call), ret |-> 0]

\* The results and then the messages in the inbox are those of the calls ix[1],
\* ix[2], ..., in their order.
Pairs(ix) ==
    /\ ix \in [1 .. Len(got) + Len(inbox) -> 1 .. Complete]
    /\ \A i, j \in 1 .. Len(got) + Len(inbox) : i < j => ix[i] < ix[j]
    /\ \A i \in 1 .. Len(got) : got[i] = Result(sent[ix[i]])
    /\ \A i \in 1 .. Len(inbox) : inbox[i] = Message(sent[ix[Len(got) + i]])

\* As long as nothing is mixed one thread at most is between its parts, and the
\* message that is built is the title of its call, the last one made.
OneAtATime ==
    /\ \A t, u \in Publishers : calling[t] # NoCall /\ calling[u] # NoCall => t = u
    /\ \A t \in Publishers : calling[t] # NoCall => /\ sent # <<>> /\ calling[t] = sent[Len(sent)]
                                                   /\ building = <<calling[t].title>>
    /\ ~Busy => building = <<>>

PairInv == SocketTypes /\ (~mixed => OneAtATime /\ rest = <<>> /\ \E ix : Pairs(ix))

\* A title that mixes nothing is the first part of a message of its own.
LEMMA TitleKeepsPairs ==
    ASSUME PairInv, SocketTypes', NEW t \in Publishers, SendTitle(t)
    PROVE  PairInv'
<1> SUFFICES ASSUME ~mixed'
             PROVE  OneAtATime' /\ rest' = <<>> /\ \E ix : Pairs(ix)'
  BY DEF PairInv
<1>1. ~mixed /\ ~Busy /\ rest' = rest /\ got' = got
  BY DEF SendTitle, Busy, receiving, SocketTypes, PairInv
<1>2. PICK call \in Calls : /\ calling' = [calling EXCEPT ![t] = call]
                            /\ sent' = Append(sent, call) /\ Put(call.title, TRUE)
  BY DEF SendTitle
<1>3. building = <<>> /\ rest = <<>>
  BY <1>1 DEF PairInv, OneAtATime
<1>4. building' = <<call.title>> /\ inbox' = inbox
  BY <1>2, <1>3 DEF Put
<1>5. sent \in Seq(Calls) /\ Len(sent) \in Nat /\ calling \in [Publishers -> Calls \cup {NoCall}]
  BY DEF PairInv, SocketTypes
<1>6. /\ Len(sent') = Len(sent) + 1 /\ sent'[Len(sent) + 1] = call /\ sent' # <<>>
      /\ \A i \in 1 .. Len(sent) : sent'[i] = sent[i]
  BY <1>2, <1>5
<1>7. calling'[t] = call /\ call # NoCall /\ \A u \in Publishers : u # t => calling'[u] = NoCall
  BY <1>1, <1>2, <1>5, SocketAssumption DEF Busy
<1>8. OneAtATime'
  BY <1>4, <1>5, <1>6, <1>7 DEF OneAtATime, Busy
<1>9. Complete = Len(sent) /\ Complete' = Len(sent)
  <2>1. Busy'
    BY <1>7 DEF Busy
  <2>2. Complete' = (Len(sent) + 1) - 1
    BY <1>6, <2>1 DEF Complete
  <2> QED BY <1>1, <1>5, <2>2 DEF Complete
<1>10. PICK ix : Pairs(ix)
  BY <1>1 DEF PairInv
<1>11. Len(got) \in Nat /\ Len(inbox) \in Nat
  BY DEF PairInv, SocketTypes
<1>12. \A i \in 1 .. Len(got) + Len(inbox) : sent'[ix[i]] = sent[ix[i]]
  BY <1>6, <1>9, <1>10 DEF Pairs
<1>13. \A i \in 1 .. Len(got) : i \in 1 .. Len(got) + Len(inbox)
  BY <1>11
<1>14. \A i \in 1 .. Len(inbox) : Len(got) + i \in 1 .. Len(got) + Len(inbox)
  BY <1>11
<1>15. Pairs(ix)'
  BY <1>1, <1>4, <1>9, <1>10, <1>12, <1>13, <1>14 DEF Pairs
<1> QED BY <1>1, <1>3, <1>8, <1>15

\* The second part ends the message, which is the pair of this call.
LEMMA DataKeepsPairs ==
    ASSUME PairInv, SocketTypes', NEW t \in Publishers, SendData(t)
    PROVE  PairInv'
<1> SUFFICES ASSUME ~mixed
             PROVE  OneAtATime' /\ rest' = <<>> /\ \E ix : Pairs(ix)'
  BY DEF PairInv, SendData
<1>1. /\ rest' = rest /\ got' = got /\ sent' = sent /\ calling[t] # NoCall
      /\ calling' = [calling EXCEPT ![t] = NoCall] /\ Put(SecondPart(calling[t]), FALSE)
  BY DEF SendData, receiving
<1>2. sent \in Seq(Calls) /\ Len(sent) \in Nat /\ calling \in [Publishers -> Calls \cup {NoCall}]
  BY DEF PairInv, SocketTypes
<1>3. OneAtATime /\ rest = <<>>
  BY DEF PairInv
<1>4. /\ \A u \in Publishers : u # t => calling[u] = NoCall
      /\ sent # <<>> /\ calling[t] = sent[Len(sent)] /\ building = <<calling[t].title>>
  BY <1>1, <1>3 DEF OneAtATime
<1>5. ~Busy' /\ Busy
  BY <1>1, <1>2, <1>4 DEF Busy
<1>6. Complete' = Len(sent) /\ Complete = Len(sent) - 1 /\ Len(sent) \in Nat \ {0}
  <2>1. Len(sent) # 0
    BY <1>2, <1>4
  <2> QED BY <1>1, <1>2, <1>5, <2>1 DEF Complete
<1>7. building' = <<>>
  BY <1>1 DEF Put
<1>8. OneAtATime'
  BY <1>5, <1>7 DEF OneAtATime, Busy
<1>9. PICK ix : Pairs(ix)
  BY DEF PairInv
<1>10. /\ Len(got) \in Nat /\ Len(inbox) \in Nat /\ inbox \in Seq(Seq(Parts) \ {<<>>})
  BY DEF PairInv, SocketTypes
<1>11. inbox' = inbox \/ inbox' = Append(inbox, Message(sent[Len(sent)]))
  <2>1. Append(building, SecondPart(calling[t])) = Message(sent[Len(sent)])
    <3>1. ASSUME NEW e, NEW f PROVE Append(<<e>>, f) = <<e, f>>
      <4>1. <<e>> \in Seq({e, f}) /\ <<e, f>> \in Seq({e, f}) /\ Len(<<e>>) = 1 /\ Len(<<e, f>>) = 2
        OBVIOUS
      <4>2. /\ Append(<<e>>, f) \in Seq({e, f}) /\ Len(Append(<<e>>, f)) = 2
            /\ Append(<<e>>, f)[1] = e /\ Append(<<e>>, f)[2] = f
        BY <4>1, AppendProperties
      <4>3. \A i \in 1 .. 2 : Append(<<e>>, f)[i] = <<e, f>>[i]
        BY <4>2
      <4> QED BY <4>1, <4>2, <4>3, SeqEqual
    <3> QED BY <1>4, <3>1 DEF Message
  <2> QED BY <1>1, <2>1 DEF Put
<1>12. /\ ix \in [1 .. Len(got) + Len(inbox) -> 1 .. Len(sent) - 1]
       /\ \A i, j \in 1 .. Len(got) + Len(inbox) : i < j => ix[i] < ix[j]
       /\ \A i \in 1 .. Len(got) : got[i] = Result(sent[ix[i]])
       /\ \A i \in 1 .. Len(inbox) : inbox[i] = Message(sent[ix[Len(got) + i]])
  BY <1>6, <1>9 DEF Pairs
<1>13. CASE inbox' = inbox
  <2>1. ix \in [1 .. Len(got) + Len(inbox) -> 1 .. Len(sent)]
    BY <1>6, <1>12
  <2>2. Pairs(ix)'
    BY <1>1, <1>6, <1>12, <1>13, <2>1 DEF Pairs
  <2> QED BY <1>1, <1>3, <1>8, <2>2
<1>14. CASE inbox' = Append(inbox, Message(sent[Len(sent)]))
  <2>1. /\ Len(inbox') = Len(inbox) + 1
        /\ inbox'[Len(inbox) + 1] = Message(sent[Len(sent)])
        /\ \A i \in 1 .. Len(inbox) : inbox'[i] = inbox[i]
    BY <1>10, <1>14
  <2> PICK n \in Nat : n = Len(got) + Len(inbox)
    BY <1>10
  <2> PICK last \in Nat \ {0} : last = Len(sent)
    BY <1>6
  <2> PICK f : f = [i \in 1 .. n + 1 |-> IF i = n + 1 THEN last ELSE ix[i]]
    OBVIOUS
  <2>2. f \in [1 .. n + 1 -> 1 .. last] /\ f[n + 1] = last /\ \A i \in 1 .. n : f[i] = ix[i]
    <3>1. ix \in [1 .. n -> 1 .. last - 1]
      BY <1>12
    <3> QED BY <3>1
  <2>3. \A i, j \in 1 .. n + 1 : i < j => f[i] < f[j]
    <3> SUFFICES ASSUME NEW i \in 1 .. n + 1, NEW j \in 1 .. n + 1, i < j PROVE f[i] < f[j]
      OBVIOUS
    <3>1. i \in 1 .. n
      OBVIOUS
    <3>4. f[i] = ix[i] /\ ix[i] \in 1 .. last - 1
      BY <1>12, <2>2, <3>1
    <3>2. CASE j = n + 1
      BY <2>2, <3>2, <3>4
    <3>3. CASE j \in 1 .. n
      BY <1>12, <2>2, <3>1, <3>3
    <3> QED BY <3>2, <3>3
  <2>4. Len(got') + Len(inbox') = n + 1
    BY <1>1, <1>10, <2>1
  <2>5. \A i \in 1 .. Len(got) : got[i] = Result(sent[f[i]])
    <3>1. \A i \in 1 .. Len(got) : i \in 1 .. n
      BY <1>10
    <3> QED BY <1>12, <2>2, <3>1
  <2>6. \A i \in 1 .. Len(inbox') : inbox'[i] = Message(sent[f[Len(got) + i]])
    <3> SUFFICES ASSUME NEW i \in 1 .. Len(inbox) + 1
                 PROVE  inbox'[i] = Message(sent[f[Len(got) + i]])
      BY <2>1
    <3>1. CASE i = Len(inbox) + 1
      <4>1. Len(got) + i = n + 1
        BY <1>10, <3>1
      <4> QED BY <2>1, <2>2, <3>1, <4>1
    <3>2. CASE i \in 1 .. Len(inbox)
      <4>1. Len(got) + i \in 1 .. n
        BY <1>10, <3>2
      <4> QED BY <1>12, <2>1, <2>2, <3>2, <4>1
    <3> QED BY <1>10, <3>1, <3>2
  <2>7. Pairs(f)'
    BY <1>1, <1>6, <2>2, <2>3, <2>4, <2>5, <2>6 DEF Pairs
  <2> QED BY <1>1, <1>3, <1>8, <2>7
<1> QED BY <1>11, <1>13, <1>14

\* A receive takes the pair at the head of the inbox whole.
LEMMA Recv2KeepsPairs ==
    ASSUME PairInv, SocketTypes', PollIn, Recv2, publishing' = publishing
    PROVE  PairInv'
<1> SUFFICES ASSUME ~mixed
             PROVE  OneAtATime' /\ rest' = <<>> /\ \E ix : Pairs(ix)'
  BY DEF PairInv, publishing
<1>1. /\ sent' = sent /\ calling' = calling /\ building' = building /\ rest = <<>>
      /\ inbox # <<>> /\ inbox' = Tail(inbox) /\ Current = Head(inbox)
  BY DEF publishing, PairInv, PollIn, Recv2, Current
<1>2. /\ Len(got) \in Nat /\ got \in Seq(Results) /\ Len(inbox) \in Nat
      /\ inbox \in Seq(Seq(Parts) \ {<<>>}) /\ sent \in Seq(Calls)
  BY DEF PairInv, SocketTypes
<1>3. /\ Len(inbox) # 0 /\ Head(inbox) = inbox[1] /\ Len(inbox') = Len(inbox) - 1
      /\ \A i \in 1 .. Len(inbox) - 1 : inbox'[i] = inbox[i + 1]
  BY <1>1, <1>2, HeadTailProperties
<1>4. PICK ix : Pairs(ix)
  BY DEF PairInv
<1>5. /\ ix \in [1 .. Len(got) + Len(inbox) -> 1 .. Complete]
      /\ \A i, j \in 1 .. Len(got) + Len(inbox) : i < j => ix[i] < ix[j]
      /\ \A i \in 1 .. Len(got) : got[i] = Result(sent[ix[i]])
      /\ \A i \in 1 .. Len(inbox) : inbox[i] = Message(sent[ix[Len(got) + i]])
  BY <1>4 DEF Pairs
<1>6. Complete' = Complete
  BY <1>1 DEF Complete, Busy
<1> PICK call : call = sent[ix[Len(got) + 1]]
  OBVIOUS
<1>7. Current = Message(call)
  <2>1. 1 \in 1 .. Len(inbox)
    BY <1>2, <1>3
  <2> QED BY <1>1, <1>3, <1>5, <2>1
<1>8. Len(Current) = 2 /\ Current[1] = call.title /\ Current[2] = SecondPart(call)
  BY <1>7 DEF Message
<1>9. rest' = <<>> /\ got' = Append(got, Result(call))
  <2>1. SubSeq(Current, 3, 2) = <<>>
    BY SubSeqEmpty
  <2>2. rest' = SubSeq(Current, 3, 2)
    BY <1>8 DEF Recv2
  <2>3. got' = Append(got, [title |-> Current[1], content |-> Current[2], ret |-> 0])
    BY <1>8 DEF Recv2
  <2> QED BY <1>8, <2>1, <2>2, <2>3 DEF Result
<1>10. /\ Len(got') = Len(got) + 1 /\ got'[Len(got) + 1] = Result(call)
       /\ \A i \in 1 .. Len(got) : got'[i] = got[i]
  <2>1. got' \in Seq(Results) /\ Len(got') \in Nat
    BY DEF SocketTypes
  <2> QED BY <1>2, <1>9, <2>1
<1>11. Len(got') + Len(inbox') = Len(got) + Len(inbox)
  BY <1>2, <1>3, <1>10
<1>12. \A i \in 1 .. Len(got') : got'[i] = Result(sent[ix[i]])
  <2> SUFFICES ASSUME NEW i \in 1 .. Len(got) + 1 PROVE got'[i] = Result(sent[ix[i]])
    BY <1>10
  <2>1. CASE i = Len(got) + 1
    BY <1>10, <2>1
  <2>2. CASE i \in 1 .. Len(got)
    <3>1. got'[i] = got[i] /\ got[i] = Result(sent[ix[i]])
      BY <1>5, <1>10, <2>2
    <3> QED BY <3>1
  <2>3. i = Len(got) + 1 \/ i \in 1 .. Len(got)
    BY <1>2
  <2> QED BY <2>1, <2>2, <2>3
<1>13. \A i \in 1 .. Len(inbox') : inbox'[i] = Message(sent[ix[Len(got') + i]])
  <2> SUFFICES ASSUME NEW i \in 1 .. Len(inbox) - 1
               PROVE  inbox'[i] = Message(sent[ix[(Len(got) + 1) + i]])
    BY <1>3, <1>10
  <2>1. i + 1 \in 1 .. Len(inbox) /\ (Len(got) + 1) + i = Len(got) + (i + 1)
    BY <1>2
  <2> QED BY <1>3, <1>5, <2>1
<1>14. Pairs(ix)'
  BY <1>1, <1>5, <1>6, <1>11, <1>12, <1>13 DEF Pairs
<1>15. OneAtATime'
  BY <1>1 DEF PairInv, OneAtATime, Busy
<1> QED BY <1>9, <1>14, <1>15

LEMMA PairInvHolds == SocketSpec => []PairInv
<1>1. SocketInit /\ SocketTypes => PairInv
  <2> SUFFICES ASSUME SocketInit, SocketTypes PROVE PairInv
    OBVIOUS
  <2>1. OneAtATime /\ rest = <<>>
    BY DEF SocketInit, OneAtATime, Busy
  <2>2. Len(got) = 0 /\ Len(inbox) = 0
    BY DEF SocketInit
  <2>3. Pairs([i \in 1 .. 0 |-> 0])
    BY <2>2 DEF Pairs
  <2> QED BY <2>1, <2>3 DEF PairInv
<1>2. PairInv /\ SocketTypes' /\ [SocketNext]_socketVars => PairInv'
  <2> SUFFICES ASSUME PairInv, SocketTypes', [SocketNext]_socketVars PROVE PairInv'
    OBVIOUS
  <2>1. ASSUME publishing' = publishing, inbox' = inbox, rest' = rest, got' = got PROVE PairInv'
    <3>1. calling' = calling /\ building' = building /\ sent' = sent /\ mixed' = mixed
      BY <2>1 DEF publishing
    <3>2. Busy' = Busy /\ Complete' = Complete /\ OneAtATime' = OneAtATime
      BY <3>1 DEF Busy, Complete, OneAtATime
    <3>3. \A ix : Pairs(ix) => Pairs(ix)'
      BY <2>1, <3>1, <3>2 DEF Pairs
    <3> QED BY <2>1, <3>1, <3>2, <3>3 DEF PairInv
  <2>2. CASE UNCHANGED socketVars
    BY <2>1, <2>2 DEF socketVars, receiving
  <2>3. CASE Recv2Parts \/ RecvAllNext
    BY <2>3, Recv2KeepsPairs DEF Recv2Parts, RecvAllNext
  <2>4. CASE RecvAllStart \/ RecvAllEnd \/ RecvAllReturn
    BY <2>1, <2>4 DEF RecvAllStart, RecvAllEnd, RecvAllReturn
  <2> QED BY <2>2, <2>3, <2>4, TitleKeepsPairs, DataKeepsPairs DEF SocketNext, SocketRead
<1>3. OrderInv => SocketTypes
  BY DEF OrderInv
<1> QED BY <1>1, <1>2, <1>3, OrderInvHolds, PTL DEF SocketSpec

\* As long as no two threads send at the same time, what is received are the
\* pairs of the calls, each whole and in the order of the calls.
THEOREM PairsAreTogether == SocketSpec => []PairsArriveTogether
<1>1. PairInv => PairsArriveTogether
  <2> SUFFICES ASSUME PairInv, ~mixed PROVE PairsArriveTogether
    BY DEF PairsArriveTogether
  <2>1. PICK ix : Pairs(ix)
    BY DEF PairInv
  <2>2. /\ Len(got) \in Nat /\ Len(inbox) \in Nat /\ Len(sent) \in Nat
        /\ DOMAIN got = 1 .. Len(got) /\ DOMAIN sent = 1 .. Len(sent)
    BY LenProperties DEF PairInv, SocketTypes
  <2>3. /\ ix \in [1 .. Len(got) + Len(inbox) -> 1 .. Complete]
        /\ \A i, j \in 1 .. Len(got) + Len(inbox) : i < j => ix[i] < ix[j]
        /\ \A i \in 1 .. Len(got) : got[i] = Result(sent[ix[i]])
    BY <2>1 DEF Pairs
  <2>4. 1 .. Complete \subseteq 1 .. Len(sent)
    BY <2>2 DEF Complete
  <2>5. 1 .. Len(got) \subseteq 1 .. Len(got) + Len(inbox)
    BY <2>2
  <2> PICK f : f = [i \in 1 .. Len(got) |-> ix[i]]
    OBVIOUS
  <2>6. f \in [DOMAIN got -> DOMAIN sent]
    BY <2>2, <2>3, <2>4, <2>5
  <2>7. \A i, j \in DOMAIN got : i < j => f[i] < f[j]
    BY <2>2, <2>3, <2>5
  <2>8. \A i \in DOMAIN got :
           got[i] = [title |-> sent[f[i]].title, content |-> SecondPart(sent[f[i]]), ret |-> 0]
    BY <2>2, <2>3 DEF Result
  <2> QED BY <2>6, <2>7, <2>8 DEF PairsArriveTogether
<1> QED BY <1>1, PairInvHolds, PTL
=============================================================================
