---------------------------- MODULE ZmqTransfer ----------------------------
(***************************************************************************)
(* The line-by-line transfer of test.txt to recv.txt: main1 of             *)
(* zmq_test/zermq_req_test.cpp (the sender, a ZMQ_REQ socket) and main1 of *)
(* zmq_test/zermq_rep_test.cpp (the receiver, a ZMQ_REP socket).           *)
(*                                                                         *)
(* A sender that is killed and started again comes over a new connection;  *)
(* the receiver then finds requests on both.  ZeroMQ is modelled from how  *)
(* the two programs use it: a REQ socket refuses a second send before the  *)
(* reply (EFSM, which the sender does not look at), and a REP socket takes *)
(* a request from any connection and answers it on that connection.        *)
(***************************************************************************)
EXTENDS Naturals, SequencesExt

CONSTANTS Lines,       \* lines a file may hold
          BeginStr,    \* "Start the config file transfer"
          EndStr,      \* "Configuration file transfer complete"
          Long,        \* a line that does not fit in 255 characters
          Blank,       \* an empty line
          None,        \* no message
          Files,       \* the files: [exists, lines, newline]
          MaxSenders,  \* bound: how often the sender is started
          MaxOut       \* bound: lines in recv.txt

ASSUME FilesAssumption ==
  /\ \A f \in Files : f.lines \in Seq(Lines) /\ {f.exists, f.newline} \subseteq BOOLEAN
  /\ {BeginStr, EndStr, Long, Blank} \subseteq Lines
  /\ BeginStr # EndStr /\ Blank \notin {BeginStr, EndStr} /\ None \notin Lines
ASSUME BoundsAssumption == MaxSenders \in Nat \ {0} /\ MaxOut \in Nat

VARIABLES file,                    \* test.txt
          pc, pos, eof, fail,      \* the sender, and its ifstream
          begin_flag, req_state,   \* its flag; what its socket allows next
          me,                      \* which start of the sender this is
          request, reply,          \* request[c], reply[c]: in transit
          out, finish_flag,        \* the receiver: recv.txt and its loop flag
          opened, intruded         \* history: see Serve

stream == <<pos, eof, fail>>
sender == <<pc, stream, begin_flag, req_state>>
wire   == <<request, reply>>
receiver == <<out, finish_flag, opened, intruded>>
vars == <<file, sender, me, wire, receiver>>

Senders == 1 .. MaxSenders
Msgs    == Lines \cup {None}

\* A missing file sets failbit, and not eofbit.
Init == /\ file \in Files
        /\ pc = "loop" /\ begin_flag = TRUE /\ req_state = "send"
        /\ pos = 1 /\ eof = FALSE /\ fail = ~ file.exists
        /\ me = 1
        /\ request = [c \in Senders |-> None]
        /\ reply = [c \in Senders |-> FALSE]
        /\ out = << >> /\ finish_flag = FALSE
        /\ opened = 0 /\ intruded = FALSE

-----------------------------------------------------------------------------
\* zmq_send on the REQ socket: a send out of turn fails and changes nothing.
Send(m) == IF req_state = "send"
           THEN request' = [request EXCEPT ![me] = m] /\ req_state' = "recv"
           ELSE UNCHANGED <<request, req_state>>

\* is.getline(send_buffer, 256): the line, and the stream's new state.  A
\* failed stream yields an empty line for ever; a long line fails it.
GetLine ==
  IF fail THEN [line |-> Blank, eof |-> eof, fail |-> TRUE]
  ELSE IF pos > Len(file.lines) THEN [line |-> Blank, eof |-> TRUE, fail |-> TRUE]
  ELSE [line |-> file.lines[pos],
        eof  |-> /\ pos = Len(file.lines) /\ ~ file.newline
                 /\ file.lines[pos] # Long,
        fail |-> file.lines[pos] = Long]

\* The first round sends begin_str, and then a line without a recv between.
SendBegin == /\ pc = "loop" /\ ~ eof /\ begin_flag
             /\ Send(BeginStr)
             /\ begin_flag' = FALSE
             /\ UNCHANGED <<file, pc, stream, me, reply, receiver>>

SendLine ==
  LET got == GetLine IN
  /\ pc = "loop" /\ ~ eof /\ ~ begin_flag
  /\ Send(got.line)
  /\ eof' = got.eof /\ fail' = got.fail
  /\ pos' = IF fail THEN pos ELSE pos + 1
  /\ pc' = "recv"
  /\ UNCHANGED <<file, begin_flag, me, reply, receiver>>

SendEnd == /\ pc = "loop" /\ eof
           /\ Send(EndStr)
           /\ begin_flag' = FALSE
           /\ pc' = "recv_end"
           /\ UNCHANGED <<file, stream, me, reply, receiver>>

\* zmq_recv blocks until the reply is there; there is no timeout.
Recv == /\ pc \in {"recv", "recv_end"} /\ reply[me]
        /\ reply' = [reply EXCEPT ![me] = FALSE]
        /\ req_state' = "send"
        /\ pc' = IF pc = "recv" THEN "loop" ELSE "done"
        /\ UNCHANGED <<file, stream, begin_flag, me, request, receiver>>

\* The sender is killed and started again.  What it had sent is in the
\* receiver's queue, or was still in its own and is gone.
Restart == /\ pc # "done" /\ me < MaxSenders
           /\ me' = me + 1
           /\ pc' = "loop" /\ begin_flag' = TRUE /\ req_state' = "send"
           /\ pos' = 1 /\ eof' = FALSE /\ fail' = ~ file.exists
           /\ request' \in {request, [request EXCEPT ![me] = None]}
           /\ UNCHANGED <<file, reply, receiver>>

-----------------------------------------------------------------------------
\* Variant: begin_str does not open recv.txt afresh.
WriteAppends(m) ==
  IF m \in {BeginStr, EndStr} THEN UNCHANGED out ELSE out' = Append(out, m)

\* What the receiver does with a message.
Write(m) == IF m = BeginStr THEN out' = << >>
            ELSE IF m = EndStr THEN UNCHANGED out
            ELSE out' = Append(out, m)

\* Variants of Serve: the reply to begin_str is forgotten; a loop that goes on
\* after end_str.
ServeBeginWithoutReply(c) ==
  LET m == request[c] IN
  /\ ~ finish_flag /\ m # None /\ Len(out) < MaxOut
  /\ Write(m)
  /\ finish_flag' = (m = EndStr)
  /\ request' = [request EXCEPT ![c] = None]
  /\ reply' = [reply EXCEPT ![c] = m # BeginStr]
  /\ UNCHANGED <<file, sender, me, opened, intruded>>

ServeOn(c) ==
  LET m == request[c] IN
  /\ m # None /\ Len(out) < MaxOut
  /\ Write(m)
  /\ finish_flag' = (finish_flag \/ m = EndStr)
  /\ request' = [request EXCEPT ![c] = None]
  /\ reply' = [reply EXCEPT ![c] = TRUE]
  /\ UNCHANGED <<file, sender, me, opened, intruded>>

\* One round of the receiver's loop that finds a request on connection c:
\* recv, handle, send the reply.  `opened' is the connection of the last
\* begin_str; `intruded' says that a request of a killed sender was served
\* after the running one's begin_str.
Serve(c) ==
  LET m == request[c] IN
  /\ ~ finish_flag /\ m # None /\ Len(out) < MaxOut
  /\ Write(m)
  /\ finish_flag' = (m = EndStr)
  /\ request' = [request EXCEPT ![c] = None]
  /\ reply' = [reply EXCEPT ![c] = TRUE]
  /\ opened' = IF m = BeginStr THEN c ELSE opened
  /\ intruded' = (intruded \/ (c # me /\ opened = me))
  /\ UNCHANGED <<file, sender, me>>

SenderNext == SendBegin \/ SendLine \/ SendEnd \/ Recv
Next == SenderNext \/ Restart \/ \E c \in Senders : Serve(c)

\* The two programs run; how often the sender is killed is not constrained.
Fairness == WF_vars(SenderNext) /\ WF_vars(\E c \in Senders : Serve(c))

Spec == Init /\ [][Next]_vars /\ Fairness

-----------------------------------------------------------------------------
\* The streams, the sockets and the flags have their types; ZeroMQ holds no
\* request it should have refused.
TypeOK == /\ file \in Files /\ me \in Senders
          /\ pc \in {"loop", "recv", "recv_end", "done"}
          /\ pos \in 1 .. Len(file.lines) + 2
          /\ {eof, fail, begin_flag, finish_flag, intruded} \subseteq BOOLEAN
          /\ req_state \in {"send", "recv"}
          /\ request \in [Senders -> Msgs] /\ reply \in [Senders -> BOOLEAN]
          /\ out \in Seq(Lines) /\ Len(out) <= MaxOut
          /\ opened \in 0 .. MaxSenders

\* The lines getline reads off a file that it can read to the end.
Readable(f) == f.exists /\ \A i \in 1 .. Len(f.lines) : f.lines[i] # Long
Read(f) == IF f.newline \/ f.lines = << >> THEN Append(f.lines, Blank) ELSE f.lines

\* No line of the file that is sent looks like a command of the protocol.
Plain(f) == \A i \in 2 .. Len(f.lines) : f.lines[i] \notin {BeginStr, EndStr}

\* The receiver ends with every line of the file the sender read.
WholeFileArrives ==
  pc = "done" /\ Readable(file) /\ Plain(file) => IsPrefix(file.lines, out)

\* The receiver ends with all of the file but its first line, unless a
\* request of a killed sender came between.
AllButFirstArrive ==
  pc = "done" /\ Plain(file) /\ ~ intruded => out = Tail(Read(file))

\* A file line that reads like end_str makes the receiver leave: the sender
\* then waits for ever for a reply.
EarlyEndStrandsSender ==
  [](finish_flag /\ pc \in {"loop", "recv"} => [](pc # "done"))

\* A readable, plain file is transferred to the end by a sender left alone; one
\* that cannot be read, or has a line too long for getline, keeps the sender in
\* its loop for ever: it tests eof() and not the stream.
TransferEnds ==
  /\ [](me = 1) /\ Readable(file) /\ Plain(file) => <>(pc = "done" /\ finish_flag)
  /\ ~ Readable(file) => [](pc \notin {"recv_end", "done"})
=============================================================================
