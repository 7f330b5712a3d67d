-------------------------- MODULE MultipartSocket --------------------------
(***************************************************************************)
(* The two-part messages of zmq_test/MyZmq.h between publishing threads    *)
(* that share one PUB socket (main2 and main3 of zermq_sub_test.cpp; the   *)
(* main of zermq_pub_test.cpp is one such thread) and a SUB socket that is *)
(* read with Recv2Parts (main1) or with RecvAllMessages.                   *)
(*                                                                         *)
(* ZeroMQ is external: parts sent with ZMQ_SNDMORE belong to the message   *)
(* that the next part without it ends, whoever sends it; a message arrives *)
(* whole when its first part is subscribed to, and is dropped whole when   *)
(* the queue is full.  A zmq_msg_send is one step: a race inside the       *)
(* library is left out.  The assert()s are compiled out, as elsewhere; the *)
(* sockets that main2 and main3 themselves read are on contexts where      *)
(* nothing is bound, so nothing ever reaches them.                         *)
(***************************************************************************)
EXTENDS Naturals, SequencesExt

CONSTANTS Publishers,   \* the threads that share the PUB socket
          Subscribed,   \* the titles the SUB socket asked for
          Calls,        \* what threads send: [fn, title, data]
          NoCall, NULL, Empty, Zero,  \* no call, no data, no byte, a byte of 0
          HighWater,    \* messages the queue between the sockets holds
          MaxPublished  \* bound: calls of Send2Parts and Send2Strings

ASSUME SocketAssumption ==
    HighWater \in Nat \ {0} /\ MaxPublished \in Nat /\ NoCall \notin Calls

VARIABLES calling,      \* calling[t]: the call thread t is in, between its parts
          building,     \* parts of the message the PUB socket has not ended
          taken,        \* this message goes to the queue
          inbox, rest,  \* whole messages; what is left of the one being read
          reading,      \* "poll", or "all" inside RecvAllMessages
          sent, put,    \* history: calls in the order of their titles; parts
          got, read,    \* history: results [title, content, ret]; parts
          due, mixed    \* history: see RecvAllStart and Put

publishing == <<calling, building, taken, sent, put, mixed>>
receiving  == <<rest, reading, got, read, due>>
socketVars == <<publishing, inbox, receiving>>

SocketInit ==
    /\ calling = [t \in Publishers |-> NoCall]
    /\ building = <<>> /\ taken = FALSE
    /\ inbox = <<>> /\ rest = <<>> /\ reading = "poll"
    /\ sent = <<>> /\ put = <<>> /\ got = <<>> /\ read = <<>>
    /\ due = 0 /\ mixed = FALSE

-----------------------------------------------------------------------------
(* zmq_msg_send: the first part decides where the message goes. *)
Put(part, more) ==
    LET goes == IF building = <<>>
                THEN part \in Subscribed /\ Len(inbox) < HighWater ELSE taken
        message == Append(building, part)
    IN  /\ put' = IF goes THEN Append(put, part) ELSE put
        /\ building' = IF more THEN message ELSE <<>>
        /\ taken' = goes
        /\ inbox' = IF goes /\ ~more THEN Append(inbox, message) ELSE inbox

(* A title sent while another thread is between its parts mixes the two.   *)
SendTitle(t) ==
    /\ calling[t] = NoCall /\ Len(sent) < MaxPublished
    /\ \E call \in Calls :
          /\ calling' = [calling EXCEPT ![t] = call]
          /\ sent' = Append(sent, call)
          /\ Put(call.title, TRUE)
    /\ mixed' = (mixed \/ \E u \in Publishers : calling[u] # NoCall)
    /\ UNCHANGED receiving

(* The second part: Send2Parts sends an empty one without data, and        *)
(* Send2Strings a byte of 0 for an empty string.                           *)
SecondPart(call) ==
    CASE call.fn = "Send2Parts" /\ call.data = NULL -> Empty
      [] call.fn = "Send2Strings" /\ call.data = Empty -> Zero
      [] OTHER -> call.data

(* A mutated form: a call without data sends no second part. *)
SendDataOnlyIfAny(t) ==
    /\ calling[t] # NoCall
    /\ calling' = [calling EXCEPT ![t] = NoCall]
    /\ IF calling[t].data = NULL THEN UNCHANGED <<building, taken, inbox, put>>
                                 ELSE Put(SecondPart(calling[t]), FALSE)
    /\ UNCHANGED <<sent, mixed, receiving>>

SendData(t) ==
    /\ calling[t] # NoCall
    /\ calling' = [calling EXCEPT ![t] = NoCall]
    /\ Put(SecondPart(calling[t]), FALSE)
    /\ UNCHANGED <<sent, mixed, receiving>>

-----------------------------------------------------------------------------
(* A mutated form: what is left of a message does not count. *)
PollInInboxOnly == inbox # <<>>

(* ZMQ_POLLIN: a message, or the rest of one, can be read. *)
PollIn == rest # <<>> \/ inbox # <<>>

(* The parts the next zmq_msg_recv reads from. *)
Current == IF rest # <<>> THEN rest ELSE Head(inbox)

(* A mutated form: what is left of a message is thrown away. *)
Recv2DropsRest ==
    /\ inbox' = IF rest # <<>> THEN inbox ELSE Tail(inbox)
    /\ rest' = <<>>
    /\ read' = read \o SubSeq(Current, 1, 2)
    /\ got' = Append(got, IF Len(Current) = 1
                          THEN [title |-> Current[1], content |-> NULL, ret |-> -1]
                          ELSE [title |-> Current[1], content |-> Current[2], ret |-> 0])

(* The title, ZMQ_RCVMORE, and the second part if there is one. *)
Recv2 ==
    /\ inbox' = IF rest # <<>> THEN inbox ELSE Tail(inbox)
    /\ rest' = SubSeq(Current, 3, Len(Current))
    /\ read' = read \o SubSeq(Current, 1, IF Len(Current) = 1 THEN 1 ELSE 2)
    /\ got' = Append(got, IF Len(Current) = 1
                          THEN [title |-> Current[1], content |-> NULL, ret |-> -1]
                          ELSE [title |-> Current[1], content |-> Current[2], ret |-> 0])

(* main1 calls Recv2Parts after each ZMQ_POLLIN, and not its result. *)
Recv2Parts ==
    /\ reading = "poll" /\ PollIn
    /\ Recv2
    /\ UNCHANGED <<publishing, reading, due>>

(* The parts on the socket that belong to messages which have ended. *)
Ended == Len(put) - (IF taken THEN Len(building) ELSE 0)

(* RecvAllMessages begins; the messages that have ended are due. *)
RecvAllStart ==
    /\ reading = "poll" /\ PollIn
    /\ reading' = "all"
    /\ due' = Ended
    /\ UNCHANGED <<publishing, inbox, rest, got, read>>

(* One round of its loop; a title without a second part ends it with -1.   *)
RecvAllNext ==
    /\ reading = "all" /\ PollIn
    /\ Recv2
    /\ reading' = IF Len(Current) = 1 THEN "poll" ELSE "all"
    /\ due' = IF Len(Current) = 1 THEN 0 ELSE due
    /\ UNCHANGED publishing

(* EAGAIN: nothing is left, and RecvAllMessages returns 0. *)
RecvAllEnd ==
    /\ reading = "all" /\ ~PollIn
    /\ reading' = "done"
    /\ UNCHANGED <<publishing, inbox, rest, got, read, due>>

(* The caller has the result. *)
RecvAllReturn ==
    /\ reading = "done"
    /\ reading' = "poll" /\ due' = 0
    /\ UNCHANGED <<publishing, inbox, rest, got, read>>

SocketRead == Recv2Parts \/ RecvAllStart \/ RecvAllNext \/ RecvAllEnd \/ RecvAllReturn
SocketNext == SocketRead \/ \E t \in Publishers : SendTitle(t) \/ SendData(t)

(* Every thread is scheduled. *)
SocketSpec ==
    /\ SocketInit /\ [][SocketNext]_socketVars
    /\ WF_socketVars(SocketRead)
    /\ \A t \in Publishers : WF_socketVars(SendTitle(t) \/ SendData(t))

-----------------------------------------------------------------------------
(* As long as no two threads send at the same time, each receive gives the *)
(* title and the data of one call, in the order of the calls, whatever the *)
(* full queue drops in between.                                            *)
PairsArriveTogether ==
    ~mixed =>
       \E of \in [DOMAIN got -> DOMAIN sent] :
          /\ \A i, j \in DOMAIN got : i < j => of[i] < of[j]
          /\ \A i \in DOMAIN got :
               got[i] = [title |-> sent[of[i]].title,
                         content |-> SecondPart(sent[of[i]]), ret |-> 0]

(* Mixed or not, the parts are read in the order in which they were put    *)
(* on the socket: none is invented, repeated or skipped by a receive that  *)
(* finds too few or too many of them.  When RecvAllMessages returns 0, it  *)
(* has taken every message that was there when it was called.              *)
PartsStayInOrder ==
    /\ reading = "done" => Len(read) >= due
    /\ read = SubSeq(put, 1, Len(read))
    /\ rest = SubSeq(put, Len(read) + 1, Len(read) + Len(rest))

(* When the threads have stopped sending, the queue is read to its end,    *)
(* the rest of a message that has more than two parts included.            *)
Drained == <>[](inbox = <<>> /\ rest = <<>>)
=============================================================================
