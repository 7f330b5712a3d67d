-------------------------- MODULE MCFrameReceiver --------------------------
(***************************************************************************)
(* Instances of FrameReceiver for TLC: two types that are compared and one *)
(* that is not, bytes of three bits, frames of four and five bytes, one of *)
(* them with a byte inside that reads like a header; datagrams of others   *)
(* that begin like a frame.                                                *)
(*                                                                         *)
(* A behaviour is about bytes or about numbers.  About bytes: two frames   *)
(* of both lengths, cut anywhere, and a datagram of somebody else.  About  *)
(* numbers: a third frame and a second fault of the network, with frames   *)
(* that are all alike and come whole, one of them of the third type.       *)
(***************************************************************************)
EXTENDS FrameReceiver

VARIABLE about

MCTypes    == {2, 6, 7}
MCCompared == {6, 7}
MCPayloads == {<< >>, <<6>>}
MCStarts   == {1, 3}
EveryByte  == 1 .. 4
MCNoises   == {<< >>, <<6, 5>>, <<7>>, <<6, 0, 3>>, <<7, 5, 1, 1, 1, 1>>}

\* What may go wrong, and what may still be sent.  For the bytes one type is like
\* another; for the numbers one frame of type 2 is enough.
Within == IF about = "bytes"
          THEN Cardinality(faults \ {"cut"}) <= 1
          ELSE faults \cap {"cut", "noise"} = {}
MaySend(t, p) == IF about = "bytes"
                 THEN Len(sent) < 2 /\ t # 2
                 ELSE p = << >> /\ (t = 2 => Places(2, sent) = {})

MCInit == Init /\ start[2] = 1 /\ about \in {"bytes", "numbers"}
MCNext == /\ \/ Receive \/ Network
             \/ \E t \in Types, p \in Payloads : MaySend(t, p) /\ Send(t, p)
          /\ UNCHANGED about /\ Within'
MCSpec == MCInit /\ [][MCNext]_<<vars, about>> /\ WF_vars(Receive /\ UNCHANGED about)
=============================================================================
