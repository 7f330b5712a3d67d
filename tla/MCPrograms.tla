----------------------------- MODULE MCPrograms -----------------------------
(***************************************************************************)
(* One instance for the programs that wait for one another or for their    *)
(* user: the two ways the programs of zmq_test talk, the file transfer     *)
(* over REQ and REP, with the files of MCZmqTransfer, and the two-part     *)
(* messages over PUB and SUB, sent by two threads; and KeyboardFbdump,     *)
(* with every order of up to two input devices and a queue that three      *)
(* events fill.  A behaviour is of one of them; the others keep their      *)
(* initial state.                                                          *)
(***************************************************************************)
EXTENDS MCZmqTransfer, MultipartSocket, KeyboardFbdump

CONSTANTS t1, t2, boy, girl, bytes

VARIABLE pattern

MCPublishers == {t1, t2}
MCSubscribed == {boy, girl}
MCCalls == { [fn |-> "Send2Parts", title |-> boy, data |-> bytes],
             [fn |-> "Send2Parts", title |-> girl, data |-> NULL],
             [fn |-> "Send2Strings", title |-> girl, data |-> Empty] }

MCListings == UNION {[1 .. n -> {"other", "copy", "keyboard"}] : n \in 0 .. 2}

MCInit == /\ Init /\ SocketInit /\ DumpInit
          /\ pattern \in {"reqrep", "pubsub", "keyboard"}
          /\ pattern # "reqrep" => file = Missing
          /\ pattern # "keyboard" => listing = << >> /\ key = "up"

MCNext == /\ UNCHANGED pattern
          /\ \/ pattern = "reqrep" /\ Next /\ UNCHANGED <<socketVars, dumpVars>>
             \/ pattern = "pubsub" /\ SocketNext /\ UNCHANGED <<vars, dumpVars>>
             \/ pattern = "keyboard" /\ DumpNext /\ UNCHANGED <<vars, socketVars>>

Of(A) == pattern = "reqrep" /\ A /\ UNCHANGED <<socketVars, dumpVars, pattern>>
OfSocket(A) == pattern = "pubsub" /\ A /\ UNCHANGED <<vars, dumpVars, pattern>>
OfDump(A) == pattern = "keyboard" /\ A /\ UNCHANGED <<vars, socketVars, pattern>>

MCSpec ==
    /\ MCInit /\ [][MCNext]_<<vars, socketVars, dumpVars, pattern>>
    /\ WF_vars(Of(SenderNext))
    /\ WF_vars(Of(\E c \in Senders : Serve(c)))
    /\ WF_socketVars(OfSocket(SocketRead))
    /\ \A t \in MCPublishers : WF_socketVars(OfSocket(SendTitle(t) \/ SendData(t)))
    /\ WF_dumpVars(OfDump(Main))
=============================================================================
