---------------------------- MODULE MCInteraction ----------------------------
(***************************************************************************)
(* Two worlds in one run, chosen by side: objects of class interaction in  *)
(* one program, and the programs that write and read ./log.                *)
(***************************************************************************)
EXTENDS InteractionObjects, MessageLog

CONSTANT MaxEdits        \* the operations on the objects in one behaviour

VARIABLES side, edits

(* Two inner messages with what they require, one of each class Writer.cpp *)
(* puts into a list.                                                       *)
MCStation(name) == [f |-> 1 :> name @@ 2 :> 1 @@ 3 :> 2, unknown |-> <<>>]
MCTerminal(name) == [f |-> 1 :> name @@ 2 :> <<2>> @@ 3 :> <<2>>, unknown |-> <<>>]

MCMessages ==
    { [f |-> 1 :> 1 @@ 5 :> MCStation(<<1>>) @@ 11 :> <<MCStation(<<2>>)>>,
       unknown |-> <<>>],
      [f |-> 1 :> 2 @@ 10 :> <<MCTerminal(<<>>)>>, unknown |-> <<>>] }

MCChunks == {8, 100}

MCInit ==
    /\ Init
    /\ LogInit
    /\ edits = 0
    /\ side \in {"objects", "log"}
    /\ side = "objects" =>
          chunk = 8 /\ message = [w \in Writers |-> CHOOSE m \in MCMessages : TRUE]

MCNext ==
    /\ UNCHANGED side
    /\ \/ side = "objects" /\ edits < MaxEdits /\ edits' = edits + 1
          /\ Next /\ UNCHANGED logVars
       \/ side = "log" /\ LogNext /\ UNCHANGED <<vars, edits>>

MCSpec == MCInit /\ [][MCNext]_<<vars, logVars, side, edits>>
=============================================================================
