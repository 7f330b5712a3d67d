----------------------------- MODULE MCDevices -----------------------------
(***************************************************************************)
(* One instance for three questions about the device classes: who owns     *)
(* which descriptor (DeviceFds: an object more than the smallest race for  *)
(* a number needs, and a table that fills up), who knows which settings of *)
(* an SPI device (SpiSettings: an object and a tool, a speed above the     *)
(* controller's, and speeds that read as modes nobody asked for), and when *)
(* the converter is on (Rs485: three threads, and a byte that takes two    *)
(* and a third ticks, so that the division leaves a rest).                 *)
(***************************************************************************)
EXTENDS DeviceFds, SpiSettings, Rs485, TLC

VARIABLE question

\* Programs in which no object keeps a number it closed, in which some do, and
\* in which everything goes wrong.
MCPrograms == {{"setup", "reopen", "stdin"}, {"close", "reject"}, FaultKinds}

MCConfigs == { [mode |-> 0, bits |-> 8, speed |-> 5], [mode |-> 3, bits |-> 16, speed |-> 9] }

OnePort == [t \in Threads |-> CHOOSE p \in Ports : TRUE]
MCLens  == {0, 1, 3}
AnyUse  == [exclusive : BOOLEAN, anyWrite : BOOLEAN]

MCInit == /\ question \in {"fds", "settings", "line"}
          /\ Init /\ SpiInit /\ LineInit
          /\ question # "fds" => faults = FaultKinds
          /\ question # "settings" =>
                /\ hw = [mode |-> 0, bits |-> 8, speed |-> 5]
                /\ \A u \in Users : cfg[u] = [mode |-> 0, bits |-> 8, speed |-> 5]
          /\ question # "line" => use = [exclusive |-> FALSE, anyWrite |-> FALSE]

MCNext == /\ UNCHANGED question
          /\ \/ question = "fds" /\ Next /\ UNCHANGED <<spiVars, lineVars>>
             \/ question = "settings" /\ SpiNext /\ UNCHANGED <<vars, lineVars>>
             \/ question = "line" /\ LineNext /\ UNCHANGED <<vars, spiVars>>

MCSpec == MCInit /\ [][MCNext]_<<vars, spiVars, lineVars, question>>

Symmetry == Permutations(Serials) \cup Permutations(Threads \ {CHOOSE t \in Threads : TRUE})
=============================================================================
