------------------------------- MODULE MCUuid -------------------------------
(***************************************************************************)
(* One instance for both halves of gen_uuid.c: UuidClock, where calls race *)
(* with the clock, and UuidGenerate, which makes and converts UUIDs.  A    *)
(* behaviour is of one half; the other keeps its initial state.            *)
(*                                                                         *)
(* A digit has eight values, so that the 32 bits of a register of TLC hold *)
(* the time of a UUID; only the upper digits of the time stay 0.           *)
(***************************************************************************)
EXTENDS UuidClock, UuidGenerate

VARIABLE side

MCTicks == 2

(* Two microseconds around a second and around a carry into time_mid. *)
MCEpoch == 5 * Long - 20
MCTimes == {9, 10, 1000}

(* Bytes with every bit set, with none, and with the last alone. *)
MCRandom == { [i \in 1..16 |-> Byte - 1], [i \in 1..16 |-> 0],
              [i \in 1..16 |-> IF i = 16 THEN 1 ELSE 0] }

MCCard == <<2, 4, 6, 8, 10, 12>>

MCInit == Init /\ GenInit /\ side \in {"clock", "generate"}

MCNext == /\ UNCHANGED side
          /\ \/ side = "clock" /\ Next /\ UNCHANGED genVars
             \/ side = "generate" /\ GenNext /\ UNCHANGED vars

MCSpec == /\ MCInit /\ [][MCNext]_<<vars, genVars, side>>
          /\ WF_vars(side = "clock" /\ Tick /\ UNCHANGED <<genVars, side>>)
          /\ WF_vars(side = "clock" /\ GetClock /\ UNCHANGED <<genVars, side>>)
          /\ WF_genVars(side = "generate" /\ GenStep /\ UNCHANGED <<vars, side>>)
=============================================================================
