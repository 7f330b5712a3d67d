------------------------------ MODULE MCAQueue ------------------------------
(***************************************************************************)
(* Instances of AQueue for TLC.  unsigned is four bits wide, and 16 % 3 is *)
(* 1 as for 2^32.  A program either keeps to the discipline of the class   *)
(* comment, with capacities that need not divide 2^w, or it uses both ends *)
(* of its queues, with capacities that do.                                 *)
(***************************************************************************)
EXTENDS AQueue, TLC

VARIABLE both          \* the program uses both ends

MCUMod == 16
AllCapacities  == {1, 2, 3, 4}
OddCapacities  == {3}
FifoCapacities == {2, 3}
Pow2Capacities == {1, 2, 4}

InUse == {q[x].capacity : x \in Queues} \subseteq
           {0} \cup IF both THEN Pow2Capacities ELSE FifoCapacities

(* What two queues do to each other, the other programs show. *)
Bounded == both => \E y \in Queues : \A x \in Queues \ {y} : IsNull(q[x])

QueueInit == Init /\ both \in BOOLEAN /\ InUse /\ Bounded
QueueNext == /\ IF both THEN DequeNext ELSE FifoNext
             /\ UNCHANGED both
             /\ InUse' /\ Bounded'

queueVars == <<vars, both>>

(* Both ends in use, and a capacity that does not divide 2^w. *)
OddSpec == Init /\ both = TRUE /\ [][DequeNext /\ UNCHANGED both]_queueVars

QueueSymmetry == Permutations(Queues) \cup Permutations(Elements)
=============================================================================
