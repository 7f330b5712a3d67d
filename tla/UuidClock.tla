----------------------------- MODULE UuidClock -----------------------------
(***************************************************************************)
(* UUID/gen_uuid.c: the clock behind uuid_generate_time.  get_clock() adds *)
(* `adjustment' to the microsecond clock to tell apart the UUIDs of one    *)
(* microsecond, and counts clock_seq up when the clock is set back.        *)
(*                                                                         *)
(* Time is in microseconds and starts at 1, the time {0, 0} being `last''s *)
(* initial value.  What two UUIDs of one process differ in is the pair     *)
(* (clock_reg, clock_seq): node_id is fixed by the first call, and the     *)
(* constant offset of the UUID epoch is left out of clock_reg.             *)
(***************************************************************************)
EXTENDS Integers, Sequences

CONSTANTS TicksPerUsec,   \* clock_reg units in a microsecond (10 at line 241)
          MAX_ADJUSTMENT, \* 10 in the code
          SeqMod,         \* clock_seq is taken & 0x3FFF: 2^14
          MaxTime,        \* bound: the clock stops here
          MaxBack,        \* bound: times the clock is set back
          MaxCalls        \* bound: UUIDs asked for

ASSUME TicksAssumption ==
  TicksPerUsec \in Nat \ {0} /\ MAX_ADJUSTMENT \in Nat
ASSUME SeqAssumption == SeqMod \in Nat /\ MaxBack \in Nat /\ MaxBack < SeqMod
ASSUME BoundsAssumption == MaxTime \in Nat \ {0} /\ MaxCalls \in Nat

VARIABLES now,         \* what gettimeofday returns
          backs,       \* how often the clock was set back
          pc,          \* "idle", or "trying" inside get_clock
          adjustment, last, clock_seq,    \* the statics of get_clock
          issued       \* history: the stamps returned, in order

statics == <<adjustment, last, clock_seq>>
clock   == <<now, backs>>
vars    == <<clock, pc, statics, issued>>

Unset == 0             \* last = {0, 0}
Seqs  == 0 .. SeqMod - 1

Init == /\ now \in 1 .. MaxTime
        /\ backs = 0
        /\ pc = "idle"
        /\ adjustment = 0 /\ last = Unset
        /\ clock_seq = 0
        /\ issued = << >>

-----------------------------------------------------------------------------
\* The machine's clock, which runs while get_clock does.

Tick == /\ now < MaxTime
        /\ now' = now + 1
        /\ UNCHANGED <<backs, pc, statics, issued>>

SetBack == /\ backs < MaxBack
           /\ now' \in 1 .. now - 1
           /\ backs' = backs + 1
           /\ UNCHANGED <<pc, statics, issued>>

-----------------------------------------------------------------------------
\* uuid_generate_time calls get_clock.  No call starts at the last instant of
\* the bounded clock, where try_again could never end.
Call == /\ pc = "idle"
        /\ Len(issued) < MaxCalls /\ now < MaxTime
        /\ pc' = "trying"
        /\ UNCHANGED <<clock, statics, issued>>

\* One pass through get_clock that returns: it reads the clock once.
Return(seq, adj) ==
  /\ pc = "trying"
  /\ pc' = "idle"
  /\ clock_seq' = seq /\ adjustment' = adj /\ last' = now
  /\ issued' = Append(issued, [reg |-> now * TicksPerUsec + adj, seq |-> seq])
  /\ UNCHANGED clock

\* The first pass draws clock_seq and sets `last' one second back, so that
\* the pass goes on as if the clock had advanced.
FirstPass == last = Unset /\ \E r \in Seqs : Return(r, 0)

\* Variant: clock_seq is not counted up.
ClockWentBackSameSeq == last # Unset /\ now < last /\ Return(clock_seq, 0)

ClockWentBack == /\ last # Unset /\ now < last
                 /\ Return((clock_seq + 1) % SeqMod, 0)

\* Variant: the adjustment is not counted.
SameInstantUncounted == last # Unset /\ now = last /\ Return(clock_seq, adjustment)

SameInstant == /\ last # Unset /\ now = last
               /\ adjustment < MAX_ADJUSTMENT
               /\ Return(clock_seq, adjustment + 1)

\* Variant: the limit is tested before the clock is compared.
ClockAdvancedLimited == /\ last # Unset /\ now > last
                        /\ adjustment < MAX_ADJUSTMENT
                        /\ Return(clock_seq, 0)

ClockAdvanced == last # Unset /\ now > last /\ Return(clock_seq, 0)

\* `goto try_again' changes no state: the passes that spin stutter.
GetClock == FirstPass \/ ClockWentBack \/ SameInstant \/ ClockAdvanced

Next == Tick \/ SetBack \/ Call \/ GetClock

\* The machine's clock runs on, and the calling thread is scheduled.
Fairness == WF_vars(Tick) /\ WF_vars(GetClock)

Spec == Init /\ [][Next]_vars /\ Fairness

-----------------------------------------------------------------------------
\* The statics of get_clock keep their ranges; no adjustment beyond the limit.
TypeOK == /\ now \in 1 .. MaxTime /\ backs \in 0 .. MaxBack
          /\ pc \in {"idle", "trying"}
          /\ adjustment \in 0 .. MAX_ADJUSTMENT
          /\ last \in 0 .. MaxTime
          /\ clock_seq \in Seqs
          /\ issued \in Seq([reg : Nat, seq : Seqs])

\* No two UUIDs of the process are equal.
NoDuplicates ==
  \A i, j \in 1 .. Len(issued) : i < j => issued[i] # issued[j]

\* Stamps with one clock_seq are in the order they were asked for, however
\* the clock is set back and forth in between.
Ordered ==
  \A i, j \in 1 .. Len(issued) :
    i < j /\ issued[i].seq = issued[j].seq => issued[i].reg <= issued[j].reg

\* A stamp is returned twice at most, to two consecutive calls, and only on
\* the edge between two microseconds.
DuplicatesOnlyOnTheEdge ==
  \A i, j \in 1 .. Len(issued) :
    i < j /\ issued[i] = issued[j]
      => j = i + 1 /\ issued[i].reg % TicksPerUsec = 0

\* A call that has used up the adjustments of its microsecond gets a UUID
\* once the clock moves.
CallsReturn == pc = "trying" ~> pc = "idle"
=============================================================================
