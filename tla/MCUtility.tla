---------------------------- MODULE MCUtility ------------------------------
(***************************************************************************)
(* Instances of the modules of Utility/ for TLC, one in each behaviour:    *)
(* two queues, the log files under two threads of one process and one of   *)
(* another, the clocks under two callers, every string of up to MaxText    *)
(* characters, and decimal numbers with one digit more than                *)
(* calc_float_bits looks at. The queues are those of MCAQueue.             *)
(***************************************************************************)
EXTENDS MCAQueue, DebugLog, HardwareClock, MiscText, MiscNumbers, TLC

CONSTANTS p1, p2, t1, t2, t3, Bar, x

VARIABLE about

MCProcessOf == [t \in Threads |-> IF t = t3 THEN p2 ELSE p1]
MCSeparators == { <<Bar>>, <<Bar, Bar>> }
MCValues == (-11 .. 11) \cup {-95, -50, -49, 15, 25, 45, 47, 49, 50, 51, 55, 95, 99, 149, 150}
NoQueues == q = [o \in Queues |-> Fresh(0)] /\ ret = 0 /\ both = FALSE

MCDiffs == {-2, 3}
MCInstants == [tv_sec : {0, 1, 2, 5}, tv_usec : {0, 9}]

(* A line may take one write or more, a stack trace takes more. *)
LongTraces ==
  \A t \in Threads : lpc[t] = "called" /\ op[t] = "stack_trace" => Len(rest[t]) = MaxRecord

MCInit ==
  /\ about \in {"queues", "log", "clock", "text", "numbers"}
  /\ IF about = "queues" THEN QueueInit ELSE NoQueues
  /\ DebugInit /\ ClockInit
  /\ time_1 = [tv_sec |-> 0, tv_usec |-> 0] /\ time_2 = time_1
  /\ IF about = "text" THEN TextInit
     ELSE src = <<>> /\ given = <<>> /\ old_char = Bar /\ new_char = Bar /\ rpc = "done"
  /\ IF about = "numbers" THEN value \in Values ELSE value = 0

MCNext ==
  /\ UNCHANGED <<about, numberVars>>
  /\ \/ about = "queues" /\ QueueNext /\ UNCHANGED <<debugVars, timeVars, textVars>>
     \/ about = "log" /\ DebugNext /\ LongTraces' /\ UNCHANGED <<queueVars, timeVars, textVars>>
     \/ about = "clock" /\ ClockNext /\ UNCHANGED <<queueVars, debugVars, textVars>>
     \/ about = "text" /\ TextNext /\ UNCHANGED <<queueVars, debugVars, timeVars>>

allVars == <<queueVars, debugVars, timeVars, textVars, numberVars, about>>

Symmetry == Permutations({t1, t2}) \cup Permutations(Queues)

MCSpec == MCInit /\ [][MCNext]_allVars
          /\ WF_textVars(/\ about = "text" /\ TextNext
                         /\ UNCHANGED <<queueVars, debugVars, timeVars, numberVars, about>>)

\* Two instants, from half a second to more than Limit seconds apart.
TimesInit ==
  /\ about = "times" /\ NoQueues /\ DebugInit /\ ClockInit /\ NumberInit /\ value = 0
  /\ src = <<>> /\ given = <<>> /\ old_char = Bar /\ new_char = Bar /\ rpc = "done"

TimesSpec == TimesInit /\ [][MCNext]_allVars

\* The pieces of a string make it up, trim and ltrim cut just the spaces, the
\* comparisons and roundings of numbers fit together, and the text of a number is
\* the number rounded once.  What the comments above rtrim and to_string promise
\* beyond that is RtrimCutsTheEnd and TextIsTheValue, which do not hold.
HelpersAgree ==
  /\ about = "text" => PiecesMakeTheString /\ TrimsCutSpaces
  /\ about = "numbers" => ComparisonsAgree /\ EnforcedRoundingKeepsOrder /\ TextShowsTheNumber

\* replace_char ends, in the behaviours that are about strings.
TextLoopsEnd == about = "text" => ReplaceEnds
=============================================================================
