--------------------------- MODULE HardwareClock ---------------------------
(***************************************************************************)
(* update_hardwave_kernel_time of Utility/Misc.cpp, which moves the clock  *)
(* of the machine, /dev/rtc, and that of the kernel by some seconds.  It   *)
(* reads the kernel's clock, sets the first, then the second; the clocks   *)
(* go on, and other processes may do the same, between any two steps.      *)
(***************************************************************************)
EXTENDS Integers

CONSTANTS Callers,    \* processes
          Diffs,      \* the seconds they move the clocks by
          StartTime, MaxTicks, MaxUpdates

ASSUME TimesAssumption == Diffs \subseteq Int /\ StartTime \in Int

VARIABLES kernel, rtc,    \* the two clocks
          ticks, updates, \* bounded by MaxTicks and MaxUpdates
          upc,            \* of each caller
          diff_time, time_new,
          answer,         \* of its last call
          since,          \* seconds since it set the first clock
          met,            \* whether another call was under way during its call
          lag             \* the clocks are known to be at most this apart;
                          \* Unknown after half an update, or two mixed ones

timeVars == <<kernel, rtc, ticks, updates, upc, diff_time, time_new, answer, since, met, lag>>

Unknown == -1

ClockInit ==
  /\ kernel = StartTime /\ rtc = StartTime /\ lag = 0
  /\ ticks = 0 /\ updates = 0
  /\ upc = [c \in Callers |-> "idle"]
  /\ diff_time = [c \in Callers |-> 0] /\ time_new = [c \in Callers |-> 0]
  /\ answer = [c \in Callers |-> TRUE] /\ since = [c \in Callers |-> 0]
  /\ met = [c \in Callers |-> FALSE]

InCall(c) == upc[c] \notin {"idle", "dead"}

Returns(c, b) == /\ upc' = [upc EXCEPT ![c] = "idle"]
                 /\ answer' = [answer EXCEPT ![c] = b]

-----------------------------------------------------------------------------
\* A mutated form: the kernel's clock is moved from where it is by then.
SetKernelFromNow(c) ==
  /\ upc[c] = "rtc_set"
  /\ \/ kernel' = kernel + diff_time[c] /\ lag' = IF met[c] THEN Unknown ELSE since[c]
     \/ UNCHANGED kernel /\ lag' = Unknown
  /\ Returns(c, TRUE)
  /\ UNCHANGED <<rtc, ticks, updates, diff_time, time_new, since, met>>

-----------------------------------------------------------------------------
update_hardwave_kernel_time(c, d) ==
  /\ upc[c] = "idle" /\ updates < MaxUpdates
  /\ updates' = updates + 1
  /\ diff_time' = [diff_time EXCEPT ![c] = d]
  /\ met' = [u \in Callers |-> IF u = c THEN \E v \in Callers : InCall(v)
                                ELSE met[u] \/ InCall(u)]
  /\ upc' = [upc EXCEPT ![c] = "called"]
  /\ UNCHANGED <<kernel, rtc, ticks, time_new, answer, since, lag>>

\* Neither /dev/rtc nor /dev/rtc0 can be opened.
NoDevice(c) ==
  /\ upc[c] = "called" /\ Returns(c, FALSE)
  /\ UNCHANGED <<kernel, rtc, ticks, updates, diff_time, time_new, since, met, lag>>

ReadKernel(c) ==
  /\ upc[c] = "called"
  /\ time_new' = [time_new EXCEPT ![c] = kernel + diff_time[c]]
  /\ upc' = [upc EXCEPT ![c] = "read"]
  /\ UNCHANGED <<kernel, rtc, ticks, updates, diff_time, answer, since, met, lag>>

SetRtc(c) ==
  /\ upc[c] = "read"
  /\ rtc' = time_new[c]
  /\ since' = [since EXCEPT ![c] = 0] /\ lag' = Unknown
  /\ upc' = [upc EXCEPT ![c] = "rtc_set"]
  /\ UNCHANGED <<kernel, ticks, updates, diff_time, time_new, answer, met>>

RtcRefuses(c) ==
  /\ upc[c] = "read" /\ Returns(c, FALSE)
  /\ UNCHANGED <<kernel, rtc, ticks, updates, diff_time, time_new, since, met, lag>>

\* What stime answers is not looked at.
SetKernel(c) ==
  /\ upc[c] = "rtc_set"
  /\ \/ kernel' = time_new[c] /\ lag' = IF met[c] THEN Unknown ELSE since[c]
     \/ UNCHANGED kernel /\ lag' = Unknown
  /\ Returns(c, TRUE)
  /\ UNCHANGED <<rtc, ticks, updates, diff_time, time_new, since, met>>

\* The process is killed in the call.
KillCaller(c) ==
  /\ InCall(c) /\ upc' = [upc EXCEPT ![c] = "dead"]
  /\ UNCHANGED <<kernel, rtc, ticks, updates, diff_time, time_new, answer, since, met, lag>>

Second ==
  /\ ticks < MaxTicks /\ ticks' = ticks + 1
  /\ kernel' = kernel + 1 /\ rtc' = rtc + 1
  /\ since' = [c \in Callers |-> IF upc[c] = "rtc_set" THEN since[c] + 1 ELSE since[c]]
  /\ UNCHANGED <<updates, upc, diff_time, time_new, answer, met, lag>>

ClockNext ==
  \/ \E c \in Callers : \/ \E d \in Diffs : update_hardwave_kernel_time(c, d)
                        \/ NoDevice(c) \/ ReadKernel(c) \/ SetRtc(c)
                        \/ RtcRefuses(c) \/ SetKernel(c) \/ KillCaller(c)
  \/ Second

ClockSpec == ClockInit /\ [][ClockNext]_timeVars

-----------------------------------------------------------------------------
\* After an update no other one met, in which stime worked, the kernel's clock
\* is behind the machine's by the seconds between its two settings, and no more,
\* whatever half updates, failures and mixtures came before it; updates that
\* fail before the first setting do not change that.
ClocksAgree == lag # Unknown => rtc - kernel \in 0 .. lag
=============================================================================
