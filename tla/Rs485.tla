------------------------------- MODULE Rs485 -------------------------------
(***************************************************************************)
(* The RS-485 converter behind the serial ports: it sends what a port      *)
(* transmits only while pin RS485_PIN, one for the whole board, is HIGH.   *)
(* serialWrite of device_test/Device/SerialDev.cpp sets the pin, writes,   *)
(* sleeps for the time the bytes take at the baud rate, and resets it.     *)
(*                                                                         *)
(* A byte is ByteTime units of work (10000000 in the code, ten bits at one *)
(* baud, in microseconds) and a port does baud units in a tick.  The       *)
(* threads' steps interleave: a step may come any time after the sleep,    *)
(* never before.                                                           *)
(***************************************************************************)
EXTENDS Integers

CONSTANTS Threads, Ports, PortOf, \* each thread writes to its port
          baud, ByteTime,
          UMod,       \* the values of useconds_t and of unsigned
          MaxWork,    \* the port's output queue
          Lens,       \* lengths of the buffers the threads write
          Uses        \* how programs use the class: exclusive, one thread at
                      \* a time; anyWrite, also serialPutchar, serialPuts and
                      \* serialPrintf, which leave the pin alone

ASSUME RateAssumption == baud \in Nat \ {0} /\ ByteTime \in Nat /\ UMod \in Nat \ {0}
                         /\ MaxWork \in Nat
ASSUME CallsAssumption ==
  /\ Lens \subseteq Nat /\ PortOf \in [Threads -> Ports]
  /\ Uses \subseteq [exclusive : BOOLEAN, anyWrite : BOOLEAN]

VARIABLES use,   \* of the program that runs
          pin,   \* "LOW" or "HIGH"
          work,  \* of each port: what it still has to transmit
          pc,    \* of each thread
          len,   \* the buffer it writes
          left   \* the ticks it still sleeps

lineVars == <<use, pin, work, pc, len, left>>

LineInit == /\ use \in Uses
        /\ pin = "LOW" /\ work = [p \in Ports |-> 0]
        /\ pc = [t \in Threads |-> "idle"]
        /\ len = [t \in Threads |-> 0] /\ left = [t \in Threads |-> 0]

Goto(t, l) == pc' = [pc EXCEPT ![t] = l]

MayCall(t) == pc[t] = "idle" /\ (use.exclusive => \A u \in Threads : pc[u] = "idle")

-----------------------------------------------------------------------------
\* Variants of the code that break the properties, each against one of them.

\* Without the + 1.
SleepFloor(n) == (n * (ByteTime \div baud)) % UMod

\* The pin is left alone while the port still transmits.
ResetWhenDrained(t) ==
  /\ pc[t] = "sleep" /\ left[t] = 0
  /\ pin' = IF work[PortOf[t]] = 0 THEN "LOW" ELSE pin
  /\ Goto(t, "idle") /\ UNCHANGED <<work, len, left>>

-----------------------------------------------------------------------------
\* len * (10000000 / _baud + 1), as an unsigned and then a useconds_t.
SleepTime(n) == (n * (ByteTime \div baud + 1)) % UMod

Drive(t, n) ==
  /\ MayCall(t)
  /\ pin' = "HIGH" /\ len' = [len EXCEPT ![t] = n]
  /\ Goto(t, "driven") /\ UNCHANGED <<work, left>>

\* One call of write, whatever it returns: it may have taken fewer bytes.
Write(t) ==
  /\ pc[t] = "driven"
  /\ \E n \in 0 .. len[t] :
       LET w == work[PortOf[t]] + n * ByteTime IN
       w <= MaxWork /\ work' = [work EXCEPT ![PortOf[t]] = w]
  /\ left' = [left EXCEPT ![t] = SleepTime(len[t])]
  /\ Goto(t, "sleep") /\ UNCHANGED <<pin, len>>

Reset(t) ==
  /\ pc[t] = "sleep" /\ left[t] = 0
  /\ pin' = "LOW"
  /\ Goto(t, "idle") /\ UNCHANGED <<work, len, left>>

\* serialOpen of another object, or again, leaves the pin LOW.
serialOpen(t) ==
  /\ MayCall(t)
  /\ pin' = "LOW" /\ UNCHANGED <<work, pc, len, left>>

\* serialPutchar, serialPuts and serialPrintf write without the pin.
serialPuts(t, n) ==
  /\ use.anyWrite /\ MayCall(t) /\ work[PortOf[t]] = 0 /\ n * ByteTime <= MaxWork
  /\ work' = [work EXCEPT ![PortOf[t]] = n * ByteTime]
  /\ UNCHANGED <<pin, pc, len, left>>

\* A microsecond passes: the ports transmit and the sleepers sleep.
Less(a, b) == IF a <= b THEN 0 ELSE a - b
Tick ==
  /\ work' = [p \in Ports |-> Less(work[p], baud)]
  /\ left' = [t \in Threads |-> Less(left[t], 1)]
  /\ <<work, left>>' # <<work, left>>
  /\ UNCHANGED <<pin, pc, len>>

LineNext == /\ UNCHANGED use
        /\ \/ \E t \in Threads : \/ \E n \in Lens : Drive(t, n) \/ serialPuts(t, n)
                                 \/ Write(t) \/ Reset(t) \/ serialOpen(t)
           \/ Tick

LineSpec == LineInit /\ [][LineNext]_lineVars

-----------------------------------------------------------------------------
\* The pin has one of two levels; work and sleep are never negative.
LineTypeOK == /\ use \in Uses
          /\ pin \in {"LOW", "HIGH"} /\ work \in [Ports -> Nat]
          /\ pc \in [Threads -> {"idle", "driven", "sleep"}]
          /\ len \in [Threads -> Lens \cup {0}] /\ left \in [Threads -> Nat]

\* No buffer is so long that its sleep wraps (71 minutes in the code).
NoWrap == \A n \in Lens : n * (ByteTime \div baud + 1) < UMod

\* With one call at a time, through serialWrite only, the converter is on while
\* a port transmits: the sleep, rounded up for each byte, is never shorter than
\* the transmission, however late the threads' steps come.
DrivenWhileSending ==
  use.exclusive /\ ~use.anyWrite => \A p \in Ports : work[p] > 0 => pin = "HIGH"

\* The bus is released when no call is under way, also when the calls of
\* several threads overlapped: otherwise no other station could send.
ReleasedAtRest == (\A t \in Threads : pc[t] = "idle") => pin = "LOW"
=============================================================================
