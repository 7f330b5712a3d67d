---------------------------- MODULE SpiSettings ----------------------------
(***************************************************************************)
(* The settings of one spidev device and the copies its users keep: the    *)
(* SpiDevice objects (device_test/Device/SpiDevice.cpp, and the same class *)
(* in spi_test/spidev-lib/src/spidev_lib++.cc), spi_open of spidev_lib.c,  *)
(* and spi_test/spidev_test.c.                                             *)
(*                                                                         *)
(* Each setting is written with one ioctl and read back with another, and  *)
(* the device belongs to all who opened it: users come between.  The       *)
(* driver is external: it refuses modes the controller does not have,      *)
(* lowers a speed that is too high, and any ioctl may fail.  DeviceFds has *)
(* what becomes of the descriptors.                                        *)
(***************************************************************************)
EXTENDS Integers, Sequences

CONSTANTS Objects,      \* SpiDevice objects
          Tools,        \* programs that use spi_open, or are spidev_test
          Configs,      \* the spi_config_t they are given
          Modes, WordSizes, Speeds,  \* what the three setters are given
          ModeMod,      \* values of the uint8_t mode
          HasMode, TopSpeed,         \* of the controller
          MaxCalls      \* bound: calls that reach the driver

ASSUME SettingsAssumption ==
    /\ Configs \subseteq [mode : Nat, bits : Nat, speed : Nat]
    /\ ModeMod \in Nat \ {0} /\ TopSpeed \in Nat /\ MaxCalls \in Nat
    /\ Objects \cap Tools = {}

Users == Objects \cup Tools
Fields == {"mode", "bits", "speed"}

VARIABLES hw,           \* the device's settings
          cfg,          \* m_spiconfig; config of spi_open; mode, bits, speed
          m_open,       \* of the objects
          file,         \* the descriptor: "none", "open", "closed"
          job,          \* the call a user is in: [fn, arg], or fn = "none"
          todo,         \* the ioctls it has still to make
          calls,
          alone, exact  \* history: see SettingsFollowDevice

spiVars == <<hw, cfg, m_open, file, job, todo, calls, alone, exact>>

NoJob == [fn |-> "none", arg |-> 0]

WriteThenRead(f) == << <<"WR", f>>, <<"RD", f>> >>
AllSettings == WriteThenRead("mode") \o WriteThenRead("bits") \o WriteThenRead("speed")

(* The driver. *)
Takes(f, v) == f = "mode" => v \in HasMode
Taken(f, v) == IF f = "speed" /\ v > TopSpeed THEN TopSpeed ELSE v

(* SpiDevice(path) leaves m_spiconfig as it finds it: any configuration.   *)
SpiInit ==
    /\ \E c \in Configs : hw = [c EXCEPT !.speed = Taken("speed", @)]
    /\ cfg \in [Users -> Configs]
    /\ m_open = [o \in Objects |-> FALSE]
    /\ file = [u \in Users |-> "none"]
    /\ job = [u \in Users |-> NoJob] /\ todo = [u \in Users |-> <<>>]
    /\ calls = 0
    /\ alone = [u \in Users |-> FALSE] /\ exact = [u \in Users |-> FALSE]

-----------------------------------------------------------------------------
Begins(u, fn, arg, ioctls) ==
    /\ job[u] = NoJob /\ calls < MaxCalls
    /\ job' = [job EXCEPT ![u] = [fn |-> fn, arg |-> arg]]
    /\ todo' = [todo EXCEPT ![u] = ioctls]
    /\ calls' = calls + 1

(* A mutated form: an open object is opened again. *)
BeginAgain(o) ==
    /\ Begins(o, "begin", 0, AllSettings)
    /\ file' = [file EXCEPT ![o] = "open"]
    /\ alone' = [alone EXCEPT ![o] = TRUE]
    /\ UNCHANGED <<hw, cfg, m_open, exact>>

(* begin returns early when the object is open. *)
Begin(o) ==
    /\ ~m_open[o]
    /\ Begins(o, "begin", 0, AllSettings)
    /\ file' = [file EXCEPT ![o] = "open"]
    /\ alone' = [alone EXCEPT ![o] = TRUE]
    /\ UNCHANGED <<hw, cfg, m_open, exact>>

(* spi_open, or a run of spidev_test, with a configuration of its own. *)
SpiOpen(t) ==
    /\ Begins(t, "spi_open", 0, AllSettings)
    /\ \E c \in Configs : cfg' = [cfg EXCEPT ![t] = c]
    /\ file' = [file EXCEPT ![t] = "open"]
    /\ alone' = [alone EXCEPT ![t] = TRUE]
    /\ exact' = [exact EXCEPT ![t] = FALSE]
    /\ UNCHANGED <<hw, m_open>>

(* setConfig keeps the configuration also when it answers false, because   *)
(* the object is not open: the next begin uses it.                         *)
SetConfig(o, c) ==
    /\ cfg' = [cfg EXCEPT ![o] = c]
    /\ exact' = [exact EXCEPT ![o] = FALSE]
    /\ IF m_open[o]
       THEN /\ Begins(o, "setConfig", 0, AllSettings)
            /\ alone' = [alone EXCEPT ![o] = TRUE]
       ELSE /\ job[o] = NoJob
            /\ UNCHANGED <<job, todo, calls, alone>>
    /\ UNCHANGED <<hw, m_open, file>>

SetMode(o, v) ==
    /\ Begins(o, "mode", v, WriteThenRead("mode"))
    /\ UNCHANGED <<hw, cfg, m_open, file, alone, exact>>

SetBitPerWord(o, v) ==
    /\ Begins(o, "bits", v, WriteThenRead("bits"))
    /\ UNCHANGED <<hw, cfg, m_open, file, alone, exact>>

SetSpeed(o, v) ==
    /\ Begins(o, "speed", v, WriteThenRead("speed"))
    /\ UNCHANGED <<hw, cfg, m_open, file, alone, exact>>

-----------------------------------------------------------------------------
(* A setter works on its argument, the other calls on the configuration. *)
IsSetter(u) == job[u].fn \in Fields
Value(u, f) == IF IsSetter(u) THEN job[u].arg ELSE cfg[u][f]

(* What is written has others' copies out of date. *)
WriteSetting(u) ==
    /\ todo[u] # <<>> /\ file[u] = "open"
    /\ LET f == todo[u][1][2]
       IN  /\ todo[u][1][1] = "WR" /\ Takes(f, Value(u, f))
           /\ hw' = [hw EXCEPT ![f] = Taken(f, Value(u, f))]
    /\ todo' = [todo EXCEPT ![u] = Tail(@)]
    /\ alone' = [p \in Users |-> p = u /\ alone[u]]
    /\ UNCHANGED <<cfg, m_open, file, job, calls, exact>>

(* A mutated form: what was asked for is kept, and not what was read back. *)
StoreAsked(u, f) ==
    CASE ~IsSetter(u) -> cfg[u]
      [] f = "speed"  -> [cfg[u] EXCEPT !.mode = hw.speed % ModeMod]
      [] OTHER        -> [cfg[u] EXCEPT ![f] = job[u].arg]

(* Where a value that is read back is stored: setSpeed stores it as mode.  *)
Store(u, f) ==
    IF IsSetter(u) /\ f = "speed"
    THEN [cfg[u] EXCEPT !.mode = hw.speed % ModeMod]
    ELSE [cfg[u] EXCEPT ![f] = hw[f]]

ReadSetting(u) ==
    /\ todo[u] # <<>> /\ file[u] = "open"
    /\ todo[u][1][1] = "RD"
    /\ cfg' = [cfg EXCEPT ![u] = Store(u, todo[u][1][2])]
    /\ todo' = [todo EXCEPT ![u] = Tail(@)]
    /\ UNCHANGED <<hw, m_open, file, job, calls, alone, exact>>

(* The call answers true.  *)
Succeed(u) ==
    /\ job[u] # NoJob /\ todo[u] = <<>>
    /\ m_open' = IF job[u].fn = "begin" THEN [m_open EXCEPT ![u] = TRUE] ELSE m_open
    /\ exact' = [exact EXCEPT ![u] = (@ \/ ~IsSetter(u)) /\ job[u].fn # "speed"]
    /\ job' = [job EXCEPT ![u] = NoJob]
    /\ UNCHANGED <<hw, cfg, file, todo, calls, alone>>

(* An ioctl fails.  begin and setConfig close the descriptor, and the      *)
(* object stays open for setConfig; a setter, spi_open and spidev_test     *)
(* leave everything as it is.                                              *)
Fail(u) ==
    /\ todo[u] # <<>>
    /\ file' = IF job[u].fn \in {"begin", "setConfig"}
               THEN [file EXCEPT ![u] = "closed"] ELSE file
    /\ exact' = [exact EXCEPT ![u] = FALSE]
    /\ job' = [job EXCEPT ![u] = NoJob] /\ todo' = [todo EXCEPT ![u] = <<>>]
    /\ UNCHANGED <<hw, cfg, m_open, calls, alone>>

SpiNext ==
    \/ \E o \in Objects :
          \/ Begin(o)
          \/ \E c \in Configs : SetConfig(o, c)
          \/ \E v \in Modes : SetMode(o, v)
          \/ \E v \in WordSizes : SetBitPerWord(o, v)
          \/ \E v \in Speeds : SetSpeed(o, v)
    \/ \E t \in Tools : SpiOpen(t)
    \/ \E u \in Users : WriteSetting(u) \/ ReadSetting(u) \/ Succeed(u) \/ Fail(u)

SpiSpec == SpiInit /\ [][SpiNext]_spiVars

-----------------------------------------------------------------------------
(* What a transfer is made with: spi_write and spi_read give the word size *)
(* and the speed of m_spiconfig, so that setSpeed is lost on them; xfer    *)
(* gives zeros, which stand for the device's settings.                     *)
TransferWith(o, fn) ==
    IF fn = "xfer" THEN hw ELSE [hw EXCEPT !.bits = cfg[o].bits, !.speed = cfg[o].speed]

(* As long as nobody else has written a setting since a begin, setConfig   *)
(* or spi_open that went through, and neither setSpeed nor a call that     *)
(* failed came after it, the copy says what the device does, rounded       *)
(* speeds included, and all transfers of an object are made alike.         *)
SettingsFollowDevice ==
    \A u \in Users :
       job[u] = NoJob /\ alone[u] /\ exact[u] =>
          /\ cfg[u] = hw
          /\ u \in Objects => TransferWith(u, "spi_write") = TransferWith(u, "xfer")

(* The speed that setSpeed stores as the mode never becomes the mode of    *)
(* the device: no legal sequence of calls writes the mode from there.      *)
SpeedNeverBecomesMode == hw.mode \in {c.mode : c \in Configs} \cup Modes
=============================================================================
