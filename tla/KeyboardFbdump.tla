--------------------------- MODULE KeyboardFbdump ---------------------------
(***************************************************************************)
(* KeyboardFbdump/KeyboardFbdump.cpp: a program that looks for the USB     *)
(* keyboard among the input devices and then runs fbdump whenever SysRq    *)
(* has been pressed and released.  While fbdump runs the program waits and *)
(* the kernel queues the keyboard's events; a full queue is emptied and a  *)
(* mark put in it.  An unplugged keyboard can be read no more.             *)
(*                                                                         *)
(* The kernel's event queue, the directory of input devices and the shell  *)
(* are not in the repository: they are modelled from how main uses them.   *)
(***************************************************************************)
EXTENDS Integers, SequencesExt

CONSTANTS Listings,    \* what readdir of /dev/input may give: a sequence of
                       \* "other", "copy" and "keyboard", a keyboard with
                       \* autorepeat, of which a copy is one without
          QueueSize,   \* the events the kernel keeps for a reader
          MayFail,     \* vfork may fail, and the keyboard be unplugged
          MaxPresses   \* bound: how often SysRq is pressed

ASSUME ListingsAssumption == Listings \subseteq Seq({"other", "copy", "keyboard"})
ASSUME PressesAssumption ==
  QueueSize \in Nat \ {0, 1} /\ MaxPresses \in Nat /\ MayFail \in BOOLEAN

VARIABLES listing,                        \* /dev/input
          mpc, entry, dev,                \* main; readdir; keyboard_dev_name
          press_key_flag, cut_pic_flag,
          plugged, key, events,           \* the keyboard, the kernel's queue
          cycles, shots, mishaps          \* history

search   == <<entry, dev>>
flags    == <<press_key_flag, cut_pic_flag>>
keyboard == <<plugged, key, events, cycles>>
dumpVars == <<listing, mpc, search, flags, keyboard, shots, mishaps>>

NoDev    == 0   \* "nokown"
IsKeyboard(i) == listing[i] \in {"copy", "keyboard"}
Listening     == mpc \in {"select", "mw_system", "waitpid"}

DumpInit ==
  /\ listing \in Listings
  /\ mpc = "readdir" /\ entry = 1 /\ dev = NoDev
  /\ press_key_flag = FALSE /\ cut_pic_flag = FALSE
  /\ plugged = TRUE /\ key \in {"up", "held"} /\ events = << >>
  /\ cycles = 0 /\ shots = 0 /\ mishaps = {}

-----------------------------------------------------------------------------
\* Variants of the code that break the properties, each against one of them.

\* After the picture only press_key_flag is reset.
ResetKeepsCut ==
  /\ mpc = "waitpid" /\ mpc' = "select" /\ press_key_flag' = FALSE
  /\ UNCHANGED <<listing, search, cut_pic_flag, keyboard, shots, mishaps>>

\* After the picture the events that came meanwhile are thrown away.
ResetFlushes ==
  /\ mpc = "waitpid" /\ mpc' = "select"
  /\ press_key_flag' = FALSE /\ cut_pic_flag' = FALSE /\ events' = << >>
  /\ UNCHANGED <<listing, search, plugged, key, cycles, shots, mishaps>>

-----------------------------------------------------------------------------
\* A device the search takes for the keyboard; a later one replaces it, since
\* EVIOCGREP never both fails and fills rep, which would end the search.
Readdir ==
  /\ mpc = "readdir" /\ entry <= Len(listing)
  /\ dev' = IF IsKeyboard(entry) THEN entry ELSE dev
  /\ entry' = entry + 1
  /\ UNCHANGED <<listing, mpc, flags, keyboard, shots, mishaps>>

\* After the last entry get_keyboard_dev returns no value: main goes by the name,
\* and opening "nokown" fails.
OpenKeyboard ==
  /\ mpc = "readdir" /\ entry > Len(listing)
  /\ mpc' = IF dev = NoDev THEN "exit" ELSE "select"
  /\ UNCHANGED <<listing, search, flags, keyboard, shots, mishaps>>

\* One round of the loop of main: only the press and the release of SysRq count.
ReadEvent ==
  /\ mpc = "select" /\ plugged /\ events # << >>
  /\ press_key_flag' = (press_key_flag \/ Head(events) = "press")
  /\ cut_pic_flag' = (cut_pic_flag \/ (Head(events) = "release" /\ press_key_flag))
  /\ mpc' = IF cut_pic_flag' THEN "mw_system" ELSE "select"
  /\ events' = Tail(events)
  /\ UNCHANGED <<listing, search, plugged, key, cycles, shots, mishaps>>

\* A shell is started for fbdump, and main waits for it.
mw_system ==
  /\ mpc = "mw_system" /\ mpc' = "waitpid"
  /\ \/ shots' = shots + 1 /\ UNCHANGED mishaps
     \/ MayFail /\ mishaps' = mishaps \cup {"vfork"} /\ UNCHANGED shots
  /\ UNCHANGED <<listing, search, flags, keyboard>>

\* The picture is done, whatever mw_system returned.
ResetFlags ==
  /\ mpc = "waitpid" /\ mpc' = "select"
  /\ press_key_flag' = FALSE /\ cut_pic_flag' = FALSE
  /\ UNCHANGED <<listing, search, keyboard, shots, mishaps>>

-----------------------------------------------------------------------------
\* The kernel queues an event for the program when that has the device open
\* from which it comes; the copies of a keyboard send none.
Queue(ev) ==
  IF ~Listening \/ listing[dev] # "keyboard" THEN UNCHANGED <<events, mishaps>>
  ELSE IF Len(events) < QueueSize
       THEN events' = Append(events, ev) /\ UNCHANGED mishaps
       ELSE events' = <<"dropped", ev>> /\ mishaps' = mishaps \cup {"overflow"}

Press ==
  /\ plugged /\ key = "up" /\ cycles < MaxPresses
  /\ key' = IF Listening THEN "pressed" ELSE "held"
  /\ Queue("press")
  /\ UNCHANGED <<listing, mpc, search, flags, plugged, cycles, shots>>

Release ==
  /\ plugged /\ key # "up" /\ key' = "up"
  /\ cycles' = IF key = "pressed" THEN cycles + 1 ELSE cycles
  /\ Queue("release")
  /\ UNCHANGED <<listing, mpc, search, flags, plugged, shots>>

\* Other keys, autorepeats and the marks after each event.
OtherEvent ==
  /\ plugged /\ Queue("other")
  /\ UNCHANGED <<listing, mpc, search, flags, plugged, key, cycles, shots>>

Unplug ==
  /\ MayFail /\ plugged /\ plugged' = FALSE
  /\ events' = << >> /\ mishaps' = mishaps \cup {"unplugged"}
  /\ UNCHANGED <<listing, mpc, search, flags, key, cycles, shots>>

Main == Readdir \/ OpenKeyboard \/ ReadEvent \/ mw_system \/ ResetFlags
DumpNext == Main \/ Press \/ Release \/ OtherEvent \/ Unplug

\* The program's loop runs, and so, in ResetFlags, does the fbdump it waits for;
\* the user owes nothing.
DumpSpec == DumpInit /\ [][DumpNext]_dumpVars /\ WF_dumpVars(Main)

-----------------------------------------------------------------------------
\* The variables have their types, and the loop runs only with a keyboard.
DumpTypeOK ==
  /\ listing \in Listings
  /\ mpc \in {"readdir", "exit", "select", "mw_system", "waitpid"}
  /\ entry \in 1 .. Len(listing) + 1 /\ dev \in 0 .. Len(listing)
  /\ Listening => dev # NoDev /\ IsKeyboard(dev)
  /\ {press_key_flag, cut_pic_flag, plugged} \subseteq BOOLEAN
  /\ key \in {"up", "held", "pressed"} /\ cycles \in 0 .. MaxPresses
  /\ events \in Seq({"press", "release", "other", "dropped"}) /\ Len(events) <= QueueSize
  /\ shots \in Nat
  /\ mishaps \subseteq {"vfork", "overflow", "unplugged"}

\* No picture without a press and a release of its own, also when the kernel
\* dropped events in between or the key was held when the program started.
ShotsExplained == shots <= cycles

\* Every press and release gets its picture, however many come during one, as
\* long as the kernel's queue has room, vfork works and the keyboard is there.
EveryPressShot ==
  \A n \in 1 .. MaxPresses :
    (cycles >= n /\ listing[dev] = "keyboard" /\ mishaps = {})
      ~> (shots >= n \/ mishaps # {})
=============================================================================
