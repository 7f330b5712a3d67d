----------------------------- MODULE DeviceFds -----------------------------
(***************************************************************************)
(* The file descriptors of one program that uses the device classes of     *)
(* device_test/Device (SpiDevice, SerialDev, UdpDevice) and the C library  *)
(* spi_test/spidev-lib: who opened each entry of the descriptor table, and *)
(* which number each device object keeps.  Every action is one call; what  *)
(* the program opens and closes besides is an action of its own.           *)
(*                                                                         *)
(* A fault names something that may go wrong around the classes; a program *)
(* is one in which some of them do:                                        *)
(*   "close"   serialClose is called, and the object kept                  *)
(*   "reject"  the driver refuses a setting given to an open SpiDevice     *)
(*   "setup"   a step after open fails where the code does not close:      *)
(*             wiringPiSetup in serialOpen, an ioctl in spi_open           *)
(*   "reopen"  an object is opened, or given a descriptor, when it has one *)
(*   "stdin"   the program runs with descriptor 0 closed                   *)
(***************************************************************************)
EXTENDS Integers, FiniteSets

CONSTANTS Spis, Serials, Udps, \* device objects of the three classes
          Handles,             \* ints that hold the result of spi_open
          Program, Free,       \* owners of the other entries of the table
          MaxFd,               \* bound: the process may have MaxFd + 1 files
          Programs             \* the sets of faults of the programs

Devices == Spis \cup Serials \cup Udps \cup Handles
Fds     == 0 .. MaxFd
NoFd    == -1
FaultKinds == {"close", "reject", "setup", "reopen", "stdin"}

ASSUME DevicesAssumption ==
  /\ MaxFd \in Nat /\ Programs \subseteq SUBSET FaultKinds
  /\ Program \notin Devices /\ Free \notin Devices /\ Program # Free
  /\ Spis \cap (Serials \cup Udps \cup Handles) = {}
  /\ Serials \cap (Udps \cup Handles) = {} /\ Udps \cap Handles = {}

VARIABLES faults, \* of the program that runs
          table,  \* who opened each descriptor
          fd,     \* _fd, m_spifd, broadcastSocket_, the int spifd
          open,   \* m_open of the SpiDevices
          made    \* the objects that exist

vars == <<faults, table, fd, open, made>>

Init == /\ faults \in Programs
        /\ table = [f \in Fds |-> IF f = 0 /\ "stdin" \notin faults THEN Program ELSE Free]
        /\ fd = [d \in Devices |-> NoFd]
        /\ open = [d \in Spis |-> FALSE]
        /\ made = {}

-----------------------------------------------------------------------------
\* The kernel: open and socket return the lowest free number; close frees the
\* number whoever opened it, and refuses one that is not open.
LowestFree(f) == table[f] = Free /\ \A g \in Fds : table[g] = Free => f <= g
Opens(d, f)   == LowestFree(f) /\ table' = [table EXCEPT ![f] = d]
Close(f)      == table' = IF f \in Fds THEN [table EXCEPT ![f] = Free] ELSE table

\* d has a descriptor that is its own.
Owns(d) == fd[d] \in Fds /\ table[fd[d]] = d
MayOpen(d) == d \in made /\ ("reopen" \in faults \/ ~Owns(d))

\* A new object has no descriptor; one that is destroyed forgets its number.
Construct(d) == d \notin made /\ made' = made \cup {d} /\ UNCHANGED <<table, fd, open>>
Forget(d)    == d \in made /\ made' = made \ {d} /\ fd' = [fd EXCEPT ![d] = NoFd]

-----------------------------------------------------------------------------
\* Variants of the code that break the properties, each against one of them.

\* ~SpiDevice closes without looking at m_open.
SpiDestroyAlways(d) ==
  Forget(d) /\ open' = [open EXCEPT ![d] = FALSE] /\ Close(fd[d])

\* serialOpen returns without close when tcsetattr fails.
SerialOpenKeeps(d) ==
  /\ MayOpen(d)
  /\ \E f \in Fds : Opens(d, f) /\ fd' \in {fd, [fd EXCEPT ![d] = f]}
  /\ UNCHANGED <<open, made>>

-----------------------------------------------------------------------------
\* SpiDevice::begin returns early when m_open.  It keeps in m_spifd the number
\* that a refused ioctl made it close.
SpiBegin(d) ==
  /\ d \in made /\ ~open[d]
  /\ UNCHANGED made
  /\ \/ fd' = [fd EXCEPT ![d] = NoFd] /\ UNCHANGED <<table, open>>
     \/ \E f \in Fds : /\ LowestFree(f) /\ fd' = [fd EXCEPT ![d] = f]
                       /\ UNCHANGED <<table, open>>
     \/ \E f \in Fds : /\ Opens(d, f) /\ fd' = [fd EXCEPT ![d] = f]
                       /\ open' = [open EXCEPT ![d] = TRUE]

\* SpiDevice::setConfig when an ioctl fails, as it does on a number that has
\* become another's file; else it changes nothing here.
SpiReject(d) ==
  /\ d \in made /\ open[d] /\ ("reject" \in faults \/ ~Owns(d))
  /\ Close(fd[d])
  /\ UNCHANGED <<fd, open, made>>

SpiDestroy(d) ==
  /\ Forget(d) /\ open' = [open EXCEPT ![d] = FALSE]
  /\ IF open[d] THEN Close(fd[d]) ELSE UNCHANGED table

-----------------------------------------------------------------------------
\* SerialDev::serialOpen sets _fd last.  When open or tcsetattr fails nothing
\* is left; when wiringPiSetup fails the descriptor is left open.
SerialOpen(d) ==
  /\ MayOpen(d)
  /\ \E f \in Fds : /\ Opens(d, f)
                    /\ \/ fd' = [fd EXCEPT ![d] = f]
                       \/ "setup" \in faults /\ UNCHANGED fd
  /\ UNCHANGED <<open, made>>

SerialClose(d) ==
  /\ "close" \in faults /\ d \in made
  /\ Close(fd[d])
  /\ UNCHANGED <<fd, open, made>>

\* serialSetFd hands the object a descriptor of the program, and with it the
\* duty to close it, or none.
SerialSetFd(d) ==
  /\ MayOpen(d)
  /\ \/ fd' = [fd EXCEPT ![d] = NoFd] /\ UNCHANGED table
     \/ \E f \in Fds : /\ table[f] = Program /\ (f # 0 \/ "stdin" \in faults)
                       /\ fd' = [fd EXCEPT ![d] = f]
                       /\ table' = [table EXCEPT ![f] = d]
  /\ UNCHANGED <<open, made>>

SerialDestroy(d) == Forget(d) /\ Close(fd[d]) /\ UNCHANGED open

-----------------------------------------------------------------------------
\* UdpDevice::begin keeps the socket even when it fails after socket.
UdpBegin(d) ==
  /\ MayOpen(d)
  /\ \/ fd' = [fd EXCEPT ![d] = NoFd] /\ UNCHANGED table
     \/ \E f \in Fds : Opens(d, f) /\ fd' = [fd EXCEPT ![d] = f]
  /\ UNCHANGED <<open, made>>

UdpDestroy(d) ==
  /\ Forget(d) /\ UNCHANGED open
  /\ IF fd[d] > 0 THEN Close(fd[d]) ELSE UNCHANGED table

-----------------------------------------------------------------------------
\* spi_open returns the descriptor, or -1 and leaves it open when an ioctl fails.
spi_open(d) ==
  /\ MayOpen(d)
  /\ \/ fd' = [fd EXCEPT ![d] = NoFd] /\ UNCHANGED table
     \/ \E f \in Fds : /\ Opens(d, f)
                       /\ \/ fd' = [fd EXCEPT ![d] = f]
                          \/ "setup" \in faults /\ fd' = [fd EXCEPT ![d] = NoFd]
  /\ UNCHANGED <<open, made>>

\* The caller closes last, whatever spi_open returned.
spi_close(d) == Forget(d) /\ Close(fd[d]) /\ UNCHANGED open

-----------------------------------------------------------------------------
\* What the program opens besides its devices; it closes only what it opened.
ProgramOpen  == /\ \E f \in Fds : Opens(Program, f)
                /\ UNCHANGED <<fd, open, made>>
ProgramClose == /\ \E f \in Fds : /\ table[f] = Program /\ (f # 0 \/ "stdin" \in faults)
                                  /\ Close(f)
                /\ UNCHANGED <<fd, open, made>>

Next == /\ UNCHANGED faults
        /\ \/ \E d \in Devices : Construct(d)
           \/ \E d \in Spis : SpiBegin(d) \/ SpiReject(d) \/ SpiDestroy(d)
           \/ \E d \in Serials : \/ SerialOpen(d) \/ SerialClose(d)
                                 \/ SerialSetFd(d) \/ SerialDestroy(d)
           \/ \E d \in Udps : UdpBegin(d) \/ UdpDestroy(d)
           \/ \E d \in Handles : spi_open(d) \/ spi_close(d)
           \/ ProgramOpen \/ ProgramClose

Spec == Init /\ [][Next]_vars

-----------------------------------------------------------------------------
\* Every entry of the table has an owner, every object a number or none.
TypeOK == /\ faults \in Programs
          /\ table \in [Fds -> Devices \cup {Program, Free}]
          /\ fd \in [Devices -> Fds \cup {NoFd}]
          /\ open \in [Spis -> BOOLEAN]
          /\ made \subseteq Devices

\* The object takes its number for an open file: it reads, writes and, when it
\* is destroyed, closes it.
Claims(d) == d \in made /\ fd[d] \in Fds /\ (d \in Spis => open[d])

\* Unless serialClose was called or setConfig refused, which keep a number they
\* closed, no object reads, writes or closes a file that something else opened,
\* in whatever order the objects are opened, fail to open and are destroyed.
EachItsOwn == faults \cap {"close", "reject"} = {} =>
                \A d \in Devices : Claims(d) => table[fd[d]] = d

\* A file that a device opened and no object will close.
Lost(f) == LET d == table[f] IN d \in Devices /\ ~(Claims(d) /\ fd[d] = f)

\* A SpiDevice loses no file, whatever else goes wrong in the program: begin
\* closes on every error, and returns early while there is a file to lose.
SpiLosesNothing == \A f \in Fds : table[f] \in Spis => ~Lost(f)

\* The other devices lose a file only when a setup step fails in serialOpen or
\* spi_open, when one is opened over another, or, for UdpDevice, when its
\* descriptor is 0, which the destructor takes for none.
NothingIsLost == faults \cap {"setup", "reopen", "stdin"} = {} => \A f \in Fds : ~Lost(f)
=============================================================================
