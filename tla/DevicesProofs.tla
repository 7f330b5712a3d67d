--------------------------- MODULE DevicesProofs ---------------------------
(***************************************************************************)
(* Proofs about the modules of the devices, one after the other.           *)
(*                                                                         *)
(* DeviceFds, for any number of objects and descriptors: with the faults   *)
(* excluded that each names, every object uses its own file and no file is *)
(* lost, and SpiDevice loses none under any fault.  The three invariants   *)
(* are inductive, each with TypeOK: an open gets a number that is free, so *)
(* no object claims it; a close by an object that owns its number frees no *)
(* other's.  NothingIsLost needs besides that descriptor 0 stays the       *)
(* program's.                                                              *)
(*                                                                         *)
(* Rs485, for every baud rate, buffer and number of threads: the pin is    *)
(* released when no thread writes, and with one thread at a time that only *)
(* calls serialWrite it is HIGH whenever a port transmits.  The invariant  *)
(* of the second bounds the work of the port by what it can do in the      *)
(* ticks the writer still sleeps.                                          *)
(*                                                                         *)
(* SpiSettings, for all users, configurations and numbers of calls.        *)
(* First, the speed that setSpeed stores as a mode never becomes the mode  *)
(* of the device; then, the copies follow the device (below).  The copy of *)
(* an object holds a speed for a mode only while the object is open        *)
(* (ClosedIsClean), and the calls that write the mode of a copy are begin, *)
(* which an open object does not get to, and those that replace the copy   *)
(* first; so whoever is about to write the mode has one that somebody      *)
(* asked for (WritesAskedFor).                                             *)
(***************************************************************************)
EXTENDS DeviceFds, Rs485, SpiSettings, SequenceTheorems, TLAPS

\* Descriptors.

\* Every call keeps the types.
LEMMA TypeStep == TypeOK /\ [Next]_vars => TypeOK'
<1> SUFFICES ASSUME TypeOK, [Next]_vars PROVE TypeOK'
  OBVIOUS
<1>0. faults' = faults
  BY DEF Next, vars
<1> USE DevicesAssumption, <1>0
<1>1. ASSUME NEW d \in Devices, Construct(d) PROVE TypeOK'
  BY <1>1 DEF Construct, TypeOK, Fds, NoFd, Devices
<1>2. ASSUME NEW d \in Spis, SpiBegin(d) PROVE TypeOK'
  <2>1. d \in Devices /\ NoFd \in Fds \cup {NoFd}
    BY DEF Devices
  <2>2. table' \in [Fds -> Devices \cup {Program, Free}]
    BY <1>2, <2>1 DEF SpiBegin, Opens, TypeOK
  <2>3. fd' \in [Devices -> Fds \cup {NoFd}]
    BY <1>2, <2>1 DEF SpiBegin, TypeOK
  <2>4. open' \in [Spis -> BOOLEAN] /\ made' \subseteq Devices
    BY <1>2 DEF SpiBegin, TypeOK
  <2> QED BY <2>2, <2>3, <2>4 DEF TypeOK
<1>3. ASSUME NEW d \in Spis, SpiReject(d) PROVE TypeOK'
  BY <1>3 DEF SpiReject, Owns, Close, TypeOK, Fds, NoFd, Devices
<1>4. ASSUME NEW d \in Spis, SpiDestroy(d) PROVE TypeOK'
  BY <1>4 DEF SpiDestroy, Forget, Close, TypeOK, Fds, NoFd, Devices
<1>5. ASSUME NEW d \in Serials, SerialOpen(d) PROVE TypeOK'
  BY <1>5 DEF SerialOpen, MayOpen, Owns, Opens, LowestFree, TypeOK, Fds, NoFd,
       Devices
<1>6. ASSUME NEW d \in Serials, SerialClose(d) PROVE TypeOK'
  BY <1>6 DEF SerialClose, Close, TypeOK, Fds, NoFd, Devices
<1>7. ASSUME NEW d \in Serials, SerialSetFd(d) PROVE TypeOK'
  BY <1>7 DEF SerialSetFd, MayOpen, Owns, TypeOK, Fds, NoFd, Devices
<1>8. ASSUME NEW d \in Serials, SerialDestroy(d) PROVE TypeOK'
  BY <1>8 DEF SerialDestroy, Forget, Close, TypeOK, Fds, NoFd, Devices
<1>9. ASSUME NEW d \in Udps, UdpBegin(d) PROVE TypeOK'
  BY <1>9 DEF UdpBegin, MayOpen, Owns, Opens, LowestFree, TypeOK, Fds, NoFd,
       Devices
<1>10. ASSUME NEW d \in Udps, UdpDestroy(d) PROVE TypeOK'
  BY <1>10 DEF UdpDestroy, Forget, Close, TypeOK, Fds, NoFd, Devices
<1>11. ASSUME NEW d \in Handles, spi_open(d) PROVE TypeOK'
  BY <1>11 DEF spi_open, MayOpen, Owns, Opens, LowestFree, TypeOK, Fds, NoFd,
       Devices
<1>12. ASSUME NEW d \in Handles, spi_close(d) PROVE TypeOK'
  BY <1>12 DEF spi_close, Forget, Close, TypeOK, Fds, NoFd, Devices
<1>13. ASSUME ProgramOpen PROVE TypeOK'
  BY <1>13 DEF ProgramOpen, Opens, LowestFree, TypeOK, Fds, NoFd, Devices
<1>14. ASSUME ProgramClose PROVE TypeOK'
  BY <1>14 DEF ProgramClose, Close, TypeOK, Fds, NoFd, Devices
<1>15. CASE UNCHANGED vars
  BY <1>15 DEF vars, TypeOK, Fds, NoFd, Devices
<1>16. QED BY <1>1, <1>2, <1>3, <1>4, <1>5, <1>6, <1>7, <1>8, <1>9, <1>10,
     <1>11, <1>12, <1>13, <1>14, <1>15 DEF Next

\* The variables always have their types.
THEOREM Typing == Spec => []TypeOK
<1>1. Init => TypeOK
  BY DevicesAssumption DEF Init, TypeOK, Fds, NoFd
<1> QED BY <1>1, TypeStep, PTL DEF Spec

-----------------------------------------------------------------------------
\* What the objects claim is theirs, and a new object starts without a number.
ClaimsOwn == \A e \in Devices :
  (Claims(e) => table[fd[e]] = e) /\ (e \notin made => fd[e] = NoFd)

\* No call takes a claimed file from an object, unless a number was kept.
LEMMA OwnStep ==
  ASSUME faults \cap {"close", "reject"} = {}, TypeOK, ClaimsOwn, [Next]_vars
  PROVE  ClaimsOwn'
<1> USE DevicesAssumption
<1>1. ASSUME NEW d \in Devices, Construct(d) PROVE ClaimsOwn'
  BY <1>1 DEF Construct, TypeOK, ClaimsOwn, Claims, Fds, NoFd, Devices
<1>2. ASSUME NEW d \in Spis, SpiBegin(d) PROVE ClaimsOwn'
  BY <1>2 DEF SpiBegin, Opens, LowestFree, TypeOK, ClaimsOwn, Claims, Fds,
       NoFd, Devices
<1>3. ASSUME NEW d \in Spis, SpiReject(d) PROVE ClaimsOwn'
  BY <1>3 DEF SpiReject, Owns, Close, TypeOK, ClaimsOwn, Claims, Fds, NoFd,
       Devices
<1>4. ASSUME NEW d \in Spis, SpiDestroy(d) PROVE ClaimsOwn'
  BY <1>4 DEF SpiDestroy, Forget, Close, TypeOK, ClaimsOwn, Claims, Fds, NoFd,
       Devices
<1>5. ASSUME NEW d \in Serials, SerialOpen(d) PROVE ClaimsOwn'
  BY <1>5 DEF SerialOpen, MayOpen, Owns, Opens, LowestFree, TypeOK, ClaimsOwn,
       Claims, Fds, NoFd, Devices
<1>6. ASSUME NEW d \in Serials, SerialClose(d) PROVE ClaimsOwn'
  BY <1>6 DEF SerialClose, Close, TypeOK, ClaimsOwn, Claims, Fds, NoFd, Devices
<1>7. ASSUME NEW d \in Serials, SerialSetFd(d) PROVE ClaimsOwn'
  BY <1>7 DEF SerialSetFd, MayOpen, Owns, TypeOK, ClaimsOwn, Claims, Fds, NoFd,
       Devices
<1>8. ASSUME NEW d \in Serials, SerialDestroy(d) PROVE ClaimsOwn'
  BY <1>8 DEF SerialDestroy, Forget, Close, TypeOK, ClaimsOwn, Claims, Fds,
       NoFd, Devices
<1>9. ASSUME NEW d \in Udps, UdpBegin(d) PROVE ClaimsOwn'
  BY <1>9 DEF UdpBegin, MayOpen, Owns, Opens, LowestFree, TypeOK, ClaimsOwn,
       Claims, Fds, NoFd, Devices
<1>10. ASSUME NEW d \in Udps, UdpDestroy(d) PROVE ClaimsOwn'
  BY <1>10 DEF UdpDestroy, Forget, Close, TypeOK, ClaimsOwn, Claims, Fds, NoFd,
       Devices
<1>11. ASSUME NEW d \in Handles, spi_open(d) PROVE ClaimsOwn'
  BY <1>11 DEF spi_open, MayOpen, Owns, Opens, LowestFree, TypeOK, ClaimsOwn,
       Claims, Fds, NoFd, Devices
<1>12. ASSUME NEW d \in Handles, spi_close(d) PROVE ClaimsOwn'
  BY <1>12 DEF spi_close, Forget, Close, TypeOK, ClaimsOwn, Claims, Fds, NoFd,
       Devices
<1>13. ASSUME ProgramOpen PROVE ClaimsOwn'
  BY <1>13 DEF ProgramOpen, Opens, LowestFree, TypeOK, ClaimsOwn, Claims, Fds,
       NoFd, Devices
<1>14. ASSUME ProgramClose PROVE ClaimsOwn'
  BY <1>14 DEF ProgramClose, Close, TypeOK, ClaimsOwn, Claims, Fds, NoFd,
       Devices
<1>15. CASE UNCHANGED vars
  BY <1>15 DEF vars, TypeOK, ClaimsOwn, Claims, Fds, NoFd, Devices
<1>16. QED BY <1>1, <1>2, <1>3, <1>4, <1>5, <1>6, <1>7, <1>8, <1>9, <1>10,
     <1>11, <1>12, <1>13, <1>14, <1>15 DEF Next

\* EachItsOwn is an invariant: an object that claims a number opened the file
\* behind it, as long as none keeps a number it closed.
THEOREM OwnersKeepTheirFiles == Spec => []EachItsOwn
<1> DEFINE Own == faults \cap {"close", "reject"} = {} => ClaimsOwn
<1>1. Init => Own
  BY DevicesAssumption DEF Init, ClaimsOwn, Claims
<1>2. TypeOK /\ Own /\ [Next]_vars => Own'
  <2> SUFFICES ASSUME TypeOK, Own, [Next]_vars, faults' \cap {"close", "reject"} = {}
               PROVE  ClaimsOwn'
    OBVIOUS
  <2>1. faults' = faults
    BY DEF Next, vars
  <2> QED BY <2>1, OwnStep
<1>3. Own => EachItsOwn
  BY DEF ClaimsOwn, EachItsOwn
<1> QED BY <1>1, <1>2, <1>3, Typing, PTL DEF Spec

-----------------------------------------------------------------------------
\* No call leaves a file of a SpiDevice without its object.
LEMMA SpiStep ==
  ASSUME TypeOK, SpiLosesNothing, [Next]_vars
  PROVE  SpiLosesNothing'
<1> USE DevicesAssumption
<1>1. ASSUME NEW d \in Devices, Construct(d) PROVE SpiLosesNothing'
  BY <1>1 DEF Construct, TypeOK, SpiLosesNothing, Lost, Claims, Fds, NoFd,
       Devices
<1>2. ASSUME NEW d \in Spis, SpiBegin(d) PROVE SpiLosesNothing'
  BY <1>2 DEF SpiBegin, Opens, LowestFree, TypeOK, SpiLosesNothing, Lost,
       Claims, Fds, NoFd, Devices
<1>3. ASSUME NEW d \in Spis, SpiReject(d) PROVE SpiLosesNothing'
  BY <1>3 DEF SpiReject, Owns, Close, TypeOK, SpiLosesNothing, Lost, Claims,
       Fds, NoFd, Devices
<1>4. ASSUME NEW d \in Spis, SpiDestroy(d) PROVE SpiLosesNothing'
  BY <1>4 DEF SpiDestroy, Forget, Close, TypeOK, SpiLosesNothing, Lost, Claims,
       Fds, NoFd, Devices
<1>5. ASSUME NEW d \in Serials, SerialOpen(d) PROVE SpiLosesNothing'
  BY <1>5 DEF SerialOpen, MayOpen, Owns, Opens, LowestFree, TypeOK,
       SpiLosesNothing, Lost, Claims, Fds, NoFd, Devices
<1>6. ASSUME NEW d \in Serials, SerialClose(d) PROVE SpiLosesNothing'
  BY <1>6 DEF SerialClose, Close, TypeOK, SpiLosesNothing, Lost, Claims, Fds,
       NoFd, Devices
<1>7. ASSUME NEW d \in Serials, SerialSetFd(d) PROVE SpiLosesNothing'
  BY <1>7 DEF SerialSetFd, MayOpen, Owns, TypeOK, SpiLosesNothing, Lost,
       Claims, Fds, NoFd, Devices
<1>8. ASSUME NEW d \in Serials, SerialDestroy(d) PROVE SpiLosesNothing'
  BY <1>8 DEF SerialDestroy, Forget, Close, TypeOK, SpiLosesNothing, Lost,
       Claims, Fds, NoFd, Devices
<1>9. ASSUME NEW d \in Udps, UdpBegin(d) PROVE SpiLosesNothing'
  BY <1>9 DEF UdpBegin, MayOpen, Owns, Opens, LowestFree, TypeOK,
       SpiLosesNothing, Lost, Claims, Fds, NoFd, Devices
<1>10. ASSUME NEW d \in Udps, UdpDestroy(d) PROVE SpiLosesNothing'
  BY <1>10 DEF UdpDestroy, Forget, Close, TypeOK, SpiLosesNothing, Lost,
       Claims, Fds, NoFd, Devices
<1>11. ASSUME NEW d \in Handles, spi_open(d) PROVE SpiLosesNothing'
  BY <1>11 DEF spi_open, MayOpen, Owns, Opens, LowestFree, TypeOK,
       SpiLosesNothing, Lost, Claims, Fds, NoFd, Devices
<1>12. ASSUME NEW d \in Handles, spi_close(d) PROVE SpiLosesNothing'
  BY <1>12 DEF spi_close, Forget, Close, TypeOK, SpiLosesNothing, Lost, Claims,
       Fds, NoFd, Devices
<1>13. ASSUME ProgramOpen PROVE SpiLosesNothing'
  BY <1>13 DEF ProgramOpen, Opens, LowestFree, TypeOK, SpiLosesNothing, Lost,
       Claims, Fds, NoFd, Devices
<1>14. ASSUME ProgramClose PROVE SpiLosesNothing'
  BY <1>14 DEF ProgramClose, Close, TypeOK, SpiLosesNothing, Lost, Claims, Fds,
       NoFd, Devices
<1>15. CASE UNCHANGED vars
  BY <1>15 DEF vars, TypeOK, SpiLosesNothing, Lost, Claims, Fds, NoFd, Devices
<1>16. QED BY <1>1, <1>2, <1>3, <1>4, <1>5, <1>6, <1>7, <1>8, <1>9, <1>10,
     <1>11, <1>12, <1>13, <1>14, <1>15 DEF Next

\* SpiLosesNothing is an invariant, under every fault.
THEOREM SpiKeepsTrack == Spec => []SpiLosesNothing
<1>1. Init => SpiLosesNothing
  BY DevicesAssumption DEF Init, SpiLosesNothing, Devices
<1> QED BY <1>1, SpiStep, Typing, PTL DEF Spec

-----------------------------------------------------------------------------
\* Descriptor 0 is the program's, and no object has its number.
ZeroIsTaken == table[0] = Program /\ \A e \in Devices : fd[e] # 0

\* An object has every file it opened.
NoneLost == \A f \in Fds : ~Lost(f)

\* No call loses a file when none of the three faults occurs.
LEMMA LossStep ==
  ASSUME faults \cap {"setup", "reopen", "stdin"} = {}, TypeOK, ZeroIsTaken,
       NoneLost, [Next]_vars
  PROVE  ZeroIsTaken' /\ NoneLost'
<1> USE DevicesAssumption
<1>1. ASSUME NEW d \in Devices, Construct(d) PROVE ZeroIsTaken' /\ NoneLost'
  BY <1>1 DEF Construct, TypeOK, ZeroIsTaken, NoneLost, Lost, Claims, Fds,
       NoFd, Devices
<1>2. ASSUME NEW d \in Spis, SpiBegin(d) PROVE ZeroIsTaken' /\ NoneLost'
  BY <1>2 DEF SpiBegin, Opens, LowestFree, TypeOK, ZeroIsTaken, NoneLost, Lost,
       Claims, Fds, NoFd, Devices
<1>3. ASSUME NEW d \in Spis, SpiReject(d) PROVE ZeroIsTaken' /\ NoneLost'
  BY <1>3 DEF SpiReject, Owns, Close, TypeOK, ZeroIsTaken, NoneLost, Lost,
       Claims, Fds, NoFd, Devices
<1>4. ASSUME NEW d \in Spis, SpiDestroy(d) PROVE ZeroIsTaken' /\ NoneLost'
  BY <1>4, SMTT(30) DEF SpiDestroy, Forget, Close, TypeOK, ZeroIsTaken, NoneLost, Lost,
       Claims, Fds, NoFd, Devices
<1>5. ASSUME NEW d \in Serials, SerialOpen(d) PROVE ZeroIsTaken' /\ NoneLost'
  BY <1>5 DEF SerialOpen, MayOpen, Owns, Opens, LowestFree, TypeOK,
       ZeroIsTaken, NoneLost, Lost, Claims, Fds, NoFd, Devices
<1>6. ASSUME NEW d \in Serials, SerialClose(d) PROVE ZeroIsTaken' /\ NoneLost'
  BY <1>6 DEF SerialClose, Close, TypeOK, ZeroIsTaken, NoneLost, Lost, Claims,
       Fds, NoFd, Devices
<1>7. ASSUME NEW d \in Serials, SerialSetFd(d) PROVE ZeroIsTaken' /\ NoneLost'
  BY <1>7 DEF SerialSetFd, MayOpen, Owns, TypeOK, ZeroIsTaken, NoneLost, Lost,
       Claims, Fds, NoFd, Devices
<1>8. ASSUME NEW d \in Serials, SerialDestroy(d) PROVE ZeroIsTaken' /\ NoneLost'
  BY <1>8 DEF SerialDestroy, Forget, Close, TypeOK, ZeroIsTaken, NoneLost,
       Lost, Claims, Fds, NoFd, Devices
<1>9. ASSUME NEW d \in Udps, UdpBegin(d) PROVE ZeroIsTaken' /\ NoneLost'
  BY <1>9 DEF UdpBegin, MayOpen, Owns, Opens, LowestFree, TypeOK, ZeroIsTaken,
       NoneLost, Lost, Claims, Fds, NoFd, Devices
<1>10. ASSUME NEW d \in Udps, UdpDestroy(d) PROVE ZeroIsTaken' /\ NoneLost'
  BY <1>10 DEF UdpDestroy, Forget, Close, TypeOK, ZeroIsTaken, NoneLost, Lost,
       Claims, Fds, NoFd, Devices
<1>11. ASSUME NEW d \in Handles, spi_open(d) PROVE ZeroIsTaken' /\ NoneLost'
  BY <1>11 DEF spi_open, MayOpen, Owns, Opens, LowestFree, TypeOK, ZeroIsTaken,
       NoneLost, Lost, Claims, Fds, NoFd, Devices
<1>12. ASSUME NEW d \in Handles, spi_close(d) PROVE ZeroIsTaken' /\ NoneLost'
  BY <1>12 DEF spi_close, Forget, Close, TypeOK, ZeroIsTaken, NoneLost, Lost,
       Claims, Fds, NoFd, Devices
<1>13. ASSUME ProgramOpen PROVE ZeroIsTaken' /\ NoneLost'
  BY <1>13 DEF ProgramOpen, Opens, LowestFree, TypeOK, ZeroIsTaken, NoneLost,
       Lost, Claims, Fds, NoFd, Devices
<1>14. ASSUME ProgramClose PROVE ZeroIsTaken' /\ NoneLost'
  BY <1>14 DEF ProgramClose, Close, TypeOK, ZeroIsTaken, NoneLost, Lost,
       Claims, Fds, NoFd, Devices
<1>15. CASE UNCHANGED vars
  BY <1>15 DEF vars, TypeOK, ZeroIsTaken, NoneLost, Lost, Claims, Fds, NoFd,
       Devices
<1>16. QED BY <1>1, <1>2, <1>3, <1>4, <1>5, <1>6, <1>7, <1>8, <1>9, <1>10,
     <1>11, <1>12, <1>13, <1>14, <1>15 DEF Next

\* NothingIsLost is an invariant: without a failing setup step, a second open
\* and a closed descriptor 0, every file is closed by the object that opened it.
THEOREM FilesAreClosed == Spec => []NothingIsLost
<1> DEFINE None == faults \cap {"setup", "reopen", "stdin"} = {}
           Kept == None => ZeroIsTaken /\ NoneLost
<1>1. Init => Kept
  BY DevicesAssumption DEF Init, ZeroIsTaken, NoneLost, Lost, Fds, NoFd
<1>2. TypeOK /\ Kept /\ [Next]_vars => Kept'
  <2> SUFFICES ASSUME TypeOK, Kept, [Next]_vars, None'
               PROVE  ZeroIsTaken' /\ NoneLost'
    OBVIOUS
  <2>1. faults' = faults
    BY DEF Next, vars
  <2> QED BY <2>1, LossStep
<1>3. Kept => NothingIsLost
  BY DEF NoneLost, NothingIsLost
<1> QED BY <1>1, <1>2, <1>3, Typing, PTL DEF Spec

-----------------------------------------------------------------------------
\* The RS-485 line.

Quotient == ByteTime \div baud + 1

\* The lengths of buffers are natural numbers.
LEMMA LensAreNat == \A n \in Lens \cup {0} : n \in Nat
  BY CallsAssumption

\* The ticks of a byte, rounded up, are enough for it.
LEMMA QuotientCovers == Quotient \in Nat /\ ByteTime <= Quotient * baud
  BY RateAssumption, Z3 DEF Quotient

\* The sleep is long enough for the bytes it is computed for.
LEMMA SleepCovers ==
  ASSUME NEW n \in Nat, NEW m \in 0 .. n, n * Quotient < UMod
  PROVE  /\ SleepTime(n) \in Nat
         /\ m * ByteTime <= SleepTime(n) * baud
<1> USE RateAssumption
<1>1. Quotient \in Nat /\ ByteTime <= Quotient * baud
  BY QuotientCovers
<1>2. n * Quotient \in Nat /\ SleepTime(n) = n * Quotient
  <2>1. n * Quotient \in Nat
    BY <1>1
  <2>2. (n * Quotient) % UMod = n * Quotient
    BY <2>1
  <2> QED BY <2>1, <2>2 DEF SleepTime, Quotient
<1> HIDE DEF Quotient
<1>3. m * ByteTime <= n * ByteTime
  BY Z3
<1>4. n * ByteTime <= n * (Quotient * baud)
  BY <1>1, Z3
<1>5. n * (Quotient * baud) = (n * Quotient) * baud
  BY <1>1, Z3
<1> QED BY <1>2, <1>3, <1>4, <1>5, <1>1, Z3

\* A tick that leaves work leaves as much of the sleep as the work needs.
LEMMA TickCovers ==
  ASSUME NEW w \in Nat, NEW l \in Nat, w <= l * baud, Less(w, baud) > 0
  PROVE  Less(w, baud) <= Less(l, 1) * baud
<1> USE RateAssumption
<1>1. w > baud /\ Less(w, baud) = w - baud
  BY DEF Less
<1>2. CASE l = 0
  BY <1>1, <1>2
<1>3. CASE l # 0
  <2>1. Less(l, 1) = l - 1
    BY <1>3 DEF Less
  <2>2. (l - 1) * baud = l * baud - baud
    BY <1>3, Z3
  <2> QED BY <1>1, <2>1, <2>2
<1> QED BY <1>2, <1>3

\* Every step keeps the types.
LEMMA LineTypeStep == LineTypeOK /\ [LineNext]_lineVars => LineTypeOK'
<1> SUFFICES ASSUME LineTypeOK, [LineNext]_lineVars PROVE LineTypeOK'
  OBVIOUS
<1>0. use' = use
  BY DEF LineNext, lineVars
<1> USE RateAssumption, CallsAssumption, <1>0 DEF LineTypeOK
<1>1. \A n \in Lens \cup {0} : SleepTime(n) \in Nat
  <2> SUFFICES ASSUME NEW n \in Lens \cup {0} PROVE SleepTime(n) \in Nat
    OBVIOUS
  <2>1. n \in Nat /\ ByteTime \div baud + 1 \in Nat
    OBVIOUS
  <2>2. n * (ByteTime \div baud + 1) \in Nat
    BY <2>1
  <2> QED BY <2>2 DEF SleepTime
<1>2. ASSUME NEW t \in Threads, NEW n \in Lens, Drive(t, n) PROVE LineTypeOK'
  BY <1>2 DEF Drive, Goto
<1>3. ASSUME NEW t \in Threads, Write(t) PROVE LineTypeOK'
  <2>1. PICK n \in 0 .. len[t] :
          work' = [work EXCEPT ![PortOf[t]] = work[PortOf[t]] + n * ByteTime]
    BY <1>3 DEF Write
  <2>2. n * ByteTime \in Nat /\ PortOf[t] \in Ports /\ work[PortOf[t]] \in Nat
    OBVIOUS
  <2>3. work' \in [Ports -> Nat]
    <3>1. work[PortOf[t]] + n * ByteTime \in Nat
      BY <2>2
    <3> QED BY <2>1, <3>1
  <2>4. left' \in [Threads -> Nat]
    BY <1>1, <1>3 DEF Write
  <2> QED BY <1>3, <2>3, <2>4 DEF Write, Goto
<1>4. ASSUME NEW t \in Threads, Reset(t) PROVE LineTypeOK'
  BY <1>4 DEF Reset, Goto
<1>5. ASSUME NEW t \in Threads, serialOpen(t) PROVE LineTypeOK'
  BY <1>5 DEF serialOpen
<1>6. ASSUME NEW t \in Threads, NEW n \in Lens, serialPuts(t, n) PROVE LineTypeOK'
  <2>1. n * ByteTime \in Nat
    OBVIOUS
  <2> QED BY <1>6, <2>1 DEF serialPuts
<1>7. ASSUME Tick PROVE LineTypeOK'
  BY <1>7 DEF Tick, Less
<1>8. CASE UNCHANGED lineVars
  BY <1>8 DEF lineVars
<1> QED BY <1>2, <1>3, <1>4, <1>5, <1>6, <1>7, <1>8 DEF LineNext

\* The variables always have their types.
THEOREM LineTyping == LineSpec => []LineTypeOK
<1>1. LineInit => LineTypeOK
  BY DEF LineInit, LineTypeOK
<1> QED BY <1>1, LineTypeStep, PTL DEF LineSpec

-----------------------------------------------------------------------------
\* ReleasedAtRest is an invariant: whatever overlaps, the last to leave
\* serialWrite resets the pin.
THEOREM BusIsReleased == LineSpec => []ReleasedAtRest
<1>1. LineInit => ReleasedAtRest
  BY DEF LineInit, ReleasedAtRest
<1>2. LineTypeOK /\ ReleasedAtRest /\ [LineNext]_lineVars => ReleasedAtRest'
  <2> SUFFICES ASSUME LineTypeOK, ReleasedAtRest, [LineNext]_lineVars PROVE ReleasedAtRest'
    OBVIOUS
  <2> USE DEF ReleasedAtRest, LineTypeOK
  <2>1. ASSUME NEW t \in Threads, NEW n \in Lens, Drive(t, n) PROVE ReleasedAtRest'
    BY <2>1 DEF Drive, Goto
  <2>2. ASSUME NEW t \in Threads, Write(t) PROVE ReleasedAtRest'
    BY <2>2 DEF Write, Goto
  <2>3. ASSUME NEW t \in Threads, Reset(t) PROVE ReleasedAtRest'
    BY <2>3 DEF Reset
  <2>4. ASSUME NEW t \in Threads, serialOpen(t) PROVE ReleasedAtRest'
    BY <2>4 DEF serialOpen
  <2>5. ASSUME NEW t \in Threads, NEW n \in Lens, serialPuts(t, n) PROVE ReleasedAtRest'
    BY <2>5 DEF serialPuts
  <2>6. ASSUME Tick PROVE ReleasedAtRest'
    BY <2>6 DEF Tick
  <2>7. CASE UNCHANGED lineVars
    BY <2>7 DEF lineVars
  <2> QED BY <2>1, <2>2, <2>3, <2>4, <2>5, <2>6, <2>7 DEF LineNext
<1> QED BY <1>1, <1>2, LineTyping, PTL DEF LineSpec

-----------------------------------------------------------------------------
\* What the theorem is about: one call at a time, of serialWrite only.
Disciplined == use.exclusive /\ ~use.anyWrite

\* At most one thread is in serialWrite, and the pin is HIGH while it is.
Alone == \A t, u \in Threads : pc[t] # "idle" /\ pc[u] # "idle" => t = u
Driven == \A t \in Threads : pc[t] # "idle" => pin = "HIGH"

\* A port that transmits has a writer that sleeps long enough.
Covered == \A p \in Ports : work[p] > 0 =>
             \E t \in Threads : /\ PortOf[t] = p /\ pc[t] = "sleep"
                                /\ work[p] <= left[t] * baud

Safe == Alone /\ Driven /\ Covered

\* No step of a program with one thread at a time and serialWrite only ends it.
LEMMA SafeStep ==
  ASSUME Disciplined, NoWrap, LineTypeOK, Safe, [LineNext]_lineVars
  PROVE  Safe'
<1> USE RateAssumption, CallsAssumption DEF LineTypeOK, Safe, Disciplined
<1>1. ASSUME NEW t \in Threads, NEW n \in Lens, Drive(t, n) PROVE Safe'
  <2>1. \A p \in Ports : ~(work[p] > 0)
    BY <1>1 DEF Drive, MayCall, Covered
  <2> QED BY <1>1, <2>1 DEF Drive, MayCall, Goto, Alone, Driven, Covered
<1>2. ASSUME NEW t \in Threads, Write(t) PROVE Safe'
  <2>1. pc[t] = "driven" /\ \A u \in Threads : pc[u] # "idle" => u = t
    BY <1>2 DEF Write, Alone
  <2>2. \A p \in Ports : work[p] = 0
    BY <2>1 DEF Covered
  <2>3. PICK m \in 0 .. len[t] :
          work' = [work EXCEPT ![PortOf[t]] = work[PortOf[t]] + m * ByteTime]
    BY <1>2 DEF Write
  <2>4. left'[t] = SleepTime(len[t]) /\ pc' = [pc EXCEPT ![t] = "sleep"] /\ pin' = pin
    BY <1>2 DEF Write, Goto
  <2>5. m * ByteTime <= left'[t] * baud
    <3>1. len[t] \in Lens \cup {0} /\ len[t] \in Nat /\ Quotient \in Nat
      <4>1. len \in [Threads -> Lens \cup {0}]
        OBVIOUS
      <4>2. len[t] \in Lens \cup {0}
        BY <4>1
      <4>3. len[t] \in Nat
        BY <4>2, LensAreNat
      <4> QED BY <4>2, <4>3, QuotientCovers
    <3>2. len[t] * Quotient < UMod
      <4>1. CASE len[t] = 0
        BY <3>1, <4>1
      <4>2. CASE len[t] \in Lens
        BY <4>2 DEF NoWrap, Quotient
      <4> QED BY <3>1, <4>1, <4>2
    <3> QED BY <2>4, <3>1, <3>2, SleepCovers
  <2>6. m * ByteTime \in Nat /\ PortOf[t] \in Ports
    OBVIOUS
  <2>7. work'[PortOf[t]] = m * ByteTime /\ \A p \in Ports \ {PortOf[t]} : work'[p] = 0
    BY <2>2, <2>3, <2>6
  <2>8. Covered'
    BY <2>4, <2>5, <2>7 DEF Covered
  <2>9. Alone' /\ Driven'
    BY <2>1, <2>4 DEF Alone, Driven
  <2> QED BY <2>8, <2>9
<1>3. ASSUME NEW t \in Threads, Reset(t) PROVE Safe'
  <2>1. \A u \in Threads : pc[u] # "idle" => u = t
    BY <1>3 DEF Reset, Alone
  <2>2. \A p \in Ports : ~(work[p] > 0)
    <3>1. left[t] * baud = 0
      BY <1>3 DEF Reset
    <3> QED BY <2>1, <3>1 DEF Covered
  <2> QED BY <1>3, <2>1, <2>2 DEF Reset, Goto, Alone, Driven, Covered
<1>4. ASSUME NEW t \in Threads, serialOpen(t) PROVE Safe'
  BY <1>4 DEF serialOpen, MayCall, Alone, Driven, Covered
<1>5. ASSUME NEW t \in Threads, NEW n \in Lens, serialPuts(t, n) PROVE Safe'
  BY <1>5 DEF serialPuts
<1>6. ASSUME Tick PROVE Safe'
  <2>1. Alone' /\ Driven'
    BY <1>6 DEF Tick, Alone, Driven
  <2>2. ASSUME NEW p \in Ports, work'[p] > 0
        PROVE  \E t \in Threads : /\ PortOf[t] = p /\ pc'[t] = "sleep"
                                  /\ work'[p] <= left'[t] * baud
    <3>1. work'[p] = Less(work[p], baud) /\ work[p] \in Nat
      BY <1>6 DEF Tick
    <3>2. work[p] > 0
      BY <2>2, <3>1 DEF Less
    <3>3. PICK t \in Threads : PortOf[t] = p /\ pc[t] = "sleep" /\ work[p] <= left[t] * baud
      BY <3>2 DEF Covered
    <3>4. left'[t] = Less(left[t], 1) /\ left[t] \in Nat /\ pc' = pc
      BY <1>6 DEF Tick
    <3>5. work'[p] <= left'[t] * baud
      BY <2>2, <3>1, <3>3, <3>4, TickCovers
    <3> QED BY <3>3, <3>4, <3>5
  <2> QED BY <2>1, <2>2 DEF Covered
<1>7. CASE UNCHANGED lineVars
  BY <1>7 DEF lineVars, Alone, Driven, Covered
<1> QED BY <1>1, <1>2, <1>3, <1>4, <1>5, <1>6, <1>7 DEF LineNext

\* DrivenWhileSending is an invariant when no sleep wraps.
THEOREM NoByteIsCutOff == NoWrap => (LineSpec => []DrivenWhileSending)
<1> SUFFICES ASSUME NoWrap PROVE LineSpec => []DrivenWhileSending
  OBVIOUS
<1> DEFINE SafeThen == Disciplined => Safe
<1>1. LineInit => SafeThen
  BY DEF LineInit, Safe, Alone, Driven, Covered
<1>2. LineTypeOK /\ SafeThen /\ [LineNext]_lineVars => SafeThen'
  <2> SUFFICES ASSUME LineTypeOK, SafeThen, [LineNext]_lineVars, Disciplined' PROVE Safe'
    OBVIOUS
  <2>1. use' = use
    BY DEF LineNext, lineVars
  <2>2. Disciplined
    BY <2>1 DEF Disciplined
  <2> QED BY <2>2, SafeStep
<1>3. LineTypeOK /\ SafeThen => DrivenWhileSending
  BY DEF Safe, Driven, Covered, DrivenWhileSending, Disciplined, LineTypeOK
<1> QED BY <1>1, <1>2, <1>3, LineTyping, PTL DEF LineSpec

-----------------------------------------------------------------------------
\* The SPI settings.

Asked == {c.mode : c \in Configs} \cup Modes

WriteMode == <<"WR", "mode">>

Ioctls == {"WR", "RD"} \X Fields

\* The domains of the functions; which values they have is not needed.
Shapes ==
    /\ "mode" \in DOMAIN hw
    /\ DOMAIN cfg = Users /\ \A u \in Users : "mode" \in DOMAIN cfg[u]
    /\ DOMAIN m_open = Objects /\ DOMAIN file = Users /\ DOMAIN job = Users
    /\ todo \in [Users -> Seq(Ioctls)]

\* The mode is written first or not at all.
ModeIsFirst == \A u \in Users : \A i \in 2..Len(todo[u]) : todo[u][i] # WriteMode

\* Who is about to write the mode writes one that was asked for.
WritesAskedFor ==
    \A u \in Users : todo[u] # <<>> /\ todo[u][1] = WriteMode => Value(u, "mode") \in Asked

\* An object that is not open has a descriptor only while begin runs.
OpenIsOpen == \A o \in Objects : ~m_open[o] /\ file[o] = "open" => job[o].fn = "begin"

\* The copy of an object that is not open has a mode that was asked for.
ClosedIsClean == \A o \in Objects : ~m_open[o] => cfg[o].mode \in Asked

ModeInv == /\ Shapes /\ ModeIsFirst /\ WritesAskedFor /\ OpenIsOpen /\ ClosedIsClean
           /\ hw.mode \in Asked

-----------------------------------------------------------------------------
\* Every configuration has a mode, one that was asked for.
LEMMA ConfigsHaveModes ==
    \A c \in Configs : /\ "mode" \in DOMAIN c /\ "speed" \in DOMAIN c /\ c.mode \in Asked
<1> TAKE c \in Configs
<1>1. c \in [mode : Nat, bits : Nat, speed : Nat]
  BY SettingsAssumption DEF SettingsAssumption
<1>2. DOMAIN c = {"mode", "bits", "speed"}
  BY <1>1
<1> QED BY <1>2 DEF Asked

\* The lists of ioctls have the mode first or not at all.
LEMMA ListsHaveModeFirst ==
    /\ AllSettings \in Seq(Ioctls)
    /\ \A i \in 2..Len(AllSettings) : AllSettings[i] # WriteMode
    /\ \A f \in Fields : /\ WriteThenRead(f) \in Seq(Ioctls)
                         /\ Len(WriteThenRead(f)) = 2
                         /\ WriteThenRead(f)[1] = <<"WR", f>>
                         /\ WriteThenRead(f)[2] = <<"RD", f>>
<1>1. \A f \in Fields : /\ WriteThenRead(f) \in Seq(Ioctls)
                        /\ Len(WriteThenRead(f)) = 2
                        /\ WriteThenRead(f)[1] = <<"WR", f>>
                        /\ WriteThenRead(f)[2] = <<"RD", f>>
  BY DEF WriteThenRead, Ioctls
<1> DEFINE m == WriteThenRead("mode")
           b == WriteThenRead("bits")
           s == WriteThenRead("speed")
<1>2. /\ m \in Seq(Ioctls) /\ Len(m) = 2 /\ m[1] = <<"WR", "mode">> /\ m[2] = <<"RD", "mode">>
      /\ b \in Seq(Ioctls) /\ Len(b) = 2 /\ b[1] = <<"WR", "bits">> /\ b[2] = <<"RD", "bits">>
      /\ s \in Seq(Ioctls) /\ Len(s) = 2 /\ s[1] = <<"WR", "speed">> /\ s[2] = <<"RD", "speed">>
  BY <1>1 DEF Fields
<1>3. AllSettings = (m \o b) \o s
  BY DEF AllSettings
<1> HIDE DEF m, b, s
<1>4. m \o b \in Seq(Ioctls) /\ Len(m \o b) = 4
      /\ \A i \in 1..4 : (m \o b)[i] = IF i <= 2 THEN m[i] ELSE b[i - 2]
  <2>1. m \in Seq(Ioctls) /\ b \in Seq(Ioctls) /\ Len(m) = 2 /\ Len(b) = 2
    BY <1>2
  <2>2. /\ m \o b \in Seq(Ioctls) /\ Len(m \o b) = Len(m) + Len(b)
        /\ \A i \in 1..Len(m) + Len(b) :
              (m \o b)[i] = IF i <= Len(m) THEN m[i] ELSE b[i - Len(m)]
    BY <2>1, ConcatProperties, Zenon
  <2> QED BY <2>1, <2>2
<1>5. (m \o b) \o s \in Seq(Ioctls) /\ Len((m \o b) \o s) = 6
      /\ \A i \in 1..6 : ((m \o b) \o s)[i] = IF i <= 4 THEN (m \o b)[i] ELSE s[i - 4]
  BY <1>2, <1>4, ConcatProperties
<1>6. ASSUME NEW i \in 2..6 PROVE ((m \o b) \o s)[i] # WriteMode
  <2>1. i \in {2, 3, 4, 5, 6}
    OBVIOUS
  <2>2. ((m \o b) \o s)[i] \in {m[2], b[1], b[2], s[1], s[2]}
    BY <1>4, <1>5, <2>1, SMTT(30)
  <2> QED BY <1>2, <2>2 DEF WriteMode
<1> QED BY <1>1, <1>3, <1>5, <1>6

\* The first ioctl of a list that is not empty, and the others.
LEMMA TodoSteps ==
    ASSUME NEW s \in Seq(Ioctls), s # <<>>, \A i \in 2..Len(s) : s[i] # WriteMode
    PROVE  /\ s[1] \in Ioctls
           /\ Tail(s) \in Seq(Ioctls)
           /\ \A i \in 1..Len(Tail(s)) : Tail(s)[i] # WriteMode
<1>1. Len(s) \in Nat \ {0} /\ s[1] \in Ioctls
  OBVIOUS
<1>2. Len(Tail(s)) = Len(s) - 1 /\ \A i \in 1..Len(Tail(s)) : Tail(s)[i] = s[i + 1]
  OBVIOUS
<1> QED BY <1>1, <1>2

-----------------------------------------------------------------------------
\* A call that begins with a list of ioctls, and a copy that is unchanged or that
\* of the caller alone, keeps the parts of the invariant about lists, if the list
\* has the mode first with a mode that was asked for, or not at all.
LEMMA BeginsKeeps ==
    ASSUME ModeInv, NEW u \in Users, NEW fn, NEW arg, NEW ioctls \in Seq(Ioctls),
           Begins(u, fn, arg, ioctls),
           \A i \in 2..Len(ioctls) : ioctls[i] # WriteMode,
           \A v \in Users \ {u} : cfg'[v] = cfg[v],
           ioctls # <<>> /\ ioctls[1] = WriteMode =>
              IF fn \in Fields THEN arg \in Asked ELSE cfg'[u]["mode"] \in Asked
    PROVE  ModeIsFirst' /\ WritesAskedFor' /\ DOMAIN job' = Users
           /\ todo' \in [Users -> Seq(Ioctls)]
<1> USE DEF ModeInv, Shapes, Begins
<1>1. todo' \in [Users -> Seq(Ioctls)] /\ DOMAIN job' = Users
  OBVIOUS
<1>2. todo'[u] = ioctls /\ job'[u] = [fn |-> fn, arg |-> arg]
      /\ \A v \in Users \ {u} : todo'[v] = todo[v] /\ job'[v] = job[v]
  OBVIOUS
<1>3. ModeIsFirst'
  BY <1>2 DEF ModeIsFirst
<1>4. WritesAskedFor'
  <2> SUFFICES ASSUME NEW v \in Users, todo'[v] # <<>>, todo'[v][1] = WriteMode
               PROVE  Value(v, "mode")' \in Asked
    BY DEF WritesAskedFor, Asked
  <2>1. CASE v = u
    BY <1>2, <2>1 DEF Value, IsSetter
  <2>2. CASE v # u
    BY <1>2, <2>2 DEF Value, IsSetter, WritesAskedFor
  <2> QED BY <2>1, <2>2
<1> QED BY <1>1, <1>3, <1>4

\* begin, which starts on an object that is not open.
LEMMA BeginKeeps == ASSUME ModeInv, NEW o \in Objects, Begin(o) PROVE ModeInv'
<1>1. o \in Users /\ "begin" \notin Fields
  BY DEF Users, Fields
<1>2. cfg[o]["mode"] \in Asked /\ UNCHANGED <<hw, cfg, m_open>>
  BY DEF Begin, ModeInv, ClosedIsClean
<1>3. /\ ModeIsFirst' /\ WritesAskedFor' /\ DOMAIN job' = Users
      /\ todo' \in [Users -> Seq(Ioctls)]
  BY <1>1, <1>2, ListsHaveModeFirst, BeginsKeeps DEF Begin
<1>4. OpenIsOpen'
  BY <1>1 DEF Begin, Begins, OpenIsOpen, ModeInv, Shapes
<1> QED BY <1>2, <1>3, <1>4 DEF Begin, ModeInv, Shapes, ClosedIsClean, Asked

\* spi_open and spidev_test, with a configuration of their own.
LEMMA SpiOpenKeeps == ASSUME ModeInv, NEW t \in Tools, SpiOpen(t) PROVE ModeInv'
<1>1. t \in Users /\ t \notin Objects /\ "spi_open" \notin Fields
  BY SettingsAssumption DEF SettingsAssumption, Users, Fields
<1>2. PICK c \in Configs : cfg' = [cfg EXCEPT ![t] = c]
  BY DEF SpiOpen
<1>3. /\ DOMAIN cfg' = Users /\ cfg'[t] = c
      /\ \A v \in Users \ {t} : cfg'[v] = cfg[v]
  BY <1>1, <1>2 DEF ModeInv, Shapes
<1>4. cfg'[t]["mode"] \in Asked /\ "mode" \in DOMAIN c
  BY <1>3, ConfigsHaveModes
<1>5. /\ ModeIsFirst' /\ WritesAskedFor' /\ DOMAIN job' = Users
      /\ todo' \in [Users -> Seq(Ioctls)]
  BY <1>1, <1>3, <1>4, ListsHaveModeFirst, BeginsKeeps DEF SpiOpen
<1>6. OpenIsOpen'
  BY <1>1 DEF SpiOpen, Begins, OpenIsOpen, ModeInv, Shapes
<1>7. ClosedIsClean'
  <2>1. \A o \in Objects : o \in Users \ {t}
    BY <1>1 DEF Users
  <2> QED BY <1>3, <2>1 DEF SpiOpen, ClosedIsClean, ModeInv, Asked
<1> QED BY <1>3, <1>4, <1>5, <1>6, <1>7 DEF SpiOpen, ModeInv, Shapes, Asked

\* setConfig, on an object that is open or not.
LEMMA SetConfigKeeps ==
    ASSUME ModeInv, NEW o \in Objects, NEW c \in Configs, SetConfig(o, c) PROVE ModeInv'
<1>1. o \in Users /\ "setConfig" \notin Fields
  BY DEF Users, Fields
<1>2. /\ cfg' = [cfg EXCEPT ![o] = c] /\ DOMAIN cfg' = Users /\ cfg'[o] = c
      /\ \A v \in Users \ {o} : cfg'[v] = cfg[v]
      /\ UNCHANGED <<hw, m_open, file>>
  BY <1>1 DEF ModeInv, Shapes, SetConfig
<1>3. cfg'[o]["mode"] \in Asked /\ "mode" \in DOMAIN c
  BY <1>2, ConfigsHaveModes
<1>4. ClosedIsClean'
  <2>1. \A u \in Objects : u \in Users
    BY DEF Users
  <2> QED BY <1>2, <1>3, <2>1 DEF ClosedIsClean, ModeInv, Asked
<1>5. CASE m_open[o]
  <2>1. /\ ModeIsFirst' /\ WritesAskedFor' /\ DOMAIN job' = Users
        /\ todo' \in [Users -> Seq(Ioctls)]
    BY <1>1, <1>2, <1>3, <1>5, ListsHaveModeFirst, BeginsKeeps DEF SetConfig
  <2>2. \A v \in Users \ {o} : job'[v] = job[v]
    BY <1>1, <1>5 DEF SetConfig, Begins, ModeInv, Shapes
  <2>3. \A u \in Objects : u # o => job'[u] = job[u]
    BY <2>2 DEF Users
  <2>4. OpenIsOpen'
    BY <1>2, <1>5, <2>3, Zenon DEF OpenIsOpen, ModeInv
  <2> QED BY <1>2, <1>3, <1>4, <2>1, <2>4 DEF ModeInv, Shapes, Asked
<1>6. CASE ~m_open[o]
  <2>1. UNCHANGED <<job, todo>>
    BY <1>6 DEF SetConfig
  <2>2. WritesAskedFor'
    <3> SUFFICES ASSUME NEW v \in Users, todo'[v] # <<>>, todo'[v][1] = WriteMode
                 PROVE  Value(v, "mode")' \in Asked
      BY DEF WritesAskedFor, Asked
    <3> QED BY <1>2, <1>3, <2>1 DEF ModeInv, WritesAskedFor, Value, IsSetter
  <2>3. ModeIsFirst' /\ OpenIsOpen'
    BY <1>2, <2>1 DEF ModeInv, ModeIsFirst, OpenIsOpen
  <2> QED BY <1>2, <1>3, <1>4, <2>1, <2>2, <2>3 DEF ModeInv, Shapes, Asked
<1> QED BY <1>5, <1>6

\* The three setters, which leave the copy to the ioctls.
LEMMA SettersKeep ==
    ASSUME ModeInv, NEW o \in Objects, NEW v,
           \/ SetMode(o, v) /\ v \in Modes
           \/ SetBitPerWord(o, v)
           \/ SetSpeed(o, v)
    PROVE  ModeInv'
<1>1. PICK f \in Fields : /\ Begins(o, f, v, WriteThenRead(f))
                          /\ f = "mode" => v \in Modes
  BY DEF SetMode, SetBitPerWord, SetSpeed, Fields
<1>2. o \in Users /\ UNCHANGED <<hw, cfg, m_open, file>>
  BY DEF SetMode, SetBitPerWord, SetSpeed, Users
<1>3. /\ ModeIsFirst' /\ WritesAskedFor' /\ DOMAIN job' = Users
      /\ todo' \in [Users -> Seq(Ioctls)]
  <2>1. \A i \in 2..Len(WriteThenRead(f)) : WriteThenRead(f)[i] # WriteMode
    BY ListsHaveModeFirst DEF WriteMode
  <2>2. WriteThenRead(f)[1] = WriteMode => v \in Asked
    BY <1>1, ListsHaveModeFirst DEF WriteMode, Asked
  <2> QED BY <1>1, <1>2, <2>1, <2>2, ListsHaveModeFirst, BeginsKeeps
<1>4. OpenIsOpen'
  BY <1>1, <1>2 DEF Begins, NoJob, OpenIsOpen, ModeInv, Shapes
<1> QED BY <1>2, <1>3, <1>4 DEF ModeInv, Shapes, ClosedIsClean, Asked

-----------------------------------------------------------------------------
\* An ioctl that is made leaves the caller none that writes the mode.
LEMMA IoctlMade ==
    ASSUME ModeInv, NEW u \in Users, todo[u] # <<>>, todo' = [todo EXCEPT ![u] = Tail(@)]
    PROVE  /\ todo' \in [Users -> Seq(Ioctls)] /\ ModeIsFirst'
           /\ todo[u][1] \in Ioctls
           /\ \A v \in Users : todo'[v] # <<>> /\ todo'[v][1] = WriteMode =>
                 v # u /\ todo'[v] = todo[v]
<1>1. todo[u] \in Seq(Ioctls) /\ \A i \in 2..Len(todo[u]) : todo[u][i] # WriteMode
  BY DEF ModeInv, Shapes, ModeIsFirst
<1>2. /\ todo[u][1] \in Ioctls
      /\ Tail(todo[u]) \in Seq(Ioctls)
      /\ \A i \in 1..Len(Tail(todo[u])) : Tail(todo[u])[i] # WriteMode
  BY <1>1, TodoSteps
<1>3. /\ todo'[u] = Tail(todo[u]) /\ todo' \in [Users -> Seq(Ioctls)]
      /\ \A v \in Users \ {u} : todo'[v] = todo[v]
  BY <1>2 DEF ModeInv, Shapes
<1>4. ModeIsFirst'
  BY <1>2, <1>3 DEF ModeInv, ModeIsFirst
<1>5. todo'[u] # <<>> => 1 \in 1..Len(todo'[u])
  BY <1>2, <1>3
<1> QED BY <1>2, <1>3, <1>4, <1>5

\* An ioctl that writes.
LEMMA WriteKeeps == ASSUME ModeInv, NEW u \in Users, WriteSetting(u) PROVE ModeInv'
<1> DEFINE f == todo[u][1][2]
<1>1. /\ todo' \in [Users -> Seq(Ioctls)] /\ ModeIsFirst'
      /\ todo[u][1] \in Ioctls
      /\ \A v \in Users : todo'[v] # <<>> /\ todo'[v][1] = WriteMode =>
            v # u /\ todo'[v] = todo[v]
  BY IoctlMade DEF WriteSetting
<1>2. /\ todo[u] # <<>> /\ todo[u][1][1] = "WR"
      /\ hw' = [hw EXCEPT ![f] = Taken(f, Value(u, f))]
      /\ UNCHANGED <<cfg, m_open, file, job>>
  BY DEF WriteSetting
<1>3. hw'["mode"] \in Asked /\ "mode" \in DOMAIN hw'
  <2>1. CASE f = "mode"
    <3>1. todo[u][1] = WriteMode
      BY <1>1, <1>2, <2>1 DEF Ioctls, WriteMode
    <3>2. Value(u, "mode") \in Asked
      BY <1>2, <3>1 DEF ModeInv, WritesAskedFor
    <3> QED BY <1>2, <2>1, <3>2 DEF ModeInv, Shapes, Taken
  <2>2. CASE f # "mode"
    BY <1>2, <2>2 DEF ModeInv, Shapes
  <2> QED BY <2>1, <2>2
<1>4. WritesAskedFor'
  BY <1>1, <1>2 DEF ModeInv, WritesAskedFor, Value, IsSetter, Asked
<1> QED BY <1>1, <1>2, <1>3, <1>4
        DEF ModeInv, Shapes, OpenIsOpen, ClosedIsClean, Asked

\* An ioctl that reads: where it stores a speed as a mode the object is open.
LEMMA ReadKeeps == ASSUME ModeInv, NEW u \in Users, ReadSetting(u) PROVE ModeInv'
<1> DEFINE f == todo[u][1][2]
<1>1. /\ todo' \in [Users -> Seq(Ioctls)] /\ ModeIsFirst'
      /\ \A v \in Users : todo'[v] # <<>> /\ todo'[v][1] = WriteMode =>
            v # u /\ todo'[v] = todo[v]
  BY IoctlMade DEF ReadSetting
<1>2. /\ file[u] = "open" /\ cfg' = [cfg EXCEPT ![u] = Store(u, f)]
      /\ UNCHANGED <<hw, m_open, file, job>>
  BY DEF ReadSetting
<1>3. /\ cfg'[u] = Store(u, f) /\ DOMAIN cfg' = Users
      /\ \A v \in Users \ {u} : cfg'[v] = cfg[v]
  BY <1>2 DEF ModeInv, Shapes
<1>4. "mode" \in DOMAIN Store(u, f)
  BY DEF ModeInv, Shapes, Store
<1>5. WritesAskedFor'
  BY <1>1, <1>2, <1>3 DEF ModeInv, WritesAskedFor, Value, IsSetter, Asked
<1>6. ClosedIsClean'
  <2> SUFFICES ASSUME NEW o \in Objects, ~m_open'[o] PROVE cfg'[o]["mode"] \in Asked
    BY DEF ClosedIsClean, Asked
  <2>1. o \in Users /\ ~m_open[o] /\ cfg[o]["mode"] \in Asked
    BY <1>2 DEF Users, ModeInv, ClosedIsClean
  <2>2. CASE o = u
    <3>1. job[u].fn = "begin"
      BY <1>2, <2>1, <2>2 DEF ModeInv, OpenIsOpen
    <3>2. Store(u, f) = [cfg[u] EXCEPT ![f] = hw[f]]
      BY <3>1 DEF Store, IsSetter, Fields
    <3> QED BY <1>3, <2>1, <2>2, <3>2 DEF ModeInv, Shapes
  <2>3. CASE o # u
    BY <1>3, <2>1, <2>3
  <2> QED BY <2>2, <2>3
<1> QED BY <1>1, <1>2, <1>3, <1>4, <1>5, <1>6 DEF ModeInv, Shapes, OpenIsOpen, Asked

\* A call that answers true: begin has the object open.
LEMMA SucceedKeeps == ASSUME ModeInv, NEW u \in Users, Succeed(u) PROVE ModeInv'
<1>1. /\ todo[u] = <<>> /\ job' = [job EXCEPT ![u] = NoJob]
      /\ m_open' = IF job[u].fn = "begin" THEN [m_open EXCEPT ![u] = TRUE] ELSE m_open
      /\ UNCHANGED <<hw, cfg, file, todo>>
  BY DEF Succeed
<1>2. /\ DOMAIN job' = Users /\ DOMAIN m_open' = Objects
      /\ \A v \in Users \ {u} : job'[v] = job[v]
      /\ \A o \in Objects : ~m_open'[o] => ~m_open[o] /\ (o = u => job[u].fn # "begin")
  BY <1>1 DEF ModeInv, Shapes
<1>3. WritesAskedFor'
  BY <1>1, <1>2 DEF ModeInv, WritesAskedFor, Value, IsSetter, Asked
<1>4. OpenIsOpen'
  <2>1. \A o \in Objects : o \in Users
    BY DEF Users
  <2> QED BY <1>1, <1>2, <2>1 DEF ModeInv, OpenIsOpen
<1>5. ClosedIsClean'
  BY <1>1, <1>2 DEF ModeInv, ClosedIsClean, Asked
<1> QED BY <1>1, <1>2, <1>3, <1>4, <1>5 DEF ModeInv, Shapes, ModeIsFirst, Asked

\* An ioctl that fails: begin closes the descriptor.
LEMMA FailKeeps == ASSUME ModeInv, NEW u \in Users, Fail(u) PROVE ModeInv'
<1>1. /\ job' = [job EXCEPT ![u] = NoJob] /\ todo' = [todo EXCEPT ![u] = <<>>]
      /\ file' = IF job[u].fn \in {"begin", "setConfig"}
                 THEN [file EXCEPT ![u] = "closed"] ELSE file
      /\ UNCHANGED <<hw, cfg, m_open>>
  BY DEF Fail
<1>2. /\ DOMAIN job' = Users /\ DOMAIN file' = Users /\ todo'[u] = <<>>
      /\ todo' \in [Users -> Seq(Ioctls)]
      /\ \A v \in Users \ {u} : job'[v] = job[v] /\ file'[v] = file[v] /\ todo'[v] = todo[v]
      /\ file'[u] = "open" => file[u] = "open" /\ job[u].fn # "begin"
  BY <1>1 DEF ModeInv, Shapes
<1>3. WritesAskedFor'
  BY <1>1, <1>2 DEF ModeInv, WritesAskedFor, Value, IsSetter, Asked
<1>4. ModeIsFirst'
  BY <1>2 DEF ModeInv, ModeIsFirst
<1>5. OpenIsOpen'
  <2>1. \A o \in Objects : o \in Users
    BY DEF Users
  <2> QED BY <1>1, <1>2, <2>1 DEF ModeInv, OpenIsOpen
<1> QED BY <1>1, <1>2, <1>3, <1>4, <1>5 DEF ModeInv, Shapes, ClosedIsClean, Asked

-----------------------------------------------------------------------------
\* The initial states.
LEMMA ModeInvInit == SpiInit => ModeInv
<1> SUFFICES ASSUME SpiInit PROVE ModeInv
  OBVIOUS
<1>1. PICK c \in Configs : hw = [c EXCEPT !.speed = Taken("speed", @)]
  BY DEF SpiInit
<1>2. "mode" \in DOMAIN hw /\ hw["mode"] \in Asked
  BY <1>1, ConfigsHaveModes
<1>3. \A u \in Users : cfg[u] \in Configs
  BY DEF SpiInit
<1>4. DOMAIN cfg = Users /\ \A u \in Users : "mode" \in DOMAIN cfg[u] /\ cfg[u].mode \in Asked
  BY <1>3, ConfigsHaveModes DEF SpiInit
<1>5. todo \in [Users -> Seq(Ioctls)] /\ \A u \in Users : todo[u] = <<>>
  BY DEF SpiInit
<1>6. ClosedIsClean
  BY <1>4 DEF ClosedIsClean, Users
<1>7. OpenIsOpen
  <2>1. \A o \in Objects : file[o] = "none"
    BY DEF SpiInit, Users
  <2> QED BY <2>1 DEF OpenIsOpen
<1>8. ModeIsFirst /\ WritesAskedFor
  BY <1>5 DEF ModeIsFirst, WritesAskedFor
<1> QED BY <1>2, <1>4, <1>5, <1>6, <1>7, <1>8 DEF SpiInit, ModeInv, Shapes

\* Every step.
LEMMA ModeInvStep == ModeInv /\ [SpiNext]_spiVars => ModeInv'
<1> SUFFICES ASSUME ModeInv, [SpiNext]_spiVars PROVE ModeInv'
  OBVIOUS
<1>1. ASSUME NEW o \in Objects, Begin(o) PROVE ModeInv'
  BY <1>1, BeginKeeps
<1>2. ASSUME NEW o \in Objects, NEW c \in Configs, SetConfig(o, c) PROVE ModeInv'
  BY <1>2, SetConfigKeeps
<1>3. ASSUME NEW o \in Objects, NEW v \in Modes, SetMode(o, v) PROVE ModeInv'
  BY <1>3, SettersKeep
<1>4. ASSUME NEW o \in Objects, NEW v, SetBitPerWord(o, v) \/ SetSpeed(o, v) PROVE ModeInv'
  BY <1>4, SettersKeep
<1>5. ASSUME NEW t \in Tools, SpiOpen(t) PROVE ModeInv'
  BY <1>5, SpiOpenKeeps
<1>6. ASSUME NEW u \in Users, WriteSetting(u) \/ ReadSetting(u) \/ Succeed(u) \/ Fail(u)
      PROVE  ModeInv'
  BY <1>6, WriteKeeps, ReadKeeps, SucceedKeeps, FailKeeps
<1>7. CASE UNCHANGED spiVars
  BY <1>7 DEF spiVars, ModeInv, Shapes, ModeIsFirst, WritesAskedFor, Value, IsSetter,
     OpenIsOpen, ClosedIsClean, Asked
<1> QED BY <1>1, <1>2, <1>3, <1>4, <1>5, <1>6, <1>7 DEF SpiNext

\* The speed that setSpeed stores as a mode never becomes the mode of the device,
\* whatever calls are made, fail and interleave.
THEOREM StoredSpeedIsNeverAMode == SpiSpec => []SpeedNeverBecomesMode
<1>1. ModeInv => SpeedNeverBecomesMode
  BY DEF ModeInv, SpeedNeverBecomesMode, Asked
<1> QED BY <1>1, ModeInvInit, ModeInvStep, PTL DEF SpiSpec

-----------------------------------------------------------------------------
(* The copies.  While a call works through its list, the fields it has not *)
(* read back yet may differ from the device; what it has read back agrees, *)
(* until somebody else writes (Synced).  That a setting which is written   *)
(* is always read back in the same call is the shape of the lists (Paired).*)

Openers == {"begin", "setConfig", "spi_open"}

\* f has still to be read back.
Pending(u, f) == \E i \in 1..Len(todo[u]) : todo[u][i] = <<"RD", f>>

CopyShapes ==
    /\ hw = [f \in Fields |-> hw[f]]
    /\ \A u \in Users : cfg[u] = [f \in Fields |-> cfg[u][f]]
    /\ alone \in [Users -> BOOLEAN] /\ exact \in [Users -> BOOLEAN]
    /\ \A u \in Users : job[u].fn \in Openers \cup Fields \cup {"none"}
    /\ \A u \in Users : job[u].fn = "none" => job[u] = NoJob
    /\ \A u \in Users : job[u] = NoJob => todo[u] = <<>>

\* In a list, what is written is read back next.
PairedList(s) ==
    \A i \in 1..Len(s), f \in Fields :
        s[i] = <<"WR", f>> => i + 1 \in 1..Len(s) /\ s[i + 1] = <<"RD", f>>

Paired == \A u \in Users : PairedList(todo[u])

\* A setter has to do with its own field only.
OwnField == \A u \in Users : IsSetter(u) => \A i \in 1..Len(todo[u]) : todo[u][i][2] = job[u].fn

\* Whose copy agrees with the device, but for what is to be read back.
Follows(u) == alone[u] /\ job[u].fn # "speed" /\ (exact[u] \/ job[u].fn \in Openers)

Synced == \A u \in Users : Follows(u) => \A f \in Fields : Pending(u, f) \/ cfg[u][f] = hw[f]

CopyInv == CopyShapes /\ Paired /\ OwnField /\ Synced

\* The lists of ioctls read back all they write, and AllSettings everything.
LEMMA ListsArePaired ==
    /\ PairedList(AllSettings) /\ \A f \in Fields : PairedList(WriteThenRead(f))
    /\ \A f \in Fields : \E i \in 1..Len(AllSettings) : AllSettings[i] = <<"RD", f>>
<1> DEFINE m == WriteThenRead("mode")
           b == WriteThenRead("bits")
           s == WriteThenRead("speed")
<1>1. /\ m \in Seq(Ioctls) /\ Len(m) = 2 /\ m[1] = <<"WR", "mode">> /\ m[2] = <<"RD", "mode">>
      /\ b \in Seq(Ioctls) /\ Len(b) = 2 /\ b[1] = <<"WR", "bits">> /\ b[2] = <<"RD", "bits">>
      /\ s \in Seq(Ioctls) /\ Len(s) = 2 /\ s[1] = <<"WR", "speed">> /\ s[2] = <<"RD", "speed">>
  BY ListsHaveModeFirst DEF Fields
<1>2. AllSettings = (m \o b) \o s
  BY DEF AllSettings
<1> HIDE DEF m, b, s
<1>3. /\ m \o b \in Seq(Ioctls) /\ Len(m \o b) = Len(m) + Len(b)
      /\ \A i \in 1..Len(m) + Len(b) :
            (m \o b)[i] = IF i <= Len(m) THEN m[i] ELSE b[i - Len(m)]
  BY <1>1, ConcatProperties, Zenon
<1>4. /\ Len((m \o b) \o s) = Len(m \o b) + Len(s)
      /\ \A i \in 1..Len(m \o b) + Len(s) :
            ((m \o b) \o s)[i] = IF i <= Len(m \o b) THEN (m \o b)[i] ELSE s[i - Len(m \o b)]
  <2>1. m \o b \in Seq(Ioctls) /\ s \in Seq(Ioctls)
    BY <1>1, <1>3
  <2> QED BY <2>1, ConcatProperties, Zenon
<1>5. /\ Len(AllSettings) = 6
      /\ AllSettings[1] = <<"WR", "mode">> /\ AllSettings[2] = <<"RD", "mode">>
      /\ AllSettings[3] = <<"WR", "bits">> /\ AllSettings[4] = <<"RD", "bits">>
      /\ AllSettings[5] = <<"WR", "speed">> /\ AllSettings[6] = <<"RD", "speed">>
  BY <1>1, <1>2, <1>3, <1>4
<1>6. PairedList(AllSettings)
  <2> SUFFICES ASSUME NEW i \in 1..6, NEW f \in Fields, AllSettings[i] = <<"WR", f>>
               PROVE  i + 1 \in 1..6 /\ AllSettings[i + 1] = <<"RD", f>>
    BY <1>5 DEF PairedList
  <2>1. i \in {1, 2, 3, 4, 5, 6}
    OBVIOUS
  <2> QED BY <1>5, <2>1
<1>7. \A f \in Fields : \E i \in 1..Len(AllSettings) : AllSettings[i] = <<"RD", f>>
  BY <1>5 DEF Fields
<1>8. \A f \in Fields : PairedList(WriteThenRead(f))
  <2> SUFFICES ASSUME NEW f \in Fields, NEW i \in 1..2, NEW g \in Fields,
                      WriteThenRead(f)[i] = <<"WR", g>>
               PROVE  i + 1 \in 1..2 /\ WriteThenRead(f)[i + 1] = <<"RD", g>>
    BY ListsHaveModeFirst DEF PairedList
  <2>1. i \in {1, 2}
    OBVIOUS
  <2> QED BY <2>1, ListsHaveModeFirst
<1> QED BY <1>6, <1>7, <1>8

\* The tail of a list.
LEMMA PairedTail ==
    ASSUME NEW s \in Seq(Ioctls), s # <<>>, PairedList(s)
    PROVE  /\ PairedList(Tail(s))
           /\ \A f \in Fields : \A i \in 1..Len(s) : s[i] = <<"RD", f>> /\ s[1] # <<"RD", f>> =>
                 \E k \in 1..Len(Tail(s)) : Tail(s)[k] = <<"RD", f>>
           /\ \A f \in Fields : s[1] = <<"WR", f>> =>
                 \E k \in 1..Len(Tail(s)) : Tail(s)[k] = <<"RD", f>>
<1>1. Len(s) \in Nat \ {0} /\ Len(Tail(s)) = Len(s) - 1
      /\ \A i \in 1..Len(Tail(s)) : Tail(s)[i] = s[i + 1]
  OBVIOUS
<1> DEFINE t == Tail(s)
<1> HIDE DEF t
<1>2. PairedList(t)
  BY <1>1 DEF PairedList, t
<1>3. ASSUME NEW f \in Fields, NEW i \in 1..Len(s), s[i] = <<"RD", f>>, s[1] # <<"RD", f>>
      PROVE  \E k \in 1..Len(t) : t[k] = <<"RD", f>>
  <2>1. i - 1 \in 1..Len(t) /\ t[i - 1] = s[i]
    BY <1>1, <1>3 DEF t
  <2> QED BY <1>3, <2>1
<1>4. ASSUME NEW f \in Fields, s[1] = <<"WR", f>>
      PROVE  \E k \in 1..Len(t) : t[k] = <<"RD", f>>
  <2>1. 1 \in 1..Len(s) /\ 2 \in 1..Len(s) /\ s[2] = <<"RD", f>>
    BY <1>1, <1>4 DEF PairedList
  <2>2. 1 \in 1..Len(t) /\ t[1] = <<"RD", f>>
    BY <1>1, <2>1 DEF t
  <2> QED BY <2>2
<1> QED BY <1>2, <1>3, <1>4 DEF t

\* A user that starts a list while its copy is as it was, or a list of everything.
LEMMA BeginsKeepsCopies ==
    ASSUME CopyInv, Shapes, NEW u \in Users, NEW fn \in Openers \cup Fields, NEW arg,
           NEW ioctls \in Seq(Ioctls), PairedList(ioctls), Begins(u, fn, arg, ioctls),
           fn \in Fields => \A i \in 1..Len(ioctls) : ioctls[i][2] = fn,
           hw' = hw, \A v \in Users \ {u} : cfg'[v] = cfg[v],
           cfg'[u] = [f \in Fields |-> cfg'[u][f]],
           alone' \in [Users -> BOOLEAN], exact' \in [Users -> BOOLEAN],
           \A v \in Users \ {u} : alone'[v] = alone[v] /\ exact'[v] = exact[v],
           \/ \A f \in Fields : \E i \in 1..Len(ioctls) : ioctls[i] = <<"RD", f>>
           \/ fn \in Fields /\ cfg'[u] = cfg[u] /\ alone'[u] = alone[u] /\ exact'[u] = exact[u]
    PROVE  CopyInv'
<1>1. /\ job[u] = NoJob
      /\ todo'[u] = ioctls /\ job'[u] = [fn |-> fn, arg |-> arg]
      /\ \A v \in Users \ {u} : todo'[v] = todo[v] /\ job'[v] = job[v]
  BY DEF Shapes, Begins
<1>2. Paired'
  <2> SUFFICES ASSUME NEW v \in Users PROVE PairedList(todo'[v])
    BY DEF Paired, PairedList
  <2>1. CASE v = u
    BY <1>1, <2>1
  <2>2. CASE v # u
    <3>1. todo'[v] = todo[v] /\ PairedList(todo[v])
      BY <1>1, <2>2 DEF CopyInv, Paired
    <3> QED BY <3>1
  <2> QED BY <2>1, <2>2
<1>3. CopyShapes'
  <2>1. job'[u].fn = fn /\ fn # "none" /\ job'[u] # NoJob
    BY <1>1 DEF Openers, Fields, NoJob
  <2>2. \A v \in Users : cfg'[v] = [f \in Fields |-> cfg'[v][f]]
    <3> SUFFICES ASSUME NEW v \in Users, v # u PROVE cfg'[v] = [f \in Fields |-> cfg'[v][f]]
      OBVIOUS
    <3>1. cfg'[v] = cfg[v] /\ cfg[v] = [f \in Fields |-> cfg[v][f]]
      BY DEF CopyInv, CopyShapes
    <3> QED BY <3>1
  <2>3. hw' = [f \in Fields |-> hw'[f]]
    BY DEF CopyInv, CopyShapes
  <2>4. /\ \A v \in Users : job'[v].fn \in Openers \cup Fields \cup {"none"}
        /\ \A v \in Users : job'[v].fn = "none" => job'[v] = NoJob
        /\ \A v \in Users : job'[v] = NoJob => todo'[v] = <<>>
    BY <1>1, <2>1, ZenonT(40) DEF CopyInv, CopyShapes
  <2> QED BY <2>2, <2>3, <2>4 DEF CopyShapes, Openers
<1>4. OwnField'
  <2> SUFFICES ASSUME NEW v \in Users, job'[v].fn \in Fields
               PROVE  \A i \in 1..Len(todo'[v]) : todo'[v][i][2] = job'[v].fn
    BY DEF OwnField, IsSetter, Fields
  <2>1. CASE v = u
    BY <1>1, <2>1
  <2>2. CASE v # u
    <3>1. todo'[v] = todo[v] /\ job'[v] = job[v]
      BY <1>1, <2>2
    <3> QED BY <3>1 DEF CopyInv, OwnField, IsSetter
  <2> QED BY <2>1, <2>2
<1>5. Synced'
  <2> SUFFICES ASSUME NEW v \in Users, Follows(v)', NEW f \in Fields
               PROVE  Pending(v, f)' \/ cfg'[v][f] = hw'[f]
    BY DEF Synced, Fields
  <2>1. CASE v # u
    <3>1. /\ cfg'[v] = cfg[v] /\ todo'[v] = todo[v] /\ job'[v] = job[v]
          /\ alone'[v] = alone[v] /\ exact'[v] = exact[v]
      BY <1>1, <2>1
    <3>2. Follows(v)
      BY <3>1 DEF Follows, Openers
    <3>3. Pending(v, f) \/ cfg[v][f] = hw[f]
      BY <3>2 DEF CopyInv, Synced
    <3> QED BY <3>1, <3>3 DEF Pending
  <2>2. CASE v = u
    <3>1. CASE \E i \in 1..Len(ioctls) : ioctls[i] = <<"RD", f>>
      BY <1>1, <2>2, <3>1 DEF Pending
    <3>2. CASE fn \in Fields /\ cfg'[u] = cfg[u] /\ alone'[u] = alone[u] /\ exact'[u] = exact[u]
      <4>1. alone[u] /\ exact[u] /\ job[u].fn # "speed"
        <5>1. alone'[u] /\ (exact'[u] \/ job'[u].fn \in Openers)
          BY <2>2 DEF Follows, Openers
        <5>2. job'[u].fn = fn /\ fn \notin Openers
          BY <1>1, <3>2 DEF Openers, Fields
        <5> QED BY <1>1, <3>2, <5>1, <5>2 DEF NoJob
      <4>2. todo[u] = <<>>
        BY <1>1 DEF CopyInv, CopyShapes
      <4>3. ~Pending(u, f)
        BY <4>2 DEF Pending
      <4>4. cfg[u][f] = hw[f]
        BY <4>1, <4>3 DEF CopyInv, Synced, Follows
      <4> QED BY <2>2, <3>2, <4>4
    <3> QED BY <3>1, <3>2
  <2> QED BY <2>1, <2>2
<1> QED BY <1>2, <1>3, <1>4, <1>5 DEF CopyInv

\* A configuration is a copy.
LEMMA ConfigsAreCopies == \A c \in Configs : c = [f \in Fields |-> c[f]]
<1> TAKE c \in Configs
<1>1. c \in [mode : Nat, bits : Nat, speed : Nat]
  BY SettingsAssumption DEF SettingsAssumption
<1> QED BY <1>1 DEF Fields

\* begin reads everything back.
LEMMA BeginKeepsCopies ==
    ASSUME CopyInv, Shapes, NEW o \in Objects, Begin(o)
    PROVE  CopyInv'
<1>1. o \in Users /\ "begin" \in Openers \cup Fields /\ "begin" \notin Fields
  BY DEF Users, Openers, Fields
<1>2. /\ Begins(o, "begin", 0, AllSettings) /\ hw' = hw /\ cfg' = cfg
      /\ alone' = [alone EXCEPT ![o] = TRUE] /\ exact' = exact
  BY DEF Begin
<1>3. /\ alone' \in [Users -> BOOLEAN] /\ exact' \in [Users -> BOOLEAN]
      /\ \A v \in Users \ {o} : alone'[v] = alone[v] /\ exact'[v] = exact[v]
      /\ cfg'[o] = [f \in Fields |-> cfg'[o][f]]
  BY <1>1, <1>2 DEF CopyInv, CopyShapes
<1> QED BY <1>1, <1>2, <1>3, ListsArePaired, ListsHaveModeFirst, BeginsKeepsCopies

\* So does spi_open, with a configuration of its own.
LEMMA SpiOpenKeepsCopies ==
    ASSUME CopyInv, Shapes, NEW t \in Tools, SpiOpen(t)
    PROVE  CopyInv'
<1>1. t \in Users /\ "spi_open" \in Openers \cup Fields /\ "spi_open" \notin Fields
  BY DEF Users, Openers, Fields
<1>2. /\ Begins(t, "spi_open", 0, AllSettings) /\ hw' = hw
      /\ alone' = [alone EXCEPT ![t] = TRUE] /\ exact' = [exact EXCEPT ![t] = FALSE]
  BY DEF SpiOpen
<1>3. PICK c \in Configs : cfg' = [cfg EXCEPT ![t] = c]
  BY DEF SpiOpen
<1>4. /\ alone' \in [Users -> BOOLEAN] /\ exact' \in [Users -> BOOLEAN]
      /\ \A v \in Users \ {t} : alone'[v] = alone[v] /\ exact'[v] = exact[v]
  BY <1>1, <1>2 DEF CopyInv, CopyShapes
<1>5. cfg'[t] = c /\ \A v \in Users \ {t} : cfg'[v] = cfg[v]
  BY <1>1, <1>3 DEF Shapes
<1>6. cfg'[t] = [f \in Fields |-> cfg'[t][f]]
  BY <1>5, ConfigsAreCopies
<1> QED BY <1>1, <1>2, <1>4, <1>5, <1>6, ListsArePaired, ListsHaveModeFirst, BeginsKeepsCopies

\* setConfig, too, when the object is open; otherwise its copy counts no more.
LEMMA SetConfigKeepsCopies ==
    ASSUME CopyInv, Shapes, NEW o \in Objects, NEW c \in Configs, SetConfig(o, c)
    PROVE  CopyInv'
<1>1. o \in Users /\ "setConfig" \in Openers \cup Fields /\ "setConfig" \notin Fields
  BY DEF Users, Openers, Fields
<1>2. /\ hw' = hw /\ cfg' = [cfg EXCEPT ![o] = c] /\ exact' = [exact EXCEPT ![o] = FALSE]
  BY DEF SetConfig
<1>3. cfg'[o] = c /\ \A v \in Users \ {o} : cfg'[v] = cfg[v]
  BY <1>1, <1>2 DEF Shapes
<1>4. cfg'[o] = [f \in Fields |-> cfg'[o][f]]
  BY <1>3, ConfigsAreCopies
<1>5. /\ exact' \in [Users -> BOOLEAN] /\ exact'[o] = FALSE
      /\ \A v \in Users \ {o} : exact'[v] = exact[v]
  BY <1>1, <1>2 DEF CopyInv, CopyShapes
<1>6. CASE m_open[o]
  <2>1. Begins(o, "setConfig", 0, AllSettings) /\ alone' = [alone EXCEPT ![o] = TRUE]
    BY <1>6 DEF SetConfig
  <2>2. alone' \in [Users -> BOOLEAN] /\ \A v \in Users \ {o} : alone'[v] = alone[v]
    BY <1>1, <2>1 DEF CopyInv, CopyShapes
  <2> QED BY <1>1, <1>2, <1>3, <1>4, <1>5, <2>1, <2>2, ListsArePaired, ListsHaveModeFirst,
             BeginsKeepsCopies
<1>7. CASE ~m_open[o]
  <2>1. job[o] = NoJob /\ job' = job /\ todo' = todo /\ alone' = alone
    BY <1>7 DEF SetConfig
  <2>2. Paired' /\ OwnField'
    BY <2>1 DEF CopyInv, Paired, PairedList, OwnField, IsSetter
  <2>3. \A v \in Users : cfg'[v] = [f \in Fields |-> cfg'[v][f]]
    <3> SUFFICES ASSUME NEW v \in Users, v # o PROVE cfg'[v] = [f \in Fields |-> cfg'[v][f]]
      BY <1>4
    <3>1. cfg'[v] = cfg[v] /\ cfg[v] = [f \in Fields |-> cfg[v][f]]
      BY <1>3 DEF CopyInv, CopyShapes
    <3> QED BY <3>1
  <2>4. CopyShapes'
    BY <1>2, <1>5, <2>1, <2>3 DEF CopyInv, CopyShapes
  <2>5. Synced'
    <3> SUFFICES ASSUME NEW v \in Users, Follows(v)', NEW f \in Fields
                 PROVE  Pending(v, f)' \/ cfg'[v][f] = hw'[f]
      BY DEF Synced, Fields
    <3>1. v # o
      BY <1>5, <2>1 DEF Follows, Openers, NoJob
    <3>2. cfg'[v] = cfg[v] /\ Follows(v)
      BY <1>3, <1>5, <2>1, <3>1 DEF Follows, Openers
    <3>3. Pending(v, f) \/ cfg[v][f] = hw[f]
      BY <3>2 DEF CopyInv, Synced
    <3> QED BY <1>2, <2>1, <3>2, <3>3 DEF Pending
  <2> QED BY <2>2, <2>4, <2>5 DEF CopyInv
<1> QED BY <1>6, <1>7

\* The setters leave the copies as they are, and have one field to do.
LEMMA SettersKeepCopies ==
    ASSUME CopyInv, Shapes, NEW o \in Objects, NEW v,
           SetMode(o, v) \/ SetBitPerWord(o, v) \/ SetSpeed(o, v)
    PROVE  CopyInv'
<1>1. PICK fn \in Fields : Begins(o, fn, v, WriteThenRead(fn))
  BY DEF SetMode, SetBitPerWord, SetSpeed, Fields
<1>2. hw' = hw /\ cfg' = cfg /\ alone' = alone /\ exact' = exact
  BY DEF SetMode, SetBitPerWord, SetSpeed
<1>3. o \in Users /\ fn \in Openers \cup Fields
  BY DEF Users
<1>4. \A i \in 1..Len(WriteThenRead(fn)) : WriteThenRead(fn)[i][2] = fn
  <2>1. /\ Len(WriteThenRead(fn)) = 2 /\ WriteThenRead(fn)[1] = <<"WR", fn>>
        /\ WriteThenRead(fn)[2] = <<"RD", fn>>
    BY ListsHaveModeFirst
  <2>2. \A i \in 1..2 : i = 1 \/ i = 2
    OBVIOUS
  <2> QED BY <2>1, <2>2
<1>5. /\ cfg'[o] = [f \in Fields |-> cfg'[o][f]]
      /\ alone' \in [Users -> BOOLEAN] /\ exact' \in [Users -> BOOLEAN]
  BY <1>2, <1>3 DEF CopyInv, CopyShapes
<1> QED BY <1>1, <1>2, <1>3, <1>4, <1>5, ListsArePaired, ListsHaveModeFirst, BeginsKeepsCopies

\* What the first ioctl of a list does to the list.
LEMMA OneIoctl ==
    ASSUME CopyInv, Shapes, NEW u \in Users, todo[u] # <<>>,
           todo' = [todo EXCEPT ![u] = Tail(@)], job' = job
    PROVE  /\ Paired' /\ OwnField'
           /\ job[u] # NoJob /\ todo[u][1] \in Ioctls
           /\ \A v \in Users \ {u} : todo'[v] = todo[v]
           /\ \A f \in Fields : Pending(u, f) /\ todo[u][1] # <<"RD", f>> => Pending(u, f)'
           /\ \A f \in Fields : todo[u][1] = <<"WR", f>> => Pending(u, f)'
<1>1. /\ todo[u] \in Seq(Ioctls) /\ todo'[u] = Tail(todo[u])
      /\ \A v \in Users \ {u} : todo'[v] = todo[v]
  BY DEF Shapes
<1>2. /\ Len(todo[u]) \in Nat \ {0} /\ Len(Tail(todo[u])) = Len(todo[u]) - 1
      /\ \A i \in 1..Len(Tail(todo[u])) : Tail(todo[u])[i] = todo[u][i + 1]
      /\ todo[u][1] \in Ioctls
  BY <1>1
<1>3. PairedList(todo[u])
  BY DEF CopyInv, Paired
<1>4. PairedList(todo'[u])
  BY <1>1, <1>3, PairedTail
<1>5. Paired'
  <2> SUFFICES ASSUME NEW v \in Users PROVE PairedList(todo'[v])
    BY DEF Paired, PairedList
  <2>1. CASE v # u
    <3>1. todo'[v] = todo[v] /\ PairedList(todo[v])
      BY <1>1, <2>1 DEF CopyInv, Paired
    <3> QED BY <3>1
  <2> QED BY <1>4, <2>1
<1>6. OwnField'
  <2> SUFFICES ASSUME NEW v \in Users, job[v].fn \in Fields
               PROVE  \A i \in 1..Len(todo'[v]) : todo'[v][i][2] = job[v].fn
    BY DEF OwnField, IsSetter, Fields
  <2>0. \A i \in 1..Len(todo[v]) : todo[v][i][2] = job[v].fn
    BY DEF CopyInv, OwnField, IsSetter
  <2>1. CASE v # u
    BY <1>1, <2>0, <2>1
  <2>2. CASE v = u
    <3>1. \A i \in 1..Len(Tail(todo[u])) : i + 1 \in 1..Len(todo[u])
      BY <1>2
    <3> QED BY <1>1, <1>2, <2>0, <2>2, <3>1
  <2> QED BY <2>1, <2>2
<1>7. job[u] # NoJob
  BY DEF CopyInv, CopyShapes
<1>8. ASSUME NEW f \in Fields, Pending(u, f), todo[u][1] # <<"RD", f>> PROVE Pending(u, f)'
  <2>1. \E k \in 1..Len(Tail(todo[u])) : Tail(todo[u])[k] = <<"RD", f>>
    BY <1>1, <1>3, <1>8, PairedTail DEF Pending
  <2> QED BY <1>1, <2>1 DEF Pending
<1>9. ASSUME NEW f \in Fields, todo[u][1] = <<"WR", f>> PROVE Pending(u, f)'
  <2>1. \E k \in 1..Len(Tail(todo[u])) : Tail(todo[u])[k] = <<"RD", f>>
    BY <1>1, <1>3, <1>9, PairedTail
  <2> QED BY <1>1, <2>1 DEF Pending
<1> QED BY <1>1, <1>2, <1>5, <1>6, <1>7, <1>8, <1>9

\* A field that is written is to be read back; for the others it is a stranger's.
LEMMA WriteKeepsCopies ==
    ASSUME CopyInv, Shapes, NEW u \in Users, WriteSetting(u)
    PROVE  CopyInv'
<1> DEFINE f == todo[u][1][2]
<1>1. /\ todo[u] # <<>> /\ todo' = [todo EXCEPT ![u] = Tail(@)] /\ job' = job
      /\ todo[u][1][1] = "WR" /\ hw' = [hw EXCEPT ![f] = Taken(f, Value(u, f))]
      /\ alone' = [p \in Users |-> p = u /\ alone[u]] /\ cfg' = cfg /\ exact' = exact
  BY DEF WriteSetting
<1>2. /\ Paired' /\ OwnField' /\ job[u] # NoJob /\ todo[u][1] \in Ioctls
      /\ \A v \in Users \ {u} : todo'[v] = todo[v]
      /\ \A g \in Fields : Pending(u, g) /\ todo[u][1] # <<"RD", g>> => Pending(u, g)'
      /\ \A g \in Fields : todo[u][1] = <<"WR", g>> => Pending(u, g)'
  BY <1>1, OneIoctl
<1>3. f \in Fields /\ todo[u][1] = <<"WR", f>>
  BY <1>1, <1>2 DEF Ioctls
<1> HIDE DEF f
<1>4. hw' = [g \in Fields |-> hw'[g]] /\ \A g \in Fields : g # f => hw'[g] = hw[g]
  BY <1>1, <1>3 DEF CopyInv, CopyShapes
<1>5. \A v \in Users : job[v] = NoJob => todo'[v] = <<>>
  BY <1>2 DEF CopyInv, CopyShapes
<1>6. CopyShapes'
  BY <1>1, <1>4, <1>5 DEF CopyInv, CopyShapes
<1>7. Synced'
  <2> SUFFICES ASSUME NEW v \in Users, Follows(v)', NEW g \in Fields
               PROVE  Pending(v, g)' \/ cfg'[v][g] = hw'[g]
    BY DEF Synced, Fields
  <2>1. v = u /\ alone[u] /\ Follows(u)
    BY <1>1 DEF Follows, Openers
  <2>2. CASE g = f
    BY <1>2, <1>3, <2>1, <2>2
  <2>3. CASE g # f
    <3>1. Pending(u, g) \/ cfg[u][g] = hw[g]
      BY <2>1 DEF CopyInv, Synced
    <3>2. todo[u][1] # <<"RD", g>>
      BY <1>3
    <3> QED BY <1>1, <1>2, <1>4, <2>1, <2>3, <3>1, <3>2
  <2> QED BY <2>2, <2>3
<1> QED BY <1>2, <1>6, <1>7 DEF CopyInv

\* What is read back agrees, but for a speed that is stored as a mode.
LEMMA ReadKeepsCopies ==
    ASSUME CopyInv, Shapes, NEW u \in Users, ReadSetting(u)
    PROVE  CopyInv'
<1> DEFINE f == todo[u][1][2]
<1>1. /\ todo[u] # <<>> /\ todo' = [todo EXCEPT ![u] = Tail(@)] /\ job' = job
      /\ todo[u][1][1] = "RD" /\ cfg' = [cfg EXCEPT ![u] = Store(u, f)]
      /\ hw' = hw /\ alone' = alone /\ exact' = exact
  BY DEF ReadSetting
<1>2. /\ Paired' /\ OwnField' /\ job[u] # NoJob /\ todo[u][1] \in Ioctls
      /\ \A v \in Users \ {u} : todo'[v] = todo[v]
      /\ \A g \in Fields : Pending(u, g) /\ todo[u][1] # <<"RD", g>> => Pending(u, g)'
  BY <1>1, OneIoctl
<1>3. f \in Fields /\ todo[u][1] = <<"RD", f>>
  BY <1>1, <1>2 DEF Ioctls
<1>4. IsSetter(u) => f = job[u].fn
  <2>1. 1 \in 1..Len(todo[u])
    BY <1>1 DEF Shapes
  <2> QED BY <2>1 DEF CopyInv, OwnField
<1> HIDE DEF f
<1>5. cfg'[u] = Store(u, f) /\ \A v \in Users \ {u} : cfg'[v] = cfg[v]
  BY <1>1 DEF Shapes
<1>6. cfg[u] = [g \in Fields |-> cfg[u][g]] /\ "mode" \in Fields
  BY DEF CopyInv, CopyShapes, Fields
<1>7. cfg'[u] = [g \in Fields |-> cfg'[u][g]]
  <2>1. cfg'[u] = [cfg[u] EXCEPT !["mode"] = hw.speed % ModeMod]
        \/ cfg'[u] = [cfg[u] EXCEPT ![f] = hw[f]]
    BY <1>5 DEF Store
  <2> QED BY <1>3, <1>6, <2>1
<1>8. job[u].fn # "speed" => cfg'[u][f] = hw[f] /\ \A g \in Fields : g # f => cfg'[u][g] = cfg[u][g]
  <2> SUFFICES ASSUME job[u].fn # "speed"
               PROVE  cfg'[u][f] = hw[f] /\ \A g \in Fields : g # f => cfg'[u][g] = cfg[u][g]
    OBVIOUS
  <2>1. cfg'[u] = [cfg[u] EXCEPT ![f] = hw[f]]
    BY <1>4, <1>5 DEF Store
  <2> QED BY <1>3, <1>6, <2>1
<1>9. CopyShapes'
  <2>1. \A v \in Users : job[v] = NoJob => todo'[v] = <<>>
    BY <1>2 DEF CopyInv, CopyShapes
  <2>2. \A v \in Users : cfg'[v] = [g \in Fields |-> cfg'[v][g]]
    <3> SUFFICES ASSUME NEW v \in Users, v # u PROVE cfg'[v] = [g \in Fields |-> cfg'[v][g]]
      BY <1>7
    <3>1. cfg'[v] = cfg[v] /\ cfg[v] = [g \in Fields |-> cfg[v][g]]
      BY <1>5 DEF CopyInv, CopyShapes
    <3> QED BY <3>1
  <2> QED BY <1>1, <2>1, <2>2 DEF CopyInv, CopyShapes
<1>10. Synced'
  <2> SUFFICES ASSUME NEW v \in Users, Follows(v)', NEW g \in Fields
               PROVE  Pending(v, g)' \/ cfg'[v][g] = hw'[g]
    BY DEF Synced, Fields
  <2>1. Follows(v)
    BY <1>1 DEF Follows, Openers
  <2>2. Pending(v, g) \/ cfg[v][g] = hw[g]
    BY <2>1 DEF CopyInv, Synced
  <2>3. CASE v # u
    <3>1. cfg'[v] = cfg[v] /\ todo'[v] = todo[v]
      BY <1>2, <1>5, <2>3
    <3> QED BY <1>1, <2>2, <3>1 DEF Pending
  <2>4. CASE v = u
    <3>1. job[u].fn # "speed"
      BY <2>1, <2>4 DEF Follows
    <3>2. CASE g = f
      BY <1>1, <1>8, <2>4, <3>1, <3>2
    <3>3. CASE g # f
      <4>1. todo[u][1] # <<"RD", g>>
        BY <1>3, <3>3
      <4> QED BY <1>1, <1>2, <1>8, <2>2, <2>4, <3>1, <3>3, <4>1
    <3> QED BY <3>2, <3>3
  <2> QED BY <2>3, <2>4
<1> QED BY <1>2, <1>9, <1>10 DEF CopyInv

\* When a call answers, or fails, the copies and the device stay as they are.
LEMMA AnswerKeepsCopies ==
    ASSUME CopyInv, Shapes, NEW u \in Users, Succeed(u) \/ Fail(u)
    PROVE  CopyInv'
<1>1. /\ hw' = hw /\ cfg' = cfg /\ alone' = alone /\ job' = [job EXCEPT ![u] = NoJob]
      /\ todo'[u] = <<>> /\ \A v \in Users \ {u} : todo'[v] = todo[v]
  BY DEF Succeed, Fail, Shapes
<1>2. /\ job'[u] = NoJob /\ \A v \in Users \ {u} : job'[v] = job[v]
  BY <1>1 DEF Shapes
<1>3. exact' \in [Users -> BOOLEAN] /\ \A v \in Users \ {u} : exact'[v] = exact[v]
  BY DEF Succeed, Fail, CopyInv, CopyShapes
<1>4. exact'[u] => Succeed(u) /\ todo[u] = <<>> /\ (exact[u] \/ ~IsSetter(u)) /\ job[u].fn # "speed"
                   /\ job[u] # NoJob
  BY DEF Succeed, Fail, CopyInv, CopyShapes
<1>5. Paired'
  <2> SUFFICES ASSUME NEW v \in Users PROVE PairedList(todo'[v])
    BY DEF Paired, PairedList
  <2>1. CASE v # u
    <3>1. todo'[v] = todo[v] /\ PairedList(todo[v])
      BY <1>1, <2>1 DEF CopyInv, Paired
    <3> QED BY <3>1
  <2>2. CASE v = u
    BY <1>1, <2>2 DEF PairedList
  <2> QED BY <2>1, <2>2
<1>6. OwnField'
  <2> SUFFICES ASSUME NEW v \in Users, job'[v].fn \in Fields
               PROVE  \A i \in 1..Len(todo'[v]) : todo'[v][i][2] = job'[v].fn
    BY DEF OwnField, IsSetter, Fields
  <2>1. v # u
    BY <1>2 DEF NoJob, Fields
  <2>2. todo'[v] = todo[v] /\ job'[v] = job[v]
    BY <1>1, <1>2, <2>1
  <2> QED BY <2>2 DEF CopyInv, OwnField, IsSetter
<1>7. CopyShapes'
  <2>1. /\ \A v \in Users : job'[v].fn \in Openers \cup Fields \cup {"none"}
        /\ \A v \in Users : job'[v].fn = "none" => job'[v] = NoJob
        /\ \A v \in Users : job'[v] = NoJob => todo'[v] = <<>>
    BY <1>1, <1>2 DEF CopyInv, CopyShapes, NoJob
  <2> QED BY <1>1, <1>3, <2>1 DEF CopyInv, CopyShapes, Openers
<1>8. Synced'
  <2> SUFFICES ASSUME NEW v \in Users, Follows(v)', NEW g \in Fields
               PROVE  Pending(v, g)' \/ cfg'[v][g] = hw'[g]
    BY DEF Synced, Fields
  <2>1. CASE v # u
    <3>1. todo'[v] = todo[v] /\ job'[v] = job[v] /\ exact'[v] = exact[v]
      BY <1>1, <1>2, <1>3, <2>1
    <3>2. Follows(v)
      BY <1>1, <3>1 DEF Follows, Openers
    <3>3. Pending(v, g) \/ cfg[v][g] = hw[g]
      BY <3>2 DEF CopyInv, Synced
    <3> QED BY <1>1, <3>1, <3>3 DEF Pending
  <2>2. CASE v = u
    <3>1. alone[u] /\ exact'[u]
      BY <1>1, <1>2, <2>2 DEF Follows, Openers, NoJob
    <3>2. /\ todo[u] = <<>> /\ (exact[u] \/ ~IsSetter(u)) /\ job[u].fn # "speed"
          /\ job[u] # NoJob
      BY <1>4, <3>1
    <3>3. Follows(u)
      BY <3>1, <3>2 DEF Follows, IsSetter, CopyInv, CopyShapes
    <3>4. ~Pending(u, g)
      BY <3>2 DEF Pending
    <3>5. cfg[u][g] = hw[g]
      BY <3>3, <3>4 DEF CopyInv, Synced
    <3> QED BY <1>1, <2>2, <3>5
  <2> QED BY <2>1, <2>2
<1> QED BY <1>5, <1>6, <1>7, <1>8 DEF CopyInv

\* At the start nobody's copy counts.
LEMMA CopyInvInit == SpiInit => CopyInv
<1> SUFFICES ASSUME SpiInit PROVE CopyInv
  OBVIOUS
<1>1. PICK c \in Configs : hw = [c EXCEPT !.speed = Taken("speed", @)]
  BY DEF SpiInit
<1>2. c = [f \in Fields |-> c[f]]
  BY ConfigsAreCopies
<1>3. hw = [f \in Fields |-> hw[f]]
  BY <1>1, <1>2
<1>4. \A u \in Users : cfg[u] = [f \in Fields |-> cfg[u][f]]
  BY ConfigsAreCopies DEF SpiInit
<1>5. /\ alone = [u \in Users |-> FALSE] /\ exact = [u \in Users |-> FALSE]
      /\ \A u \in Users : job[u] = NoJob /\ job[u].fn = "none" /\ todo[u] = <<>>
  BY DEF SpiInit, NoJob
<1>6. CopyShapes
  BY <1>3, <1>4, <1>5 DEF CopyShapes
<1>7. Paired /\ OwnField
  BY <1>5 DEF Paired, PairedList, OwnField, IsSetter, Fields
<1>8. Synced
  BY <1>5 DEF Synced, Follows
<1> QED BY <1>6, <1>7, <1>8 DEF CopyInv

\* Every step keeps the copies.
LEMMA CopyInvStep == CopyInv /\ Shapes /\ [SpiNext]_spiVars => CopyInv'
<1> SUFFICES ASSUME CopyInv, Shapes, [SpiNext]_spiVars PROVE CopyInv'
  OBVIOUS
<1>1. ASSUME NEW o \in Objects, Begin(o) PROVE CopyInv'
  BY <1>1, BeginKeepsCopies
<1>2. ASSUME NEW o \in Objects, NEW c \in Configs, SetConfig(o, c) PROVE CopyInv'
  BY <1>2, SetConfigKeepsCopies
<1>3. ASSUME NEW o \in Objects, NEW v, SetMode(o, v) \/ SetBitPerWord(o, v) \/ SetSpeed(o, v)
      PROVE  CopyInv'
  BY <1>3, SettersKeepCopies
<1>4. ASSUME NEW t \in Tools, SpiOpen(t) PROVE CopyInv'
  BY <1>4, SpiOpenKeepsCopies
<1>5. ASSUME NEW u \in Users, WriteSetting(u) \/ ReadSetting(u) \/ Succeed(u) \/ Fail(u)
      PROVE  CopyInv'
  BY <1>5, WriteKeepsCopies, ReadKeepsCopies, AnswerKeepsCopies
<1>6. CASE UNCHANGED spiVars
  <2>1. /\ hw' = hw /\ cfg' = cfg /\ job' = job /\ todo' = todo
        /\ alone' = alone /\ exact' = exact
    BY <1>6 DEF spiVars
  <2>2. CopyShapes'
    BY <2>1 DEF CopyInv, CopyShapes, Openers
  <2>3. Paired'
    BY <2>1 DEF CopyInv, Paired, PairedList
  <2>4. OwnField'
    BY <2>1 DEF CopyInv, OwnField, IsSetter
  <2>5. Synced'
    BY <2>1 DEF CopyInv, Synced, Follows, Pending, Openers
  <2> QED BY <2>2, <2>3, <2>4, <2>5 DEF CopyInv
<1> QED BY <1>1, <1>2, <1>3, <1>4, <1>5, <1>6 DEF SpiNext

\* A copy that agrees but for what is to be read back is the device's settings
\* when nothing is.
LEMMA NothingPending == CopyInv => SettingsFollowDevice
<1> SUFFICES ASSUME CopyInv, NEW u \in Users, job[u] = NoJob, alone[u], exact[u]
             PROVE  /\ cfg[u] = hw
                    /\ u \in Objects => TransferWith(u, "spi_write") = TransferWith(u, "xfer")
  BY DEF SettingsFollowDevice
<1>1. todo[u] = <<>> /\ job[u].fn # "speed"
  BY DEF CopyInv, CopyShapes, NoJob
<1>2. \A f \in Fields : ~Pending(u, f)
  BY <1>1 DEF Pending
<1>3. \A f \in Fields : cfg[u][f] = hw[f]
  BY <1>1, <1>2 DEF CopyInv, Synced, Follows
<1>4. cfg[u] = [f \in Fields |-> cfg[u][f]] /\ hw = [f \in Fields |-> hw[f]]
  BY DEF CopyInv, CopyShapes
<1>5. cfg[u] = hw
  BY <1>3, <1>4
<1>6. [hw EXCEPT !.bits = hw.bits, !.speed = hw.speed] = hw
  BY <1>4 DEF Fields
<1> QED BY <1>5, <1>6 DEF TransferWith

\* A copy says what the device does, unless somebody else has written, setSpeed
\* has come between or a call has failed, whatever calls are made and interleave.
THEOREM CopiesFollowTheDevice == SpiSpec => []SettingsFollowDevice
<1>1. SpiInit => ModeInv /\ CopyInv
  BY ModeInvInit, CopyInvInit
<1>2. ModeInv /\ CopyInv /\ [SpiNext]_spiVars => ModeInv' /\ CopyInv'
  <2>1. ModeInv => Shapes
    BY DEF ModeInv
  <2> QED BY <2>1, ModeInvStep, CopyInvStep
<1> QED BY <1>1, <1>2, NothingPending, PTL DEF SpiSpec
=============================================================================
