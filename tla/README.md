# Verification of learn_cpp

Models, model-checked properties and proofs for the parts of this repository
that carry its logic: a ring buffer, the receiver of a sensor board's frames, UUIDs and
the clock behind them, two protocols over ZeroMQ, the device classes with their
descriptors, settings and serial line, a screenshot key, the generated classes of
a protobuf message with the file two programs share, log files, and a library of
helpers.  Paths are relative to `src/`.

## The system

learn_cpp is a collection of programs and small libraries around one theme:
reading sensors through SPI, serial lines and UDP, and moving the data between
processes.  There is no single main program; the components meet through the
sensor frames (device -> receiver loop) and through ZeroMQ and UDP sockets.

| Component | State | Operations | Hard behaviour | Correct when |
|---|---|---|---|---|
| `Utility/AQueue.h` | ring: `_buff`, `_capacity`, `_current_size`, unsigned `_head`, `_tail` | push/pop at both ends, clear, resize, reads, `=` | wrap-around, unsigned indices, failed allocation, orders of calls | it is a bounded deque that drops its oldest item; `back()` is the newest |
| Frame receiver, `device_test/testCase/UdpDevice_test.cpp`, `spi_test.cpp` | 4096-byte queue, last sequence number per sensor | read, search header, reassemble, check sum, report gaps | frames cut anywhere, garbage that looks like a header, loss and reordering | reassembly does not depend on the cuts; the queue has room; a silent gap cannot happen |
| UUID, `UUID/*.c` | statics `adjustment`, `last`, `clock_seq`; node id; random fd | time and random UUIDs, pack/unpack/parse/unparse, compare | clock set back, more UUIDs than ticks | no two UUIDs are equal, formats round-trip |
| File transfer, `zmq_test/zermq_req_test.cpp`, `zermq_rep_test.cpp` | an `ifstream` and flags; recv.txt and a finish flag | send begin, lines, end; recv, write, reply | REQ/REP lockstep, restart of the sender, failed stream, lines that look like commands | recv.txt is test.txt, and both end |
| ZeroMQ helpers and pub/sub, `zmq_test/MyZmq.h`, `zermq_sub_test.cpp`, `zermq_pub_test.cpp` | sockets shared by threads | send two parts, receive two parts or all messages | parts of two threads mix, a receive that finds too few or too many parts, a full queue | title and data stay together; nothing is left unread |
| Devices, `device_test/Device/*.cpp`, `spi_test/spidev-lib` | a descriptor, an open flag and a copy of the settings each; one RS-485 pin for all serial ports | begin/open, configure, transfer, close, destructor | failure in the middle of opening, double close, reuse of a descriptor number, others who set up the same device, threads that share the pin | nobody uses or closes another's descriptor; none leaks; the copy says what the device does; the converter is on exactly while something is sent |
| `KeyboardFbdump/KeyboardFbdump.cpp` | key flags, the kernel's event queue, a child process | search the keyboard, read events, dump the framebuffer | events that queue up or are dropped during a dump, failed fork, unplugged keyboard | one picture per press of the key, of the right keyboard |
| Protobuf messages, `protobuf_test/*` | objects: has-bits, fields, kept inner objects; `./log` | set, clear, mutable, release, merge, copy, swap; write and read; two programs | data that was cleared comes back, a pointer with two owners, bytes cut short, writers and readers at once | objects behave like values, bytes round-trip, what is listed was written |
| `Utility/DebugCtrl.cpp` | two log files | append, empty when large | threads and processes log at once, kill, a file that cannot be opened | files stay bounded, records stay whole |
| `Utility/Misc.cpp`, `Misc.h` | none; the machine's clocks | string, time and float helpers; set both clocks | edge cases; failure and other callers between two settings | the result the comment states; the clocks agree |
| `tcp_test`, `udp_broadcast` | sockets | one request and one reply | - | not modelled |
| thread, stl, iostream and serial demos | none of their own | straight-line | - | not modelled |

## Modules

| Module | Role |
|---|---|
| `AQueue` | the ring buffer class, one operator per method and one action per call |
| `BoundedDeque` | what its comments promise: a sequence of at most `capacity` items |
| `MCAQueue` | capacities, the width of `unsigned`, how a program uses its queues; part of `MCUtility` |
| `FrameReceiver` | the receive loop, the board and the network |
| `MCFrameReceiver` | bytes, frames, datagrams of others |
| `FrameReceiverProofs` | what waits in the queue, that it never overflows, that cuts make no difference, what is reported, and what silence means |
| `UuidClock` | `get_clock` and the machine's clock |
| `UuidFormats` | struct, 16 bytes and text of a UUID, and what is read from them |
| `UuidGenerate` | the random device, the node id, and the generating functions |
| `MCUuidClock`, `MCUuid` | instances: the clock alone; the clock or the generating functions |
| `UuidProofs` | the order of the stamps; what packing keeps; what was generated |
| `ZmqTransfer` | sender, receiver and the REQ/REP wire |
| `MultipartSocket` | threads that publish two-part messages, and their reader |
| `MCZmqTransfer`, `MCPrograms` | instances: the transfer alone; the transfer, the messages or the screenshot program |
| `ZmqProofs` | what the transfer leaves in recv.txt; the order and the pairs of parts |
| `DeviceFds` | who opened each descriptor, and which number each device object keeps |
| `SpiSettings` | the settings of an SPI device and the copies its users keep |
| `Rs485` | `serialWrite`, the pin of the converter and the line behind it |
| `MCDevices` | instance of the three |
| `DevicesProofs` | whose descriptor is whose; what the copies say; when the converter is on |
| `KeyboardFbdump` | the screenshot program, its keyboard and the shell |
| `KeyboardFbdumpProofs` | a press for every picture |
| `InteractionCodec` | messages and bytes: read, write, measure, merge, check |
| `InteractionObjects` | objects of class `LT::interaction` on their heap |
| `InteractionValues` | what a program may expect of them |
| `MessageLog` | `Writer.cpp`, `Reader.cpp` and `./log` |
| `MCInteraction` | instance: objects, or the two programs |
| `InteractionCodecProofs` | what is written of a message reads as the message, and what is cut off is refused or reads as its beginning |
| `InteractionProofs` | owners and absent fields of the objects; they implement the values; what they write comes back; the log |
| `DebugLog` | the two log files of `DebugCtrl.cpp` |
| `HardwareClock` | `update_hardwave_kernel_time` and the two clocks |
| `MiscText`, `MiscNumbers` | helpers for strings; for numbers and times |
| `MCUtility` | instance of the four and of the queue |
| `UtilityProofs` | the queue: type correctness, the index invariant, the refinement; the size of the log files, whole records; the two clocks |

Each module has *variants* of some definitions: what the definition would be
with a plausible mistake (a counter not reset, a guard dropped).  `PROJECT.json`
names, for every property, the variant that must violate it.

Modules that model parts of one library, or programs of one kind, share an instance.  Its behaviours are
each about one of them, chosen in the initial state (`about`, `side`, `pattern`,
`question`), while the others keep their initial state: the parts do not
interact, and a product of their states would say nothing more.

### AQueue

A queue object is a record of the five fields.  The arithmetic is modulo `UMod`,
2^32 in the code and 2^4 in the runs (`2^w % 3 = 1` for both); `_tail = -1` is
`UMod - 1`.  An object with `_buff == NULL` has capacity 0: the default
constructor and a failed `resize` are the only ways to get one.  The `assert`s
are compiled out as in a release build and checked as properties instead.
`back()` with `_tail` outside the buffer may return anything.
`read(T *buff, unsigned len)` calls `_read`, which the class does not have: it
cannot be instantiated and is left out.  `operator=` of an object to itself
changes nothing, as in the code.

`FifoSpec` is the discipline of the class comment (append, drop at the head,
clear) with `resize` and `=`; `Spec` adds `push_front` and `pop_back`.

- `utility` (two queues, capacities 2 and 3 or 1, 2 and 4, two values; the run has the
  other parts of `Utility/` too): reads across the wrap hand out the items in order, and the ring implements `BoundedDeque`:
  under `FifoSpec` for all capacities, under `Spec` for those that divide 2^w,
  although `_tail` wraps below zero.  `BackWhenStored`: `back()` is the newest item
  while `_tail` is an index of the buffer.
- `aqueue_popback` finds, with capacity 3, a `push_back` after `pop_back` that
  stores in the wrong slot (a finding).

`back()` reads outside the buffer in two cases: after `push_front` on an empty queue,
since `push_front` never sets `_tail`, and after `pop_back` has taken `_tail` below zero
on a queue whose items wrap.  `BackWhenStored` states what remains true.

Capacities up to 4 let every slot be first, last and wrapped over; two values
tell items apart; two objects suffice for `=`.

### FrameReceiver

`queue` is `queue_buff`; `pc` is `"read"` at the top of the outer loop and
`"scan"` in the inner one; `old_seq` is the static array of each branch.  One
round of the inner loop is one of `SkipByte` (no header, bad length, bad sum:
pop one byte), `Await` (leave the loop) and `Accept` (pop the frame, compare the
sequence numbers); `Verdict` is the chain of tests in the order of the code.
The classes `Frame` and `CircularBuffer` are not in the repository and are
modelled from their use; the checksum is the one `protocal_test/generate_data.cpp`
fills in.  A frame is `<<type, length, seq, payload, sum>>` in bytes of three
bits.  The type byte stands for header, class and sensor id, which together
select the sequence number a frame is compared with.  Only frames of `Compared` types
are compared and reported, as only Optic, Groove and IMU frames are in the code; the
others are taken without a look at their number.

The board sends frames numbered from any start, in one datagram or cut in two;
datagrams are lost, duplicated, reordered, and others may send to the port.
`recvfrom` truncates a datagram that is larger than the buffer.

- `frame`: `CutsMakeNoDifference` compares what was taken with a reference that
  reads all bytes as one piece; `QueueFits` says that the queue never overflows: with
  `QueueSize` = `maxSize` - 1 + `ReadSize` it has just the room for a partial frame and a
  read, and a receiver that accepts any length behind a header fills it;
  `ReportsAreExplained` says which reports a clean line produces (a first number
  other than 1, the wrap to 0: the code compares without the modulus);
  `SilenceMeansNoLoss` says that without a report no frame is missing between those
  taken of a type, none was taken twice and none out of order: they are one run of the
  frames sent (`TakenInOneRun`).  It needs fewer frames sent than there are sequence
  numbers (3 and 4 here; in the code the range is that of `CheckSeq`, which is not in the
  repository), otherwise a whole round could be lost unseen.  `ScanEnds` and
  `UndisturbedFramesArrive` are the liveness.

A behaviour is about bytes (two frames of both lengths, cut anywhere, and a
datagram of somebody else) or about numbers (a third frame and a second fault,
with frames that are alike and come whole).
Two frames of two types and two lengths, cut at every byte, and one datagram of
another sender per run reach every branch of `Verdict`: a payload byte that
reads like a header, a header in front of a genuine frame, a length that is too
long and a datagram longer than a read.  The buffer is exactly as large as the
theorem requires.  A false header can hold whole frames in the queue until more
bytes come; that is what the code does, and why `UndisturbedFramesArrive` speaks
of clean lines.

### UUIDs

`UuidClock`: `adjustment`, `last`, `clock_seq` are the statics of `get_clock`; one
action per branch of the comparison with `last`, each reading the clock once.
`goto try_again` changes nothing and is a stutter.  Times are counted in
microseconds; a stamp is the pair of `clock_reg` and `clock_seq`, which is all in
which two time UUIDs of a process differ.

`UuidFormats` is written in terms of `Nibble`, the number of values of a hexadecimal
digit, and so are all masks of the code (`0x8000` is half a clock_seq).  With 16
it is the code; the run takes 8, so that the 32-bit integers of TLC hold a time.
The upper twelve bits of a time stay 0 there.

`UuidGenerate` is what surrounds `get_clock`: the random device, opened once in a
process and perhaps missing, read in pieces and with failures; the node id, from a
card or drawn; the version and variant bits.  What `get_clock` answers is left open
(any time and adjustment), which covers what `UuidClock` says it answers.  The two
halves are checked side by side and not composed: `uuid_generate_time` calls
`get_clock` once and puts its answer through.

- `uuid`: stamps of one `clock_seq` are ordered; equal stamps occur only on
  consecutive calls across the edge of a microsecond; every call returns.  A UUID
  that was made has the variant and version of the function that made it and gives
  back its microsecond, whatever bytes were drawn (`GeneratedAreWellFormed`).  Its
  text parses to it, other texts that parse are texts of what they parse to, and
  `uuid_compare` is an order (`FormatsAgree`).  A call returns although the device
  may fail for ever: 18 failures in a row end the loop (`GenerateEnds`).
- `uuid_duplicate` finds a pair of equal stamps (a finding: `MAX_ADJUSTMENT` should be
  below the ticks of a microsecond; `NoDuplicatesBelowEdge` proves that this is
  enough).

Two ticks per microsecond, four instants, two steps back and six calls let one
microsecond be exhausted twice and be revisited with the same `clock_seq` range.
Bytes with all bits, no bit and one bit set show each mask; the times lie around
a carry from `time_low` to `time_mid` and around a second.

### ZeroMQ

`ZmqTransfer`: the two `main1` functions.  The sender's state is its stream (`pos`, `eof`,
`fail`), `begin_flag` and what its REQ socket allows (`req_state`); the
receiver's is recv.txt (`out`) and `finish_flag`.  `GetLine` follows
`ifstream::getline`: the last line without a newline sets eofbit, an empty read
at the end sets both bits, a missing file or a line of 255 characters or more
sets failbit only.  `Restart` kills the sender and starts it again on a new
connection; a request it had sent may still be served.

`MultipartSocket`: a `Send2Parts` or `Send2Strings` is two steps, between which
another thread may send on the same socket, as `main2` and `main3` do on the PUB
socket `main1` gives them.  ZeroMQ joins the parts up to the next one without
`ZMQ_SNDMORE` into a message, whoever sent them, and delivers or drops it whole.
The reader calls `Recv2Parts` (`main1`) or `RecvAllMessages` when `ZMQ_POLLIN` says
that something can be read.  The asserts are compiled out: in a debug build `main2`
and `main3` abort, as they bind a socket to a context (`zmq_bind(context, ...)`), and in
a release build the sockets they read are on contexts where nothing is bound, so
that nothing reaches them; the model is of the rest.

- `programs`: for every file of up to three lines over five lines of interest, and a
  missing one, and two senders: what arrives (`AllButFirstArrive`), when both programs
  end, also why a stream that failed never ends (`TransferEnds`), and when neither
  can (`EarlyEndStrandsSender`).  `intruded` is the one case in which a restart damages
  recv.txt: a request of the killed sender is served after its successor's
  `begin_str`.
  For the messages: as long as no two threads are between their parts at once, a
  receive gives the title and the data of one call (`PairsArriveTogether`); with them
  or without, no part is lost, repeated or invented by a receive that finds too few
  or too many, and a `RecvAllMessages` that answers 0 has taken all that was there
  (`PartsStayInOrder`); and when the threads stop, the queue is read to its end
  (`Drained`).
- `zmq_first_line` finds that the first line never arrives (a finding).

Two things of the helpers are visible and not claimed: `RecvAllMessages` does not
return as long as a publisher is faster than it, and `Recv2Parts` answers 0 both
when it has a message and when there was none.  A queue of two messages and four calls
let a message be dropped between two others, and the parts of three calls mix.

### DeviceFds

`table[f]` is whoever opened descriptor `f` (a device object, the rest of the
program, or nobody), `fd[d]` the number the object keeps (`m_spifd`, `_fd`,
`broadcastSocket_`, the int of a caller of `spi_open`).  The kernel hands out the
lowest free number and closes whatever number it is given: that is how a number
that was kept becomes another's file.  Every call is one action with each of its
failures as a disjunct; calls that fail without a trace (a baud rate the switch
does not know, `tcsetattr`) leave all variables alone and are stutters.
`SpiReject` is `setConfig` with an ioctl that fails; `serialSetFd` takes over a
descriptor of the program.  Calls of two threads into one object are not
modelled: no program of the repository makes any.

A program has a set of `faults`, what may go wrong in it, and each property says
without which of them it holds:

| Fault | Code | Breaks |
|---|---|---|
| `close` | `serialClose` keeps `_fd`; the destructor closes it again | `EachItsOwn` |
| `reject` | `setConfig` closes and keeps `m_open` | `EachItsOwn` |
| `setup` | `serialOpen` after `wiringPiSetup`, `spi_open` after an ioctl return without `close` | `NothingIsLost` |
| `reopen` | `serialOpen`, `UdpDevice::begin`, `serialSetFd` overwrite the number they have | `NothingIsLost` |
| `stdin` | descriptor 0 is free; `~UdpDevice` takes it for none | `NothingIsLost` |

The run `devices` has three programs, each with its faults: `setup`, `reopen` and
`stdin`, where `EachItsOwn` says something; `close` and `reject`, where
`NothingIsLost` does (objects close files of others, but no file is forgotten);
and all five, where nothing is claimed but for SPI: `begin` closes on each error
and returns early when there is a descriptor to lose, which is proved
(`SpiKeepsTrack`).

Five objects over three descriptors let the table fill up, and leave room for the
three parties of a wrong close: the one that kept the number, the one that has
it now and one that gets it afterwards.

### SpiSettings

A call that sets something up is a list of ioctls, writes and reads in turn, one
step each, so that another user of the same device comes between.  `hw` is what
the driver has, `cfg` the copy: `m_spiconfig`, the struct given to `spi_open`, or
the variables of `spidev_test`.  The driver refuses a mode the controller does not
have and lowers a speed that is too high.

`setSpeed` stores the speed it reads back in the `mode` of the copy.  The run
`devices` shows two consequences and a limit.  `SettingsFollowDevice`: the copy is
what the device does, and transfers are made alike, only until `setSpeed` was
called; after it `spi_write` and `spi_read` go on with the old speed, and `xfer`
with the new one.  `SpeedNeverBecomesMode`: the stored speed reaches the device's mode
through no sequence of calls, because `begin` returns early on an open object, and
every `setConfig` replaces the copy before it writes.  The properties also except
what other users wrote since and what followed a call that failed.

One object and one other program, four calls, two configurations and a speed above
the controller's let every pair of ioctls of two calls interleave.  `begin`
answers true on an object whose descriptor a failed `setConfig` has closed; that is
the fault `reject` of `DeviceFds`.

### Rs485

`serialWrite` is three steps, between which other threads run: `Drive` (pin
HIGH), `Write` (any part of the buffer goes to the port, then the thread sleeps
`len * (10000000 / _baud + 1)` microseconds) and `Reset` (pin LOW).  A byte is
10^7 units of work and a port does `_baud` of them in a microsecond, so that the
comparison of sleep and transmission is one of integers.  A thread may be late at
any step, never early.  `serialOpen` sets the pin LOW, `serialPuts` stands for the
three calls that write without the pin.  `use` says how the program uses the
class: one call at a time or not, and with those three calls or without.

The run `devices` has all four uses with three threads.  `DrivenWhileSending`: with one
call at a time, of `serialWrite`, nothing is transmitted with the pin LOW.  The
division leaves a rest in the run (7 by 3), so without the `+ 1` it fails.
`ReleasedAtRest`: in every use the pin is LOW when no thread is in a call.

`DrivenWhileSending` says nothing about threads that overlap, where the first to
finish turns the converter off for the others; no program of the repository
does that.  It also leaves out `serialPutchar`, `serialPuts` and `serialPrintf`
(`SerialDev.cpp:155`-`178`), which transmit with the converter off although the
comment at line 126 says that the pin must be set.

`usleep` takes an unsigned and the product may wrap (`UMod`); the theorem assumes
`NoWrap`, buffers of less than 71 minutes.

### KeyboardFbdump

`Readdir` is one round of `get_keyboard_dev`, `ReadEvent` one round of the loop of
`main`, `mw_system` the start of fbdump and `ResetFlags` the return of `waitpid` with
the assignments behind it.  The kernel queues events for an open device; when
the queue is full it empties it and leaves a mark.  A listing is a sequence of
other devices, keyboards (with autorepeat) and copies of them (without, and they
send no events), which is the distinction the comments of the search make.
`get_keyboard_dev` ends without a `return` after the last entry; what `main` takes
for its result makes no difference, since the program ends either way when no
keyboard was found.

`programs`: a picture needs a press and a release of its own, and every press is
answered unless vfork failed, events were dropped or the keyboard was unplugged.

Two things the program does against its comments are visible in the model and not
claimed as properties: the condition that should end the search at the original
keyboard (`KeyboardFbdump.cpp:200`) never holds, so the last keyboard listed is
taken even if it is a copy that sends nothing (the properties speak of a
keyboard that does); and fbdump is named by a path relative to the directory the
program runs in (line 379, whose comment says `/home/edan/bin`), so whether a
picture is written depends on that directory.

A queue of three events is full after a press, a release and one more; three
presses leave a second one queued while the first is answered.  `EveryPressShot`
does not claim that events dropped by the kernel are made up for.

### Protobuf messages

`InteractionCodec`: protoc unrolls the same loop over the fields in every method of
every class.  The loop is written once; what a class contributes are the fields
each method names (`...Read`, `...Written`, `...Sized`, `...Merged`, `...Required`), read
from that method, so that a method that forgets a field would show.  A message is a
function from the fields that are present to their values, with the entries that
were read and not understood.  Tags, lengths and values take one byte (below
128), so the varint itself is left out.

`InteractionObjects`: an object is its has-bits, its fields whether present or not,
and pointers to inner objects, which a heap holds.  The bits are numbered as the
header numbers them; `Clear`, `MergeFrom` and the copy constructor go through them as
their masks do.  The program keeps the rules of the library (it deletes or gives
away what it owns, and writes through a pointer while the field is set), and memory
does not run out: what needs new addresses (`Placings`) waits until there are some.
`InteractionValues` is what it expects: objects are values, no operation on one
changes another, and nothing cleared comes back.

`MessageLog`: a writer truncates `./log`, writes pieces at its own offset, the last
of them from the destructor of the stream, after `main` has decided to return 0.
Writers may be killed, may find that `./log` cannot be opened, or meet a full disk.  The
reader reads pieces until one is
empty and lists what it can parse.

`interaction`:
- `AbsentReadsDefault`: a getter does not look at the has-bit, so whatever is absent
  must hold its default, in kept inner objects too.  `OneOwner`: every inner object is
  held by exactly one field or by the program.  `ImplementsValues` is the refinement.
- `RoundTrips`: what is written is read back, in as many bytes as `ByteSizeLong`
  said, also through a program built from the .proto file as it is now, which no
  longer has `term_config`.  `ConcatenationMerges`: two messages one after the other
  read as the two merged.
- `LogTellsTheTruth`: what the reader lists is the latest writer's message, or the
  beginning of it cut between two fields, whatever was killed or full; and when a
  writer has returned 0 its message is there, unless the disk was full.  Excepted are
  writers that open the file over another's work, when the bytes of two messages can
  mix.  A shortened message is listed as if it were whole: it needs `msg_id` only.

Five operations on two objects, with three addresses, let an inner object be made,
cleared, released and given to another object; one field of each kind is used
(number, inner message, list).  The buffer is smaller or larger than a message.

### Utility

`DebugLog`: the two appending functions.  The size is looked up before the file is
opened; a file found too large is opened with `w+` and written at an offset of its
own, otherwise with `a+`.  stdio writes when its buffer is full and at `fclose`.
The lock of stdout keeps the `stack_trace` calls of one process apart, and lets
`printf` of another thread wait.  A failed `fopen` is followed by `fclose(NULL)`, which
ends the process.  `LogIsBounded`: a file passes the limit by at most a record of
each thread.  `KeptAreComplete`: a record stays whole until a later call empties the
file, unless a call that emptied it was still writing.

`HardwareClock`: the kernel's clock is read, the machine's is set, then the kernel's;
time passes, other callers come between, and every step may fail.  `ClocksAgree`:
after an update that met no other and in which `stime` worked, the kernel's clock is
behind by the seconds between the two settings and no more.  `update_hardwave_kernel_time`
answers true also when `stime` failed; the property excepts that case.

`MiscText`: positions count from 0 and npos is -1.  `MiscNumbers`: a float is a count of
units; that a float is not exact is left out.  `HelpersAgree`: `distill_string` finds
the pieces between separators (an empty one at the end is not found); `trim` and
`ltrim` cut spaces and nothing else; the comparisons are an order with an equivalence at each precision;
`enforce_round_float` keeps the order of numbers; rounding twice in `to_string` is rounding
once, to the decimals it looks at.  It says nothing of `rtrim`, and no more of
`to_string`: what their comments promise does not hold (below).  Numbers whose text
is longer than the buffer of `calc_float_bits` are left out.  `TextLoopsEnd`: `replace_char` ends, unless both characters are the same and
the string has it.

- `utility`: the queues of `AQueue`; two threads of one process and one of another,
  four calls, kills (a line may take one write or two, a stack trace takes two,
  `LongTraces`); two callers of the clocks; every string of up to four characters over
  a space, a separator and a letter; numbers around every rounding edge, with one digit more than
  `calc_float_bits` looks at.  Exchanging the two threads of a process is a symmetry of
  the log files, exchanging the two queues one of the queues.  In the behaviours about
  strings, of which `TextLoopsEnd` speaks, neither takes a step, and `ImplementsDeque`
  is a step property.
- `udifftime` finds that the difference of two equal instants is -30 seconds,
  `rtrim` that it erases what it should keep and keeps the spaces at the end, and
  `to_string` that digits behind the last decimal it looks at are not shown, though the
  comment promises six significant ones (findings).

## Fairness

- `FrameReceiver`: weak fairness of the receiver's loop, a `while(true)` that
  nothing blocks but an empty line.  None for the board and the network.
- `UuidClock`: weak fairness of the clock (it runs on) and of the calling thread.
- `UuidGenerate`: weak fairness of the thread that generates.  None for the device:
  it may fail for ever.
- `ZmqTransfer`: weak fairness of the sender's and the receiver's programs;
  restarts are not constrained, and ZeroMQ delivers (TCP, one host).
- `MultipartSocket`: weak fairness of the reader and of each publishing thread.
- `KeyboardFbdump`: weak fairness of the program's loop, `select` with a timeout;
  that includes that fbdump, for which it waits, ends.  None for the user.
- `MiscText`: weak fairness of the loop of `replace_char`.
- The other modules have no liveness.

Deadlock is checked in `aqueue_popback`.  In the others the environment is bounded
(clock, calls, frames, edits) or the programs really end.

## Bounds

`MaxTime`, `MaxBack`, `MaxCalls`, `MaxMade` (UUID), `MaxSends`, `MaxFaults` (frames),
`MaxSenders`, `MaxOut` (transfer), `MaxPublished`, `HighWater` (messages; a queue of
ZeroMQ has such a limit), `MaxFd` (descriptors; the kernel has such a limit too),
`MaxCalls` (calls that reach the SPI driver), `MaxWork` (the output queue of a port),
`MaxPresses` (screenshots), `MaxEdits`, `MaxList` (operations on message objects),
`MaxRecord`, `MaxLogged` (log files), `MaxTicks`, `MaxUpdates` (the machine's clocks),
`MaxText` (strings).  `MaxOut` cuts short only the sender that never ends; it is
larger than any file.

## Proofs

All by `tlapm`, for every value of the constants that satisfies the named
assumptions.

- `UtilityProofs`, `AQueue`.  `TypeOK` alone is not inductive for the refinement: it lets
  `_tail` point anywhere.  The strengthening is `Linked`, that the slot after
  `_tail` is the one after the last item (`TailFollows`).  The rest is
  arithmetic on ring slots (`ModOnce`, `RingSlots`) and one step per method:
  each maps to the step of `BoundedDeque` of the same name, reads of an empty
  queue to none.  With `push_front` and `pop_back` the argument needs
  that each capacity divides `UMod` (`Divides`): then wrapping `_tail` below zero
  agrees with the slots, and `aqueue_popback` shows that the assumption is needed.
- `FrameReceiverProofs`.  `QueueFits` is not inductive; `IInv` adds
  `OnlyAPartialFrameWaits` for the top of the loop and `ScanBounded` (one partial
  frame plus one read) for the inner loop.  `QueueNeverOverflows` assumes
  `maxSize - 1 + ReadSize <= QueueSize`: with 2048 and 4096 as in the code,
  frames of up to 2049 bytes.
  `CutsMakeNoDifference` follows from `SameFrames`: whatever bytes come next, the
  reference finds in all of the input what has been accepted and then what it finds
  in the queue.  It is kept by a byte skipped, a frame accepted (both are what the
  reference does with the head of the queue), and bytes read.
  `ReportsAreExplained` needs that on a clean line the frames sent are those
  accepted and those still in the queue or on the line (`WholeLine`), numbered without
  a gap (`Numbered`), and that `old_seq` is the last number accepted (`LastIsKept`);
  that the reference finds exactly the frames in what was sent needs frames that fit
  into one read (`FitAssumption`).
  `SilenceMeansNoLoss` is proved for every behaviour up to a round of numbers
  (`SilenceIsTrusted`).  `SilenceInv` says that whole frames stay whole (`WholeFrames`),
  that the n-th frame sent of a type has the n-th number from its start (`Ranked`), and
  that what was taken of a type without a report has the numbers 1, 2, and so on up to
  `old_seq`, in this order (`SilentIsCounted`).  Frames one number apart are then
  neighbours among those sent (`NextHasNextRank`, `OneRun`).
- `UuidProofs`, the clock.  The invariant bounds every stamp of the current `clock_seq`
  by `last` and `adjustment`, and counts `clock_seq` against the times the clock
  was set back, so that no value is used again (`MaxBack < SeqMod`).
  `DuplicatesOnlyOnTheEdge` needs, too, that with an adjustment only the last stamp
  reaches as far as it does (`OnlyLastReaches`), and assumes that an adjustment is at
  most the ticks of a microsecond (`Fits`), as in the code.
- `UuidProofs`, the UUIDs.  A number has one quotient and one rest (`DivIs`), and dividing
  twice is dividing by the product (`DivDiv`).  From these, packing and unpacking are
  inverse (`PackUnpack`, `UnpackPack`), for every width of a digit, and the masks for
  variant, version and time give back what was put in (`ThirdQuarter`, `VersionOverTime`,
  `ThreeFields`, `TicksToTime`).  `GeneratedAreWellFormed` also needs that the node and
  `clock_seq` are in range once they are set, and that bytes are drawn only for the
  function that runs (`JobIsWanted`): `"random"` for the version of the UUID they become.
  `FormatsAgree` (`TextsAndOrder`): a text that has the form of a UUID is that of its 32
  digits (`Shown`), so writing and reading are inverse because two digits are a byte
  (`HexOfWord`, `HexOfLong`, `UnparseOfParse`); `uuid_compare` looks for the first field in
  which two differ (`FirstDifferenceIs`), and the fields of two UUIDs are the same only
  if these are (`FieldsOnce`).
  `TimesAssumption` says that a time has 60 bits.
- `ZmqProofs`, the transfer.  A lockstep: until the receiver has served `begin_str` nothing
  else is sent (`OpeningInv`), and after it recv.txt is what the sender has read, but for
  the first line and one in transit (`CopyInv`).  It needs where the stream stands
  (`StreamInv`), what may be in transit in each phase (`WireInv`, `PhaseInv`), and that
  `begin_str` is neither `end_str` nor blank.  `EarlyEndStrandsSender` is `Stranded`: no
  reply can come to the request the sender waits for, nor to any of a later start.
- `ZmqProofs`, the messages.  The parts that found room are cut into those read, the rest
  of the message being read, the queue, and the message not ended; `InOrder` says
  that each piece stands where the one before it ends.  `PairsArriveTogether` then
  needs that without mixing one thread at most is between its parts and that the message
  built is its title (`OneAtATime`).
- `DevicesProofs`, `DeviceFds`.  `EachItsOwn` needs that an object which does not exist has
  no number (`ClaimsOwn`), otherwise a new one would start with an old number.
  `SpiLosesNothing` is inductive with the types under every fault.  `NothingIsLost`
  needs `ZeroIsTaken`: the program never closes descriptor 0, so no socket gets it.
- `DevicesProofs`, `Rs485`.  `DrivenWhileSending` needs, for the port of a thread that sleeps,
  that its remaining work is at most `left * baud`, and that all other ports are
  quiet (`Covered`, `Alone`).  The arithmetic is in `SleepCovers` (the sleep, rounded
  up per byte, covers the bytes) and `TickCovers`.  It assumes `NoWrap`.
- `DevicesProofs`, `SpiSettings`.  `SpeedNeverBecomesMode` needs that whoever is about to write
  the mode has one that was asked for (`WritesAskedFor`), that every list of ioctls
  writes it first or not at all (`ModeIsFirst`), and that only an open object has a
  speed there (`ClosedIsClean`, from `OpenIsOpen`: before `begin` answers, an object
  with a descriptor is in `begin`).  `SettingsFollowDevice` holds only between calls;
  its strengthening (`Synced`) says that during a call the copy and the device differ
  in the fields that are still to be read back, which needs that a list of ioctls
  reads next what it writes (`Paired`) and a setter keeps to its field (`OwnField`).
- `KeyboardFbdumpProofs`.  Counting pictures against presses is not inductive: the releases
  in the queue are pictures to come.  `Earned` counts them, and the picture decided on.
  One release may have no press, that of a key held when the program started; it
  comes before every press in the queue (`OneForNothing`, `HeldIsQuiet`) and is read to no
  effect.
- `InteractionProofs`.  `OneOwner` and `AbsentReadsDefault` need each other: a getter of a
  kept inner object is right only if nobody else can have written to it.  `ObjectsInv`
  says that every object is `Sound` (what it lacks is as new, its fields hold inner
  objects of their class, no two the same one), that objects hold nothing in common
  (`Apart`), that what the program owns is held by none (`LooseIsSound`), and that an
  address in use has a holder (`NoLeak`).  Most operations are one step of one object
  (`ObjectStep`): it keeps or deletes what it holds, and what it adds is new.  That
  `Clear` and `MergeFrom` reach every field rests on the numbers in their masks being those
  of the accessors (`BitsAreOrdered`, `InteractionBits`).  Assumed: the fields are of
  the kind their accessors are for (`FieldsAssumption`), addresses are numbers other
  than `NULL`, a free address is told from one with an object, and `NoInfo`, which
  `InteractionValues` has where the program owns nothing, is no inner message
  (`InfosAssumption`).
  The refinement `ObjectsAreValues` is proved on top.  Its mapping takes an object to the
  fields whose has-bit is set (`View`; `MessageOf` in the proofs) and the pointer to the
  inner message it owns, if any.  The lemma of each operation says which step of
  `InteractionValues` it is, from three facts: a sound object's message depends on
  nothing but its own inner objects (`MessageElsewhere`), so that a step of one object
  changes one value (`ChangeStep`); a field set, taken away or kept is that in the message
  (`MessageSet`, `MessageUnset`, `MessageSame`); and merging field by field, with the inner
  objects that have to be made, is merging the messages (`MessageMerge`, `MergedIsSound`).
  It needs the invariant at every turn: `mutable_` after `clear_` gives an empty message
  only because what is kept is as new.
- `InteractionCodecProofs`.  An induction over the bytes, made once for the sequence of
  entries they consist of: bytes written entry by entry are read as these entries
  (`EntriesOfBytes`).  The bytes of one field take a message that is being read from one
  value to the next (`Moves`; `TakeScalar`, `TakeMessage`, `TakeElement` are the three
  kinds of fields), so those of a message take what was read before to what `MergeFrom`
  makes of the two (`WholeMoves`).  It needs that a class's methods agree on its fields: each
  is written once and measured once, and reading knows what is written (`InnerClass`,
  `SizedClass`, `OuterClass`, which the five classes of the repository are shown to be);
  that in the code these are unrelated pieces of generated text is the point of the theorem.
  The beginning of a message's bytes (`CutIsRead`) is a beginning of its entries and, unless
  the cut is between two, a piece of an entry, which is refused (`CutBytes`).  Between two
  entries what has been read is one of the points on the way from the empty message to the
  whole (`Along`, `WholePoints`), and each of these is the message cut short (`PointsAreCut`);
  here the fields have to be written in ascending order.
- `InteractionProofs`, the bytes.  `RoundTrips` and `ConcatenationMerges` follow for the
  messages that objects can stand for: `ValuesKnown` says that these have fields of their
  classes, with values of their kinds, and it is kept by every step of
  `InteractionValues` and so, by the refinement, of the objects.  A program without
  field 9 keeps it among the unknown fields and writes it after the others; read again it is
  the same message.  Sizes are compared with the bytes because an inner message is read by
  the length `ByteSizeLong` has promised.  As in the model, a field number with its type, a
  number and a length take one byte each; the codes of longer ones are those of the
  library.
- `InteractionProofs`, `MessageLog`.  What is said of the reader's listing needs what is in
  the file and in the reader's hands before.  `LogInv` says that as long as no writer
  opened the file over another's work, or at the reader's, the latest writer is the only
  one, the file holds the bytes up to its offset and the reader has the beginning of them
  (`OneWriter`); that the file holds a beginning of the same bytes whoever writes, if all
  write the same in one piece (`AllTheSame`); and that a reader which met no writer reads a
  file nobody touches (`ReaderAlone`).  `MessagesAssumption` only says what a writer may be
  built with: fields of the class, with values their setters take, and nothing required
  missing.  What the bytes of such a message do is proved (`BytesOfMessage`, from
  `WholeReads` and `CutIsRead`): all of them read as the message, and the beginning of
  them is refused or reads as the message cut short.
- `UtilityProofs`, `DebugLog`.  The bound on the files is not inductive: a thread that
  has measured a small file has still to write.  `RoomLeft` counts what is in a file
  with what the threads that append to it have still to write, and `OpenFiles` says that
  a thread which emptied a file stays within one record.
  `KeptAreComplete` is about records that are done; `KeptInv` says the same of those under
  way: as long as nobody who has emptied the file is at it, the cells of a record in the
  file are those its thread has written, in order (`RecordsAreUnderWay`,
  `NothingTooEarly`), a thread that has emptied the file has it for itself
  (`EmptiersAreAlone`), and what is done stays so until it is emptied (`KeptAreOver`).
- `UtilityProofs`, `HardwareClock`.  `ClocksAgree` needs to know, between the two settings,
  that the machine's clock is the new time and the seconds since (`RtcIsKnown`), and that
  a call which met no other is the only one under way (`AloneIsAlone`), so that nobody
  else has set it.

The theorems `FifoTypeCorrect`, `FifoBackIsNewest`,
`NoDuplicatesBelowEdge`, `Typing`, `LineTyping`, `TypesHold` and `SpiKeepsTrack` are stated for
invariants no run lists: they are parts of the inductive invariants, or hold under an
assumption the instance does not meet.

The reference of the frame receiver is a recursive function of the bytes, `FramesIn`.
That it exists, and what it does with longer inputs, is an induction on their
length, made with sets of numbers instead of predicates (`NatSetInduction`): a set of
numbers with no least element is empty.

Only model-checked:
- All liveness, with `UndisturbedFramesArrive`: the prover has no `ENABLED`.
- The helpers of `MiscText` and `MiscNumbers` (`HelpersAgree`): each is an induction over the
  characters or the digits of its argument, against a definition of another shape.

## Not modelled

- `tcp_test`, `udp_broadcast`, `std_thread_test`, `stl_test`, `cpp_base`, `iostream_test`,
  `serial_test` and the programs in `device_test/testCase` other than the receivers:
  straight-line programs that keep nothing from one exchange to the next.
- Of the message classes: arenas, descriptors, reflection and text formatting.
- `get_current_localtime` and `utf8_to_utf16` (calls of the C library), `is_leap_year` and
  `min_for_int` (one expression each).
- The variant of the file transfer in the `main` functions, which sends the whole
  file as one message; the single-part helpers of `MyZmq.h`.
- `get_clock` from two threads: the statics are not protected, and no program
  does it.  `get_node_id`'s walk through the network cards is one step.
- Reads of a queue past its size, and the index into `old_optic_seq` by sensor id,
  whose range is fixed by a class outside the repository.
- Names of pictures, which two pictures of one second share; what the loop of
  `KeyboardFbdump` should do when the keyboard is gone.
- What an SPI transfer carries, failing reads of a device (they change nothing), the
  contents of log lines and prints.

## Plan

1. `SpiSettings` composed with `DeviceFds`: transfers through a descriptor that was
   closed.
2. `UuidClock` with two callers, and `UuidGenerate` over it.
3. `FileTransferBlock`: the `main` functions of the two transfer programs.
