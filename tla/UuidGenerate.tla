----------------------------- MODULE UuidGenerate -----------------------------
(***************************************************************************)
(* The generating side of UUID/gen_uuid.c around get_clock: the random     *)
(* device that is opened once and may fail, the node id that is looked up  *)
(* once, and the bits that uuid_generate_time and uuid_generate_random set *)
(* before they pack a UUID.                                                *)
(*                                                                         *)
(* What get_clock answers, a time of day with an adjustment and a          *)
(* clock_seq, is left open here: UuidClock says which answers it gives.    *)
(* Random bytes are drawn from a small set.                                *)
(***************************************************************************)
EXTENDS UuidFormats

CONSTANTS GiveUp,       \* 16 in the code: lose_counter++ > 16
          MaxAdjustment, \* MAX_ADJUSTMENT, 10 in the code
          Times,        \* what gettimeofday may return, in microseconds
          RandomBytes,  \* the sequences of 16 bytes that may be drawn
          Card,         \* the hardware address of the machine's network card
          MaxMade       \* bound: UUIDs generated

ASSUME GiveUpAssumption == GiveUp \in Nat /\ MaxAdjustment \in Nat /\ MaxMade \in Nat
ASSUME BytesAssumption == /\ RandomBytes \subseteq [1..16 -> 0..Byte - 1]
                          /\ Card \in [NodeBytes -> 0..Byte - 1]

(* The three fields of a time have 60 bits, which last until the year 5236. *)
ASSUME TimesAssumption ==
    /\ Times \subseteq Nat
    /\ \A t \in Times : (t * Ticks + MaxAdjustment + Epoch) \div Long < Word * Version

VARIABLES fd,           \* static fd of get_random_fd: "unset", "open" or "none"
          node, seq,    \* static node_id, and clock_seq of get_clock; <<>>, -1: unset
          how,          \* "idle", or the function that runs: "random", "time"
          job,          \* what get_random_bytes fills: "uuid", "node", "seq" or nothing
          left, lost,   \* its n and lose_counter
          made          \* history: the UUIDs, with the time they were made from

genVars == <<fd, node, seq, how, job, left, lost, made>>

NoJob == "none"

GenInit ==
    /\ fd = "unset" /\ node = <<>> /\ seq = -1
    /\ how = "idle" /\ job = NoJob /\ left = 0 /\ lost = 0
    /\ made = <<>>

(* The outcomes of get_random_fd, which opens a device in the first call.  *)
RandomFd == IF fd = "unset" THEN {"open", "none"} ELSE {fd}

-----------------------------------------------------------------------------
(* uuid_generate_random, uuid_generate_time, and uuid_generate, which asks *)
(* get_random_fd which of the two to use.                                  *)
Generate ==
    /\ how = "idle" /\ Len(made) < MaxMade
    /\ \/ how' \in {"random", "time"} /\ UNCHANGED fd
       \/ /\ fd' \in RandomFd
          /\ how' = IF fd' = "open" THEN "random" ELSE "time"
    /\ UNCHANGED <<node, seq, job, left, lost, made>>

(* get_random_bytes starts. *)
Fill(j, n) ==
    /\ job' = j /\ left' = n /\ lost' = 0
    /\ fd' \in RandomFd

(* The bytes a function needs next. *)
WantBytes ==
    /\ job = NoJob
    /\ \/ how = "random" /\ Fill("uuid", 16)
       \/ how = "time" /\ node = <<>> /\ Fill("node", 6)
       \/ how = "time" /\ node # <<>> /\ seq = -1 /\ Fill("seq", 2)
    /\ UNCHANGED <<node, seq, how, made>>

(* get_node_id finds a card with an address. *)
FindNode ==
    /\ how = "time" /\ node = <<>> /\ job = NoJob
    /\ node' = Card
    /\ UNCHANGED <<fd, seq, how, job, left, lost, made>>

(* One read in get_random_bytes, of as many bytes as the device has. *)
ReadSome ==
    /\ job # NoJob /\ fd = "open" /\ left > 0 /\ lost <= GiveUp + 1
    /\ \E k \in {1, left} : left' = left - k
    /\ lost' = 0
    /\ UNCHANGED <<fd, node, seq, how, job, made>>

(* A mutated form: a read that fails is not counted. *)
ReadFailsUncounted ==
    /\ job # NoJob /\ fd = "open" /\ left > 0 /\ lost <= GiveUp + 1
    /\ lost' = IF lost > GiveUp THEN lost + 1 ELSE 1 - lost
    /\ UNCHANGED <<fd, node, seq, how, job, left, made>>

(* A read that fails is tried again, GiveUp + 1 times in a row. *)
ReadFails ==
    /\ job # NoJob /\ fd = "open" /\ left > 0 /\ lost <= GiveUp + 1
    /\ lost' = lost + 1
    /\ UNCHANGED <<fd, node, seq, how, job, left, made>>

(* The loop is over, or never ran; rand() is mixed into all bytes. *)
Filled == job # NoJob /\ (fd = "none" \/ left = 0 \/ lost > GiveUp + 1)

FillReturns == job' = NoJob /\ left' = 0 /\ lost' = 0

Made(u, t, adj) ==
    /\ made' = Append(made, [u |-> u, how |-> how, t |-> t, adj |-> adj])
    /\ how' = "idle"

(* A node id that was drawn has its multicast bit set. *)
NodeFilled ==
    /\ Filled /\ job = "node"
    /\ \E r \in RandomBytes :
          node' = [i \in NodeBytes |-> IF i = 1 /\ r[i] % 2 = 0 THEN r[i] + 1 ELSE r[i]]
    /\ FillReturns
    /\ UNCHANGED <<fd, seq, how, made>>

SeqFilled ==
    /\ Filled /\ job = "seq"
    /\ \E r \in RandomBytes : seq' = (r[9] * Byte + r[10]) % (Word \div 4)
    /\ FillReturns
    /\ UNCHANGED <<fd, node, how, made>>

(* A mutated form: the version is set without clearing what was there. *)
RandomFilledKeepsVersion ==
    /\ Filled /\ job = "uuid"
    /\ \E r \in RandomBytes :
          LET uu == uuid_unpack(r)
          IN  Made(uuid_pack([uu EXCEPT
                     !.clock_seq = (@ % (Word \div 4)) + (Word \div 2),
                     !.time_hi_and_version = IF @ < 4 * Version THEN @ + 4 * Version ELSE @]),
                   0, 0)
    /\ FillReturns
    /\ UNCHANGED <<fd, node, seq>>

(* uuid_generate_random: the variant and version 4 *)
RandomFilled ==
    /\ Filled /\ job = "uuid"
    /\ \E r \in RandomBytes :
          LET uu == uuid_unpack(r)
          IN  Made(uuid_pack([uu EXCEPT
                     !.clock_seq = (@ % (Word \div 4)) + (Word \div 2),
                     !.time_hi_and_version = (@ % Version) + 4 * Version]),
                   0, 0)
    /\ FillReturns
    /\ UNCHANGED <<fd, node, seq>>

(* uuid_generate_time with an answer of get_clock: the ticks since 1582 in *)
(* three fields, the variant and version 1                                 *)
StampOf(t, adj, s) ==
    LET reg == t * Ticks + adj + Epoch
        clock_mid == reg \div Long
    IN  uuid_pack([time_low |-> reg % Long,
                   time_mid |-> clock_mid % Word,
                   time_hi_and_version |-> ((clock_mid \div Word) % Version) + Version,
                   clock_seq |-> s + (Word \div 2),
                   node |-> node])

Stamp ==
    /\ how = "time" /\ job = NoJob /\ node # <<>> /\ seq # -1
    /\ \E t \in Times, adj \in 0..MaxAdjustment, s \in {seq, (seq + 1) % (Word \div 4)} :
          Made(StampOf(t, adj, s), t, adj) /\ seq' = s
    /\ UNCHANGED <<fd, node, job, left, lost>>

GenStep == \/ WantBytes \/ FindNode \/ ReadSome \/ ReadFails
           \/ NodeFilled \/ SeqFilled \/ RandomFilled \/ Stamp

GenNext == Generate \/ GenStep

(* The thread that generates is scheduled; the device may fail for ever.   *)
GenSpec == GenInit /\ [][GenNext]_genVars /\ WF_genVars(GenStep)

-----------------------------------------------------------------------------
(* The newest UUID has the variant and the version of the function that   *)
(* made it, and one made from the clock gives back its microsecond, or the *)
(* next one when all adjustments were used, whatever bytes were drawn.     *)
GeneratedAreWellFormed ==
    made # <<>> =>
       LET x == made[Len(made)]
           us == x.t + (x.adj \div Ticks)
       IN  /\ uuid_variant(x.u) = "DCE"
           /\ uuid_type(x.u) = IF x.how = "random" THEN 4 ELSE 1
           /\ x.how = "time" =>
                 uuid_time(x.u) = [tv_sec |-> us \div Usec, tv_usec |-> us % Usec]

(* The texts one character away from t, and t cut by one. *)
Slips(t) ==
    { [t EXCEPT ![i] = c] : i \in {1, 9, 20, 24, 36}, c \in {Dash, 0, Nibble - 1, Nibble} }
    \cup {SubSeq(t, 1, 35), Append(t, 0)}

(* The text of the newest UUID parses to the same 16 bytes; any other text *)
(* that parses is the text of what it parses to.                           *)
TextRoundTrips ==
    made # <<>> /\ how = "idle" =>
       \A t \in {uuid_unparse(made[Len(made)].u)} :
           /\ uuid_parse(t) = [ret |-> 0, uu |-> made[Len(made)].u]
           /\ \A s \in Slips(t) :
                 uuid_parse(s).ret = 0 => uuid_unparse(uuid_parse(s).uu) = s

(* uuid_compare orders the UUIDs of a process: it is 0 for equal ones      *)
(* only, its sign turns when its arguments do, and it is transitive.       *)
CompareIsAnOrder ==
    \A i, j, k \in DOMAIN made :
       LET c(a, b) == uuid_compare(made[a].u, made[b].u)
       IN  /\ c(i, j) = 0 <=> made[i].u = made[j].u
           /\ c(i, j) = -c(j, i)
           /\ c(i, j) <= 0 /\ c(j, k) <= 0 => c(i, k) <= 0

(* Texts and comparisons agree with the UUIDs they are made of. *)
FormatsAgree == TextRoundTrips /\ CompareIsAnOrder

(* A call returns although the random device may fail for ever. *)
GenerateEnds == how # "idle" ~> how = "idle"
=============================================================================
