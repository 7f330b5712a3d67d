--------------------------- MODULE InteractionCodec ---------------------------
(***************************************************************************)
(* The messages of LT.Interaction.proto as the generated classes of        *)
(* LT.Interaction.pb.cc read, write, measure, merge and check them.        *)
(*                                                                         *)
(* Every generated method is the same loop unrolled over the fields of its *)
(* class.  The loop is written once below; what a class contributes is the *)
(* list of fields each of its methods names, one definition per method.    *)
(*                                                                         *)
(* A message is a record [f, unknown]: f maps the numbers of the fields    *)
(* that are present to their values (a number, the bytes of a string, a    *)
(* message, a sequence of messages) and unknown is the sequence of entries *)
(* that were read and not understood.  Numbers take one byte on the wire:  *)
(* all tags, lengths and values are below 128.                             *)
(***************************************************************************)
EXTENDS Integers, SequencesExt

Empty == [f |-> <<>>, unknown |-> <<>>]

BaseCommandId_IsValid(v) == v \in 0..5

TermCommandId_IsValid(v) == v \in 0..2

-----------------------------------------------------------------------------
(* TerminalInfo *)

TerminalInfoRead ==
    [n \in 1..9 |-> IF n = 8 THEN "bool" ELSE "string"]

TerminalInfoWritten == <<1, 2, 3, 4, 5, 6, 7, 8, 9>>

(* Also the order in which ByteSizeLong adds them up.                       *)
TerminalInfoSized == <<1, 2, 3, 4, 5, 6, 7, 9, 8>>

(* In the order of the has-bits, as in the other classes. *)
TerminalInfoMerged == <<1, 2, 3, 4, 5, 6, 7, 9, 8>>

TerminalInfoRequired == {1, 2, 3}

TerminalInfo ==
    [read |-> TerminalInfoRead, written |-> TerminalInfoWritten,
     sized |-> TerminalInfoSized, merged |-> ToSet(TerminalInfoMerged),
     required |-> TerminalInfoRequired]

(* The class protoc generates from the .proto file as it is now: field 9,   *)
(* term_config, is commented out there.                                    *)
TerminalInfoOfProto ==
    [read |-> [n \in 1..8 |-> TerminalInfoRead[n]],
     written |-> <<1, 2, 3, 4, 5, 6, 7, 8>>,
     sized |-> <<1, 2, 3, 4, 5, 6, 7, 8>>, merged |-> 1..8, required |-> {1, 2, 3}]

-----------------------------------------------------------------------------
(* BaseStationInfo *)

BaseStationInfoRead ==
    [n \in 1..9 |-> CASE n \in {1, 4, 5, 6, 9} -> "string"
                      [] n \in {2, 3} -> "number"
                      [] n \in {7, 8} -> "bool"]

BaseStationInfoWritten == <<1, 2, 3, 4, 5, 6, 7, 8, 9>>

BaseStationInfoSized == <<1, 2, 3, 4, 5, 6, 9, 7, 8>>

BaseStationInfoMerged == <<1, 4, 5, 6, 9, 2, 3, 7, 8>>

BaseStationInfoRequired == {1, 2, 3}

BaseStationInfo ==
    [read |-> BaseStationInfoRead, written |-> BaseStationInfoWritten,
     sized |-> BaseStationInfoSized, merged |-> ToSet(BaseStationInfoMerged),
     required |-> BaseStationInfoRequired]

-----------------------------------------------------------------------------
(* BaseCommandInfo *)

BaseCommandInfoRead ==
    [n \in 1..4 |-> IF n = 1 THEN "BaseCommandId" ELSE "string"]

BaseCommandInfoWritten == <<1, 2, 3, 4>>

BaseCommandInfoSized == <<1, 2, 3, 4>>

BaseCommandInfoMerged == <<2, 3, 4, 1>>

BaseCommandInfo ==
    [read |-> BaseCommandInfoRead, written |-> BaseCommandInfoWritten,
     sized |-> BaseCommandInfoSized, merged |-> ToSet(BaseCommandInfoMerged),
     required |-> {1}]

-----------------------------------------------------------------------------
(* TermCommandInfo *)

TermCommandInfoRead ==
    [n \in 1..4 |-> IF n = 1 THEN "TermCommandId" ELSE "string"]

TermCommandInfoWritten == <<1, 2, 3, 4>>

TermCommandInfoSized == <<1, 2, 3, 4>>

TermCommandInfoMerged == <<2, 3, 4, 1>>

TermCommandInfo ==
    [read |-> TermCommandInfoRead, written |-> TermCommandInfoWritten,
     sized |-> TermCommandInfoSized, merged |-> ToSet(TermCommandInfoMerged),
     required |-> {1}]

-----------------------------------------------------------------------------
(* interaction, the message that holds the others *)

InteractionRead ==
    [n \in {1, 2, 3, 4, 5, 6, 7, 9, 10, 11} |->
        CASE n = 1 -> "number"
          [] n \in {2, 3, 5, 6} -> "message"
          [] n \in {4, 7} -> "bool"
          [] n = 9 -> "string"
          [] n \in {10, 11} -> "repeated"]

InteractionWritten == <<1, 2, 3, 4, 5, 6, 7, 9, 10, 11>>

InteractionSized == <<1, 10, 11, 9, 2, 3, 5, 6, 4, 7>>

(* The two lists are merged first and have no has-bit. *)
InteractionMerged == <<9, 2, 3, 5, 6, 1, 4, 7>>

InteractionRequired == {1}

Interaction(terminal) ==
    [read |-> InteractionRead, written |-> InteractionWritten,
     sized |-> InteractionSized,
     merged |-> ToSet(InteractionMerged) \cup {10, 11},
     required |-> InteractionRequired,
     class |-> [n \in {2, 3, 5, 6, 10, 11} |->
                   CASE n \in {2, 10} -> terminal
                     [] n \in {5, 11} -> BaseStationInfo
                     [] n = 3 -> TermCommandInfo
                     [] n = 6 -> BaseCommandInfo]]

interaction == Interaction(TerminalInfo)

-----------------------------------------------------------------------------
(* Entries on the wire: a tag with the number of the field and the wire    *)
(* type, a length for wire type 2, and the bytes of the value.             *)

EntryBytes(e) ==
    <<e.num * 8 + e.wire>> \o (IF e.wire = 2 THEN <<Len(e.val)>> ELSE <<>>)
                           \o e.val

(* The position behind the entry that starts at i.  A tag with number 0    *)
(* ends the message early, groups are not accepted, and what is cut off    *)
(* reaches beyond the bytes there are.                                     *)
EntryEnd(s, i) ==
    LET beyond == Len(s) + 2
        wire == s[i] % 8
    IN  CASE s[i] < 8 -> beyond
          [] s[i] >= 8 /\ wire = 0 -> i + 2
          [] s[i] >= 8 /\ wire = 1 -> i + 9
          [] s[i] >= 8 /\ wire = 5 -> i + 5
          [] s[i] >= 8 /\ wire = 2 ->
                IF i < Len(s) THEN i + 2 + s[i + 1] ELSE beyond
          [] OTHER -> beyond

(* The entries of s up to the first that is broken, and whether there is   *)
(* none.                                                                   *)
Entries(s) ==
    LET n == Len(s)
        from[i \in 1..(n + 1)] ==
            IF i = n + 1
            THEN [ok |-> TRUE, list |-> <<>>]
            ELSE LET next == EntryEnd(s, i)
                     first == i + (IF s[i] % 8 = 2 THEN 2 ELSE 1)
                 IN  IF next > n + 1
                     THEN [ok |-> FALSE, list |-> <<>>]
                     ELSE LET rest == from[next]
                          IN  [ok |-> rest.ok,
                               list |-> << [num |-> s[i] \div 8, wire |-> s[i] % 8,
                                            val |-> SubSeq(s, first, next - 1)] >>
                                        \o rest.list]
    IN  from[1]

WireType(kind) == IF kind \in {"string", "message", "repeated"} THEN 2 ELSE 0

(* The bytes of a scalar, and the scalar of these bytes. *)
ScalarBytes(kind, v) == IF kind = "string" THEN v ELSE <<v>>

ScalarOf(kind, bytes) ==
    CASE kind = "string" -> bytes
      [] kind = "bool" -> IF bytes[1] = 0 THEN 0 ELSE 1
      [] OTHER -> bytes[1]

(* What its setter takes. *)
ScalarValues(kind) ==
    CASE kind = "string" -> Seq(Nat)
      [] kind = "number" -> Nat
      [] kind = "bool" -> {0, 1}
      [] kind = "BaseCommandId" -> 0..5
      [] kind = "TermCommandId" -> 0..2

(* A field is taken when its number is known, its wire type is the one of  *)
(* its kind and, for an enumeration, its value is one of it.               *)
Understood(c, e) ==
    /\ e.num \in DOMAIN c.read
    /\ e.wire = WireType(c.read[e.num])
    /\ c.read[e.num] = "BaseCommandId" => BaseCommandId_IsValid(e.val[1])
    /\ c.read[e.num] = "TermCommandId" => TermCommandId_IsValid(e.val[1])

SetField(m, n, v) ==
    [m EXCEPT !.f = [k \in DOMAIN m.f \cup {n} |-> IF k = n THEN v ELSE m.f[k]]]

Present(m, n) == n \in DOMAIN m.f

(* The value of a field of messages that may be absent. *)
SubOf(m, n) == IF Present(m, n) THEN m.f[n] ELSE Empty

ListOf(m, n) == IF Present(m, n) THEN m.f[n] ELSE <<>>

-----------------------------------------------------------------------------
(* The methods.  What is true of the four inner classes and of interaction *)
(* is written for an inner class first, then for interaction.              *)

(* A mutated form: unknown fields are dropped. *)
ReadInfoDropsUnknown(c, m, s) ==
    LET take(x, e) ==
            IF Understood(c, e)
            THEN SetField(x, e.num, ScalarOf(c.read[e.num], e.val))
            ELSE x
        es == Entries(s)
        after[i \in 0..Len(es.list)] == IF i = 0 THEN m ELSE take(after[i - 1], es.list[i])
    IN  [ok |-> es.ok, m |-> after[Len(es.list)]]

(* An inner message after an entry has been read into it. *)
TakeInfo(c, x, e) ==
    IF Understood(c, e)
    THEN SetField(x, e.num, ScalarOf(c.read[e.num], e.val))
    ELSE [x EXCEPT !.unknown = Append(@, e)]

(* MergePartialFromCodedStream of an inner class: the message after s has  *)
(* been read into m, and whether the read succeeded.                       *)
ReadInfo(c, m, s) ==
    LET es == Entries(s)
        after[i \in 0..Len(es.list)] == IF i = 0 THEN m ELSE TakeInfo(c, after[i - 1], es.list[i])
    IN  [ok |-> es.ok, m |-> after[Len(es.list)]]

(* A mutated form of Read: an inner message that comes twice replaces the  *)
(* first one instead of being read into it.                                *)
ReadReplaces(c, m, s) ==
    LET take(r, e) ==
            IF ~Understood(c, e)
            THEN [r EXCEPT !.m.unknown = Append(@, e)]
            ELSE LET kind == c.read[e.num]
                     into == ReadInfo(c.class[e.num], Empty, e.val)
                 IN  IF kind \notin {"message", "repeated"}
                     THEN [r EXCEPT !.m = SetField(@, e.num, ScalarOf(kind, e.val))]
                     ELSE [ok |-> r.ok /\ into.ok,
                           m |-> SetField(r.m, e.num,
                                    IF kind = "message" THEN into.m
                                    ELSE Append(ListOf(r.m, e.num), into.m))]
        es == Entries(s)
        after[i \in 0..Len(es.list)] ==
            IF i = 0 THEN [ok |-> es.ok, m |-> m] ELSE take(after[i - 1], es.list[i])
    IN  after[Len(es.list)]

(* The same of interaction, with whether all has been read so far. *)
Take(c, r, e) ==
    LET kind == c.read[e.num]
        into == ReadInfo(c.class[e.num],
                         IF kind = "message" THEN SubOf(r.m, e.num) ELSE Empty, e.val)
    IN  CASE ~Understood(c, e) -> [r EXCEPT !.m.unknown = Append(@, e)]
          [] Understood(c, e) /\ kind \notin {"message", "repeated"} ->
                [r EXCEPT !.m = SetField(@, e.num, ScalarOf(kind, e.val))]
          [] OTHER -> [ok |-> r.ok /\ into.ok,
                       m |-> SetField(r.m, e.num,
                                IF kind = "message" THEN into.m
                                ELSE Append(ListOf(r.m, e.num), into.m))]

Read(c, m, s) ==
    LET es == Entries(s)
        after[i \in 0..Len(es.list)] ==
            IF i = 0 THEN [ok |-> es.ok, m |-> m] ELSE Take(c, after[i - 1], es.list[i])
    IN  after[Len(es.list)]

InfoIsInitialized(c, m) == c.required \subseteq DOMAIN m.f

IsInitialized(c, m) ==
    /\ c.required \subseteq DOMAIN m.f
    /\ \A n \in {2, 3, 5, 6} \cap DOMAIN m.f : InfoIsInitialized(c.class[n], m.f[n])
    /\ \A n \in {10, 11} \cap DOMAIN m.f :
          \A i \in DOMAIN m.f[n] : InfoIsInitialized(c.class[n], m.f[n][i])

(* ParseFromIstream: clear, read, and check that nothing required misses.  *)
Parse(c, s) ==
    LET r == Read(c, Empty, s)
    IN  [ok |-> r.ok /\ IsInitialized(c, r.m), m |-> r.m]

-----------------------------------------------------------------------------
(* What the numbers of a sequence add up to. *)
Total(s) ==
    LET upto[i \in 0..Len(s)] == IF i = 0 THEN 0 ELSE upto[i - 1] + s[i]
    IN  upto[Len(s)]

UnknownBytes(m) == FlattenSeq([i \in DOMAIN m.unknown |-> EntryBytes(m.unknown[i])])

(* ByteSizeLong *)
InfoFieldSize(c, m, n) ==
    CASE ~Present(m, n) -> 0
      [] Present(m, n) /\ c.read[n] = "string" -> 2 + Len(m.f[n])
      [] OTHER -> 2

InfoByteSize(c, m) ==
    Len(UnknownBytes(m)) + Total([i \in DOMAIN c.sized |-> InfoFieldSize(c, m, c.sized[i])])

InnerSize(c, n, x) == 2 + InfoByteSize(c.class[n], x)

FieldSize(c, m, n) ==
    CASE ~Present(m, n) -> 0
      [] Present(m, n) /\ c.read[n] = "message" -> InnerSize(c, n, m.f[n])
      [] Present(m, n) /\ c.read[n] = "repeated" ->
            Total([i \in DOMAIN m.f[n] |-> InnerSize(c, n, m.f[n][i])])
      [] OTHER -> InfoFieldSize(c, m, n)

ByteSize(c, m) ==
    Len(UnknownBytes(m)) + Total([i \in DOMAIN c.sized |-> FieldSize(c, m, c.sized[i])])

(* SerializeWithCachedSizes *)
InfoFieldBytes(c, m, n) ==
    IF Present(m, n)
    THEN EntryBytes([num |-> n, wire |-> WireType(c.read[n]),
                     val |-> ScalarBytes(c.read[n], m.f[n])])
    ELSE <<>>

SerializeInfo(c, m) ==
    FlattenSeq([i \in DOMAIN c.written |-> InfoFieldBytes(c, m, c.written[i])])
    \o UnknownBytes(m)

(* An inner message is written behind the length its ByteSizeLong found.   *)
InnerBytes(c, n, x) ==
    <<n * 8 + 2, InfoByteSize(c.class[n], x)>> \o SerializeInfo(c.class[n], x)

FieldBytes(c, m, n) ==
    CASE ~Present(m, n) -> <<>>
      [] Present(m, n) /\ c.read[n] = "message" -> InnerBytes(c, n, m.f[n])
      [] Present(m, n) /\ c.read[n] = "repeated" ->
            FlattenSeq([i \in DOMAIN m.f[n] |-> InnerBytes(c, n, m.f[n][i])])
      [] OTHER -> InfoFieldBytes(c, m, n)

Serialize(c, m) ==
    FlattenSeq([i \in DOMAIN c.written |-> FieldBytes(c, m, c.written[i])])
    \o UnknownBytes(m)

-----------------------------------------------------------------------------
(* MergeFrom *)
MergeInfo(c, a, b) ==
    LET taken == c.merged \cap DOMAIN b.f
    IN  [f |-> [n \in DOMAIN a.f \cup taken |-> IF n \in taken THEN b.f[n] ELSE a.f[n]],
         unknown |-> a.unknown \o b.unknown]

Merge(c, a, b) ==
    LET taken == c.merged \cap DOMAIN b.f
        merged(n) == CASE c.read[n] = "repeated" -> ListOf(a, n) \o b.f[n]
                       [] c.read[n] = "message" -> MergeInfo(c.class[n], SubOf(a, n), b.f[n])
                       [] OTHER -> b.f[n]
    IN  [f |-> [n \in DOMAIN a.f \cup taken |-> IF n \in taken THEN merged(n) ELSE a.f[n]],
         unknown |-> a.unknown \o b.unknown]
=============================================================================
