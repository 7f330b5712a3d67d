----------------------------- MODULE UuidFormats -----------------------------
(***************************************************************************)
(* The forms of a UUID in src/UUID: the struct, the 16 bytes, the text of  *)
(* 36 characters, and what uuid_time, uuid_type, uuid_variant and          *)
(* uuid_compare read from the bytes.                                       *)
(*                                                                         *)
(* Nibble is the number of values of a hexadecimal digit, 16 in the code.  *)
(* All widths and masks of the code are written with it, so that the same  *)
(* definitions can be evaluated with smaller digits: 0x8000 is the upper   *)
(* half of a clock_seq, 0x3FFF its lower quarter, and so on.  A digit is a *)
(* number whichever its case.                                              *)
(***************************************************************************)
EXTENDS Integers, Sequences

CONSTANTS Nibble,   \* the values of a digit
          Usec,     \* microseconds in a second, 1000000 in the code
          Ticks,    \* clock ticks in a microsecond, 10 in the code
          Epoch     \* ticks from 1582 to 1970, 0x01B21DD213814000

ASSUME NibbleAssumption == Nibble \in Nat /\ Nibble > 0 /\ Nibble % 8 = 0
ASSUME EpochAssumption == Usec \in Nat \ {0} /\ Ticks \in Nat \ {0} /\ Epoch \in Nat

Byte == Nibble * Nibble

Word == Byte * Byte          \* a uint16_t
Long == Word * Word          \* a uint32_t
Version == Word \div Nibble  \* 0x1000, the unit of the version

NodeBytes == 1..6

-----------------------------------------------------------------------------
uuid_pack(uu) ==
    << (uu.time_low \div (Byte * Word)) % Byte, (uu.time_low \div Word) % Byte,
       (uu.time_low \div Byte) % Byte, uu.time_low % Byte,
       (uu.time_mid \div Byte) % Byte, uu.time_mid % Byte,
       (uu.time_hi_and_version \div Byte) % Byte, uu.time_hi_and_version % Byte,
       (uu.clock_seq \div Byte) % Byte, uu.clock_seq % Byte >> \o uu.node

uuid_unpack(in) ==
    [time_low |-> ((in[1] * Byte + in[2]) * Byte + in[3]) * Byte + in[4],
     time_mid |-> in[5] * Byte + in[6],
     time_hi_and_version |-> in[7] * Byte + in[8],
     clock_seq |-> in[9] * Byte + in[10],
     node |-> SubSeq(in, 11, 16)]

-----------------------------------------------------------------------------
(* The text: digits, and Dash at four places. *)
Dash == -1
DashPlaces == {9, 14, 19, 24}

(* printf with %02x, %04x and %08x *)
Hex2(v) == <<(v \div Nibble) % Nibble, v % Nibble>>
Hex4(v) == Hex2(v \div Byte) \o Hex2(v)
Hex8(v) == Hex4(v \div Word) \o Hex4(v)

uuid_unparse(in) ==
    LET uu == uuid_unpack(in)
    IN  Hex8(uu.time_low) \o <<Dash>> \o Hex4(uu.time_mid) \o <<Dash>>
        \o Hex4(uu.time_hi_and_version) \o <<Dash>>
        \o Hex2(uu.clock_seq \div Byte) \o Hex2(uu.clock_seq % Byte) \o <<Dash>>
        \o Hex2(uu.node[1]) \o Hex2(uu.node[2]) \o Hex2(uu.node[3])
        \o Hex2(uu.node[4]) \o Hex2(uu.node[5]) \o Hex2(uu.node[6])

(* strtoul over two, four and eight digits from place i *)
Number2(text, i) == text[i] * Nibble + text[i + 1]
Number4(text, i) == Number2(text, i) * Byte + Number2(text, i + 2)
Number8(text, i) == Number4(text, i) * Word + Number4(text, i + 4)

(* A mutated form: the dashes may be at other places. *)
FormLoose(text) == Len(text) = 36 /\ \A i \in 1..36 : i \notin DashPlaces => text[i] # Dash

(* The places are checked before anything is converted. *)
HasForm(text) ==
    /\ Len(text) = 36
    /\ \A i \in 1..36 : IF i \in DashPlaces THEN text[i] = Dash
                                            ELSE text[i] \in 0..(Nibble - 1)

uuid_parse(text) ==
    IF ~HasForm(text)
    THEN [ret |-> -1, uu |-> <<>>]
    ELSE [ret |-> 0,
          uu |-> uuid_pack(
             [time_low |-> Number8(text, 1), time_mid |-> Number4(text, 10),
              time_hi_and_version |-> Number4(text, 15),
              clock_seq |-> Number4(text, 20),
              node |-> [i \in NodeBytes |-> Number2(text, 23 + 2 * i)]])]

-----------------------------------------------------------------------------
(* Ticks since 1582 from the three fields, and the time of day from them.  *)
ClockReg(uu) ==
    uu.time_low + Long * (uu.time_mid + Word * (uu.time_hi_and_version % Version))

uuid_time(in) ==
    LET reg == ClockReg(uuid_unpack(in)) - Epoch
    IN  [tv_sec |-> reg \div (Usec * Ticks), tv_usec |-> (reg % (Usec * Ticks)) \div Ticks]

uuid_type(in) == (uuid_unpack(in).time_hi_and_version \div Version) % Nibble

uuid_variant(in) ==
    LET seq == uuid_unpack(in).clock_seq
    IN  CASE seq < Word \div 2 -> "NCS"
          [] seq >= Word \div 2 /\ seq % (Word \div 2) < Word \div 4 -> "DCE"
          [] seq >= 3 * (Word \div 4) /\ seq % (Word \div 4) < Word \div 8 -> "MICROSOFT"
          [] OTHER -> "OTHER"

-----------------------------------------------------------------------------
(* UUCMP on one field, and memcmp: the sign at the first difference. *)
Sign(a, b) == CASE a < b -> -1 [] a = b -> 0 [] a > b -> 1

FirstDifference(a, b) ==
    LET D == {i \in DOMAIN a : a[i] # b[i]}
    IN  IF D = {} THEN 0
        ELSE LET i == CHOOSE i \in D : \A j \in D : i <= j IN Sign(a[i], b[i])

uuid_compare(in1, in2) ==
    LET u == uuid_unpack(in1)
        v == uuid_unpack(in2)
    IN  FirstDifference(
          <<u.time_low, u.time_mid, u.time_hi_and_version, u.clock_seq>> \o u.node,
          <<v.time_low, v.time_mid, v.time_hi_and_version, v.clock_seq>> \o v.node)
=============================================================================
