---------------------------- MODULE MiscNumbers ----------------------------
(***************************************************************************)
(* The helpers of Utility/Misc.cpp and Misc.h for numbers and times.  A    *)
(* float is a count of units, One of which make 1; Base is 10 in the code. *)
(* Left out: that a float is not exact, and texts that do not fit in the   *)
(* fifteen characters of calc_float_bits.                                  *)
(***************************************************************************)
EXTENDS Integers
LOCAL INSTANCE FiniteSetsExt

CONSTANTS Base, Fine,       \* One is Base^Fine
          Decimals,         \* calc_float_bits looks at so many (4)
          Significant,      \* digits the comment of to_string promises (6)
          Near,             \* of enforce_round_float: 0.01 in units
          Values,           \* floats
          Usec, Limit,      \* of udifftime: 1000000 and 30
          Instants          \* timevals

VARIABLES value, time_1, time_2
numberVars == <<value, time_1, time_2>>

NumberInit == value \in Values /\ time_1 \in Instants /\ time_2 \in Instants

Pow(n) == Base ^ n
One == Pow(Fine)
Abs(v) == IF v < 0 THEN -v ELSE v
Signed(v, a) == IF v < 0 THEN -a ELSE a

\* The nearest multiple of u, in multiples of it: roundf takes a tie away from
\* zero, printf to the even one.
Rounded(v, u) == Signed(v, (2 * Abs(v) + u) \div (2 * u))
Printed(v, u) ==
  LET q == Abs(v) \div u
      r == 2 * (Abs(v) % u)
  IN  Signed(v, IF r > u \/ (r = u /\ q % 2 = 1) THEN q + 1 ELSE q)

\* What a precision leaves of a unit: 1 / powf(10, precision).
Unit(precision) == Pow(Fine - precision)

-----------------------------------------------------------------------------
lroundf(v, precision) == Rounded(v, Unit(precision))

is_zero(v, precision) == lroundf(v, precision) = 0
is_greater(a, b, precision) == lroundf(a, precision) > lroundf(b, precision)
is_greater_equal(a, b, precision) == lroundf(a, precision) >= lroundf(b, precision)
is_less(a, b, precision) == lroundf(a, precision) < lroundf(b, precision)
is_less_equal(a, b, precision) == lroundf(a, precision) <= lroundf(b, precision)
is_equal(a, b, precision) == lroundf(a, precision) = lroundf(b, precision)
is_not_equal(a, b, precision) == lroundf(a, precision) # lroundf(b, precision)

round_float(v, precision) == lroundf(v, precision) * Unit(precision)

\* A rest of a half or up to Near below it is rounded up; int() cuts the rest
\* off, so that the rest of a negative number is negative and never such a one.
enforce_round_float(v, precision) ==
  LET u == Unit(precision)
      rest == 2 * (v - Signed(v, Abs(v) \div u) * u) - u
  IN  IF rest <= 0 /\ rest * One >= -(2 * Near * u)
      THEN ((v \div u) + 1) * u
      ELSE round_float(v, precision)

\* The digits after the point, up to the last that is not 0, in "%.4f".
calc_float_bits(v) ==
  Min({ b \in 0 .. Decimals : Printed(v, Unit(Decimals)) % Pow(Decimals - b) = 0 })

\* to_string of a float with its own number of digits after the point.
to_string(v) == Printed(v, Unit(calc_float_bits(v))) * Unit(calc_float_bits(v))

udifftime(t1, t2) ==
  LET d == t1.tv_sec - t2.tv_sec IN
  IF d >= Limit THEN Limit * Usec
  ELSE IF d <= Limit THEN -(Limit * Usec)
  ELSE d * Usec + t1.tv_usec - t2.tv_usec

-----------------------------------------------------------------------------
\* At each precision exactly one of less, equal and greater holds, the other
\* three say no more and no less, being equal is an equivalence, and a number is
\* equal to what round_float makes of it.
ComparisonsAgree ==
  \A a, b \in Values, p \in 0 .. Fine :
    LET less == is_less(value, a, p)
        more == is_greater(value, a, p)
        same == is_equal(value, a, p)
    IN  /\ <<less, more, same>> \in { <<TRUE, FALSE, FALSE>>, <<FALSE, TRUE, FALSE>>, <<FALSE, FALSE, TRUE>> }
        /\ is_less_equal(value, a, p) = (less \/ same) /\ is_less_equal(value, a, p) = ~more
        /\ is_greater_equal(value, a, p) = (more \/ same) /\ is_not_equal(value, a, p) = ~same
        /\ same => is_zero(value, p) = is_zero(a, p)
        /\ (same \/ less) /\ is_less(a, b, p) => is_less(value, b, p)
        /\ same /\ is_equal(a, b, p) => is_equal(value, b, p)
        /\ is_equal(round_float(value, p), value, p)

\* enforce_round_float rounds as round_float does, but for a positive rest just
\* below a half, and keeps the order of the numbers.
EnforcedRoundingKeepsOrder ==
  \A a \in Values, p \in 0 .. Fine :
    /\ enforce_round_float(value, p) - round_float(value, p) \in {0, Unit(p)}
    /\ value <= a => enforce_round_float(value, p) <= enforce_round_float(a, p)

\* "At most 4 decimals" (in calc_float_bits): choosing the digits by a first
\* rounding does not round twice, the text is the number rounded once to Decimals
\* digits after the point.
TextShowsTheNumber == to_string(value) = Printed(value, Unit(Decimals)) * Unit(Decimals)

\* "The default is to output the value as it is, up to 6 significant digits" (the
\* comment above to_string).
TextIsTheValue == Abs(value) < Pow(Significant) => to_string(value) = value

\* "The difference of time_1 and time_2 in microseconds; when they are more than
\* 30 seconds apart, 30 seconds" (the comment above udifftime).
UdifftimeIsTheDifference ==
  LET d == (time_1.tv_sec - time_2.tv_sec) * Usec + time_1.tv_usec - time_2.tv_usec
      most == Limit * Usec
  IN  udifftime(time_1, time_2) = IF d > most THEN most ELSE IF d < -most THEN -most ELSE d
=============================================================================
