----------------------------- MODULE MiscText ------------------------------
(***************************************************************************)
(* The string helpers of Utility/Misc.cpp.  A string is a sequence of      *)
(* characters, positions count from 0 as in the code, and npos is -1, to   *)
(* which it is equal modulo the width of size_t.  replace_char is a loop   *)
(* whose rounds are steps; the other helpers are functions of a string.    *)
(***************************************************************************)
EXTENDS Integers, Sequences
LOCAL INSTANCE FiniteSetsExt
LOCAL INSTANCE SequencesExt

CONSTANTS Chars, Space,     \* Space stands for the six characters trim cuts
          Separators,       \* of distill_string
          MaxText           \* the longest string

VARIABLES src, old_char, new_char, rpc, given

textVars == <<src, old_char, new_char, rpc, given>>

npos == -1

CharAt(s, i) == s[i + 1]
substr(s, from, n) == SubSeq(s, from + 1, Min({from + n, Len(s)}))
Positions(s) == 0 .. Len(s) - 1
FirstOf(S) == IF S = {} THEN npos ELSE Min(S)
LastOf(S) == IF S = {} THEN npos ELSE Max(S)

find(s, sep, from) ==
  FirstOf({ i \in from .. Len(s) - Len(sep) : substr(s, i, Len(sep)) = sep })
find_first_not_of(s, c) == FirstOf({ i \in Positions(s) : CharAt(s, i) # c })
find_last_not_of(s, c) == LastOf({ i \in Positions(s) : CharAt(s, i) # c })

\* s.erase(from, n), where npos means everything.
erase(s, from, n) ==
  substr(s, 0, from) \o IF n = npos THEN <<>> ELSE substr(s, from + n, Len(s))

-----------------------------------------------------------------------------
\* A mutated form: an end that is found is taken from position 0.
PieceFromZero(s, from, end) == IF end = npos THEN substr(s, from, Len(s)) ELSE substr(s, 0, end)

\* A mutated form: the loop takes a position of 0 for none.
ReplaceDoneAtZero ==
  /\ rpc = "replacing" /\ find(src, <<old_char>>, 0) \in {npos, 0}
  /\ rpc' = "done" /\ UNCHANGED <<src, old_char, new_char, given>>

-----------------------------------------------------------------------------
TextInit ==
  /\ src \in BoundedSeq(Chars, MaxText) /\ given = src
  /\ old_char \in Chars /\ new_char \in Chars
  /\ rpc = "replacing"

\* A round of replace_char, which searches from the start each time.
Replace ==
  /\ rpc = "replacing"
  /\ LET pos == find(src, <<old_char>>, 0) IN
     /\ pos # npos
     /\ src' = [src EXCEPT ![pos + 1] = new_char]
  /\ UNCHANGED <<old_char, new_char, rpc, given>>

ReplaceDone ==
  /\ rpc = "replacing" /\ find(src, <<old_char>>, 0) = npos
  /\ rpc' = "done" /\ UNCHANGED <<src, old_char, new_char, given>>

TextNext == Replace \/ ReplaceDone

\* Where the piece with this index starts; npos stands for `return false'.
StartOf(s, sep, index) ==
  LET start[i \in 0 .. index] ==
        IF i = 0 THEN 0
        ELSE LET from == start[i - 1]
                 at   == IF from = npos THEN npos ELSE find(s, sep, from)
             IN  IF at = npos \/ at + Len(sep) >= Len(s) THEN npos ELSE at + Len(sep)
  IN  start[index]

Piece(s, from, end) == IF end = npos THEN substr(s, from, Len(s)) ELSE substr(s, from, end - from)

distill_string(s, sep, index) ==
  LET from == StartOf(s, sep, index) IN
  IF from = npos THEN [found |-> FALSE, dest |-> <<>>]
  ELSE [found |-> TRUE, dest |-> Piece(s, from, find(s, sep, from))]

rtrim(s) == erase(s, 0, find_last_not_of(s, Space) + 1)

ltrim(s) == erase(s, 0, find_first_not_of(s, Space))

trim(s) == ltrim(erase(s, find_last_not_of(s, Space) + 1, npos))

-----------------------------------------------------------------------------
\* The pieces of a string are those between its separators: put together with
\* the separator they give the string, and none contains it.  An empty piece at
\* the end is not found, so one separator at the end may be missing.
PiecesMakeTheString ==
  \A sep \in Separators :
    LET found  == { i \in 0 .. Len(given) : distill_string(given, sep, i).found }
        pieces == [ i \in 1 .. Max(found) + 1 |-> distill_string(given, sep, i - 1).dest ]
        joined == FoldLeft(LAMBDA all, p : all \o sep \o p, pieces[1], Tail(pieces))
    IN  /\ found = 0 .. Max(found)
        /\ \A i \in DOMAIN pieces : find(pieces[i], sep, 0) = npos
        /\ given \in {joined, joined \o sep}

Spaces(s) == \A i \in DOMAIN s : s[i] = Space

\* trim cuts the spaces at both ends, ltrim those at the front, and neither cuts
\* anything else, also when there is nothing else.
TrimsCutSpaces ==
  \E before, after \in 0 .. Len(given) :
    /\ Spaces(SubSeq(given, 1, before))
    /\ Spaces(SubSeq(given, Len(given) - after + 1, Len(given)))
    /\ trim(given) = SubSeq(given, before + 1, Len(given) - after)
    /\ trim(given) # <<>> => Head(trim(given)) # Space /\ Last(trim(given)) # Space
    /\ ltrim(given) = SubSeq(given, before + 1, Len(given))
    /\ ltrim(given) # <<>> => Head(ltrim(given)) # Space

\* "Return a string with the spaces at the end removed" (the comment above rtrim).
RtrimCutsTheEnd ==
  \E n \in 0 .. Len(given) :
    /\ rtrim(given) = SubSeq(given, 1, n)
    /\ Spaces(SubSeq(given, n + 1, Len(given)))
    /\ n > 0 => given[n] # Space

\* replace_char returns, with every old_char replaced and nothing else, unless
\* both are the same character and the string has it: then it never does.
ReplaceEnds ==
  <>(\/ rpc = "done" /\ src = [i \in DOMAIN given |-> IF given[i] = old_char THEN new_char
                                                      ELSE given[i]]
     \/ [](rpc = "replacing" /\ old_char = new_char /\ old_char \in {src[i] : i \in DOMAIN src}))
=============================================================================
