--------------------------- MODULE MCZmqTransfer ---------------------------
(***************************************************************************)
(* Instances of ZmqTransfer for TLC: files of up to three lines, with and  *)
(* without a newline at the end, among them lines that read like commands, *)
(* lines too long for the buffer, and a missing file.                      *)
(***************************************************************************)
EXTENDS ZmqTransfer

CONSTANTS a, b

MCLines == {a, b, BeginStr, EndStr, Long, Blank}

FilesOf(S, n) ==
  [exists : {TRUE}, lines : UNION {[1 .. k -> S] : k \in 0 .. n}, newline : BOOLEAN]

Missing == [exists |-> FALSE, lines |-> << >>, newline |-> FALSE]

AllFiles   == FilesOf(MCLines \ {b, Blank}, 3) \cup FilesOf({a, b, Blank}, 3) \cup {Missing}
PlainFiles == FilesOf({a, b}, 3)
=============================================================================
