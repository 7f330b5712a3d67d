------------------------------ MODULE MessageLog ------------------------------
(***************************************************************************)
(* The two programs of protobuf_test: Writer.cpp writes one message to     *)
(* ./log and Reader.cpp reads the file and lists the message.  Nothing     *)
(* keeps them from running at the same time, several writers and a reader. *)
(*                                                                         *)
(* A writer truncates the file when it opens it and hands its bytes to the *)
(* system in pieces of at most chunk, the buffer of the fstream, at an     *)
(* offset of its own.  What is left in the buffer is written when the      *)
(* fstream is destroyed, after main has decided to return 0.  The reader   *)
(* reads pieces until one is empty.                                        *)
(***************************************************************************)
EXTENDS InteractionCodec

CONSTANTS Writers,
          Messages,     \* the messages a writer may be built with
          Chunks        \* the sizes the buffer of an fstream may have

ASSUME ChunksAssumption == Chunks \subseteq Nat \ {0}

VARIABLES message,      \* the message of each writer
          chunk,        \* the size of the buffers
          file,         \* the bytes of ./log
          exists,       \* ./log has been created
          wpc, off,     \* of each writer: where it is, and its offset
          rpc, buf,     \* of the reader: where it is, and what it has read
          shown,        \* the message the reader has listed
          full,         \* the disk has been full for some writer
          latest,       \* the writer that opened the file last
          source,       \* the value of latest when the reader listed
          overlapped    \* which programs opened the file at another's work

logVars == <<message, chunk, file, exists, wpc, off, rpc, buf, shown, full, latest, source,
             overlapped>>

Nobody == "nobody"

Bytes == [m \in Messages |-> Serialize(interaction, m)]

Data(w) == Bytes[message[w]]

LogInit ==
    /\ message \in [Writers -> Messages] /\ chunk \in Chunks
    /\ file = <<>> /\ exists = FALSE
    /\ wpc = [w \in Writers |-> "start"] /\ off = [w \in Writers |-> 0]
    /\ rpc = "start" /\ buf = <<>> /\ shown = Empty
    /\ full = FALSE /\ latest = Nobody /\ source = Nobody /\ overlapped = {}

Writing == {w \in Writers : wpc[w] = "writing"}

(* A mutated form: the file is opened without ios::trunc. *)
OpenLogUntruncated(w) ==
    /\ wpc[w] = "start"
    /\ wpc' = [wpc EXCEPT ![w] = "writing"]
    /\ exists' = TRUE /\ latest' = w
    /\ overlapped' = overlapped \cup
                        IF Writing # {} \/ rpc = "reading" THEN {"writer"} ELSE {}
    /\ UNCHANGED <<file, off, rpc, buf, shown, full, source>>

(* fstream output("./log", ios::out | ios::trunc | ios::binary) *)
OpenLog(w) ==
    /\ wpc[w] = "start"
    /\ wpc' = [wpc EXCEPT ![w] = "writing"]
    /\ file' = <<>> /\ exists' = TRUE /\ latest' = w
    /\ overlapped' = overlapped \cup
                        IF Writing # {} \/ rpc = "reading" THEN {"writer"} ELSE {}
    /\ UNCHANGED <<off, rpc, buf, shown, full, source>>

(* The file cannot be opened: SerializeToOstream finds the stream bad.     *)
OpenLogFails(w) ==
    /\ wpc[w] = "start"
    /\ wpc' = [wpc EXCEPT ![w] = "exit -1"]
    /\ UNCHANGED <<file, exists, off, rpc, buf, shown, full, latest, source, overlapped>>

(* The file after bytes were written at an offset; a gap reads as zeros.   *)
Stored(at, bytes) ==
    [i \in 1..(IF at + Len(bytes) > Len(file) THEN at + Len(bytes) ELSE Len(file)) |->
        CASE i > at /\ i <= at + Len(bytes) -> bytes[i - at]
          [] i <= at /\ i > Len(file) -> 0
          [] OTHER -> file[i]]

Piece(w) == SubSeq(Data(w), off[w] + 1,
                   IF off[w] + chunk < Len(Data(w)) THEN off[w] + chunk ELSE Len(Data(w)))

IsLastPiece(w) == off[w] + Len(Piece(w)) = Len(Data(w))

(* A piece is written.  The last one is written by the destructor.         *)
WritePiece(w) ==
    /\ wpc[w] = "writing"
    /\ file' = Stored(off[w], Piece(w))
    /\ off' = [off EXCEPT ![w] = @ + Len(Piece(w))]
    /\ wpc' = IF IsLastPiece(w) THEN [wpc EXCEPT ![w] = "exit 0"] ELSE wpc
    /\ UNCHANGED <<exists, rpc, buf, shown, full, latest, source, overlapped>>

(* The disk takes a part of the piece only.  SerializeToOstream finds the  *)
(* stream bad and main returns -1, unless it was the last piece: nobody    *)
(* looks at the stream any more.                                           *)
DiskFull(w) ==
    /\ wpc[w] = "writing"
    /\ \E k \in 0..(Len(Piece(w)) - 1) : file' = Stored(off[w], SubSeq(Piece(w), 1, k))
    /\ wpc' = [wpc EXCEPT ![w] = IF IsLastPiece(w) THEN "exit 0" ELSE "exit -1"]
    /\ full' = TRUE
    /\ UNCHANGED <<exists, off, rpc, buf, shown, latest, source, overlapped>>

Kill(w) ==
    /\ wpc[w] = "writing"
    /\ wpc' = [wpc EXCEPT ![w] = "killed"]
    /\ UNCHANGED <<file, exists, off, rpc, buf, shown, full, latest, source, overlapped>>

-----------------------------------------------------------------------------
(* fstream input("./log"): nothing can be read without a file, or when it  *)
(* cannot be opened, and an empty message misses its msg_id.               *)
OpenInput ==
    /\ rpc = "start"
    /\ rpc' \in IF exists THEN {"reading", "exit -1"} ELSE {"exit -1"}
    /\ overlapped' = overlapped \cup IF Writing # {} THEN {"reader"} ELSE {}
    /\ UNCHANGED <<file, exists, wpc, off, buf, shown, full, latest, source>>

(* The reader has its own offset, the bytes it has read.  After an empty   *)
(* piece it parses them; what it cannot parse it does not list.            *)
ReadPiece ==
    LET upto == IF Len(buf) + chunk < Len(file) THEN Len(buf) + chunk ELSE Len(file)
        r == Parse(interaction, buf)
    IN  /\ rpc = "reading"
        /\ IF Len(file) > Len(buf)
           THEN /\ buf' = buf \o SubSeq(file, Len(buf) + 1, upto)
                /\ UNCHANGED <<rpc, shown, source>>
           ELSE /\ rpc' = IF r.ok THEN "listed" ELSE "exit -1"
                /\ shown' = IF r.ok THEN r.m ELSE shown
                /\ source' = latest
                /\ UNCHANGED buf
        /\ UNCHANGED <<file, exists, wpc, off, full, latest, overlapped>>

LogNext ==
    /\ \/ \E w \in Writers : \/ OpenLog(w) \/ OpenLogFails(w)
                              \/ WritePiece(w) \/ DiskFull(w) \/ Kill(w)
       \/ OpenInput \/ ReadPiece
    /\ UNCHANGED <<message, chunk>>

LogSpec == LogInit /\ [][LogNext]_logVars

-----------------------------------------------------------------------------
(* m has no field that of has not, and of a list the first elements only:  *)
(* what is left of a message when the end of its bytes is missing.         *)
CutShort(m, of) ==
    /\ m.unknown = <<>>
    /\ DOMAIN m.f \subseteq DOMAIN of.f
    /\ \A n \in DOMAIN m.f :
          IF interaction.read[n] = "repeated"
          THEN IsPrefix(m.f[n], of.f[n]) ELSE m.f[n] = of.f[n]
    /\ \A n \in DOMAIN m.f, k \in DOMAIN of.f : k < n => k \in DOMAIN m.f

(* A message without entries that were not understood, all of whose fields *)
(* its class has.                                                          *)
IsOf(c, m) ==
    /\ m = [f |-> m.f, unknown |-> <<>>] /\ m.f = [n \in DOMAIN m.f |-> m.f[n]]
    /\ DOMAIN m.f \subseteq DOMAIN c.read

IsInfoOf(c, m) == IsOf(c, m) /\ \A n \in DOMAIN m.f : m.f[n] \in ScalarValues(c.read[n])

(* What a writer may be built with: anything the setters of the generated  *)
(* classes put together, of which nothing required misses.                 *)
ASSUME MessagesAssumption ==
    \A m \in Messages :
        /\ IsOf(interaction, m) /\ IsInitialized(interaction, m)
        /\ \A n \in DOMAIN m.f :
              CASE n \in {2, 3, 5, 6} -> IsInfoOf(interaction.class[n], m.f[n])
                [] n \in {10, 11} ->
                      /\ m.f[n] # <<>> /\ m.f[n] \in Seq(ToSet(m.f[n]))
                      /\ \A i \in 1..Len(m.f[n]) : IsInfoOf(interaction.class[n], m.f[n][i])
                [] OTHER -> m.f[n] \in ScalarValues(interaction.read[n])

(* What the reader lists is the latest message or the beginning of it, cut *)
(* between two fields, even when a writer was killed, the disk was full or *)
(* the writer was at work: a message torn inside a field is refused.  This *)
(* takes writers that do not open the file over another's work, unless all *)
(* write the same bytes in one piece.                                      *)
ListedIsWritten ==
    rpc = "listed" =>
       \/ CutShort(shown, message[source])
       \/ /\ "writer" \in overlapped
          /\ ~ \A v, w \in Writers : Data(v) = Data(w) /\ Len(Data(w)) <= chunk

(* Once a writer has returned 0 its message is in the file, and what a     *)
(* reader lists is all of it, if the disk had room and no program opened   *)
(* the file at another's work.                                             *)
ExitZeroMeansListed ==
    /\ latest # Nobody /\ wpc[latest] = "exit 0" /\ ~full /\ "writer" \notin overlapped
          => Parse(interaction, file) = [ok |-> TRUE, m |-> message[latest]]
    /\ rpc = "listed" /\ wpc[source] = "exit 0" /\ ~full /\ overlapped = {}
          => shown = message[source]

(* The reader and the exit code of a writer tell the truth about ./log. *)
LogTellsTheTruth == ListedIsWritten /\ ExitZeroMeansListed
=============================================================================
