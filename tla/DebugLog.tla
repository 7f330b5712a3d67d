----------------------------- MODULE DebugLog ------------------------------
(***************************************************************************)
(* The log files of Utility/DebugCtrl.cpp: log_dbg_info appends a line to  *)
(* dbg_file and stack_trace a record to err_file, unless the file has      *)
(* grown to LOG_FILE_MAX_SIZE kilobytes: then it is emptied first.  The    *)
(* size is looked up before the file is opened, the bytes leave stdio's    *)
(* buffer when it is full and at fclose, and nothing but the lock of       *)
(* stdout, one in each process, keeps two calls apart.                     *)
(*                                                                         *)
(* A file is a sequence of cells: a cell is what one write of stdio takes, *)
(* a record is one or more, and Kilobyte of them make a kilobyte.          *)
(***************************************************************************)
EXTENDS Integers, Sequences, FiniteSets
LOCAL INSTANCE Functions

CONSTANTS Threads, Processes, ProcessOf,
          Absent,             \* what a file is before it is created
          Hole,               \* a cell that was skipped over
          Nobody,
          LOG_FILE_MAX_SIZE, Kilobyte,
          MaxRecord,          \* cells of the longest record
          MaxLogged           \* calls in a behaviour

Cells == {Hole} \cup (Threads \X Nat \X Nat \X Nat)

ASSUME LogAssumption ==
  /\ IsFiniteSet(Threads) /\ Absent \notin Seq(Cells)
  /\ Hole \notin Threads \X Nat \X Nat \X Nat
  /\ {Kilobyte, LOG_FILE_MAX_SIZE, MaxRecord} \subseteq Nat \ {0}

VARIABLES disk,      \* of each of the two files: its cells, or Absent
          lock,      \* of each process: the thread that has locked stdout
          lpc,       \* of each thread
          call,      \* how many calls it has made
          op, rest,  \* which one it is in, and the cells not yet written
          own,       \* the offset of its next write; AtEnd for mode "a+"
          disturbed, \* the file was emptied under it, or it wrote while a
                     \* thread that had emptied the file was still writing
          kept       \* of each file: the records that must be in it

bufVars == <<op, rest, own>>
diskVars == <<disk, lock, disturbed, kept>>
debugVars == <<diskVars, lpc, call, bufVars>>

Ops == {"log_dbg_info", "stack_trace"}  \* each has a file of its own
AtEnd == -1

DebugInit ==
  /\ disk = [o \in Ops |-> Absent] /\ kept = [o \in Ops |-> {}]
  /\ lock = [p \in Processes |-> Nobody]
  /\ lpc = [t \in Threads |-> "idle"] /\ call = [t \in Threads |-> 0]
  /\ op = [t \in Threads |-> "log_dbg_info"] /\ rest = [t \in Threads |-> <<>>]
  /\ own = [t \in Threads |-> AtEnd]
  /\ disturbed = [t \in Threads |-> FALSE]

At(t, l) == lpc[t] = l
Go(t, l) == lpc' = [lpc EXCEPT ![t] = l]

\* The threads that have t's file open, and whether one of them emptied it.
Open(t) == { u \in Threads \ {t} : lpc[u] \in {"opened", "printed"} /\ op[u] = op[t] }
Shared(t) == \E u \in Open(t) : own[u] # AtEnd

file_size(o) == IF disk[o] = Absent THEN -1 ELSE Len(disk[o])

-----------------------------------------------------------------------------
\* A mutated form: the size is allowed to reach the limit.
SmallUpTo(s) == s < 0 \/ s \div Kilobyte <= LOG_FILE_MAX_SIZE

\* A mutated form: "r+" and a seek to the end where the code has "a+".
OffsetThen(t) == IF disk[op[t]] = Absent THEN 0 ELSE Len(disk[op[t]])

-----------------------------------------------------------------------------
\* log_dbg_info, or stack_trace, logs n cells.
Call(t, o, n) ==
  /\ At(t, "idle") /\ FoldFunction(+, 0, call) < MaxLogged
  /\ op' = [op EXCEPT ![t] = o]
  /\ call' = [call EXCEPT ![t] = @ + 1]
  /\ rest' = [rest EXCEPT ![t] = [i \in 1 .. n |-> <<t, call[t] + 1, i, n>>]]
  /\ Go(t, "called") /\ UNCHANGED <<diskVars, own>>

\* flockfile(stdout), which stack_trace holds until it returns.
Lock(t) ==
  /\ At(t, "called") /\ op[t] = "stack_trace" /\ lock[ProcessOf[t]] = Nobody
  /\ lock' = [lock EXCEPT ![ProcessOf[t]] = t]
  /\ UNCHANGED <<disk, disturbed, kept, lpc, call, bufVars>>

\* The division of -1, the answer for a file that is not there, gives 0 in C.
Small(s) == s < 0 \/ s \div Kilobyte < LOG_FILE_MAX_SIZE

\* The size decides the mode, before the file is opened.
Measure(t) ==
  /\ At(t, "called") /\ (op[t] = "stack_trace" => lock[ProcessOf[t]] = t)
  /\ own' = [own EXCEPT ![t] = IF Small(file_size(op[t])) THEN AtEnd ELSE 0]
  /\ Go(t, "measured") /\ UNCHANGED <<diskVars, call, op, rest>>

Offset(t) == AtEnd

\* fopen(..., "a+"): creates the file if need be.
OpenAppend(t) ==
  /\ At(t, "measured") /\ own[t] = AtEnd
  /\ disk' = IF disk[op[t]] = Absent THEN [disk EXCEPT ![op[t]] = <<>>] ELSE disk
  /\ own' = [own EXCEPT ![t] = Offset(t)]
  /\ disturbed' = [disturbed EXCEPT ![t] = Shared(t)]
  /\ Go(t, "opened") /\ UNCHANGED <<lock, kept, call, op, rest>>

\* fopen(..., "w+"): empties it, whoever has it open.
OpenEmptied(t) ==
  /\ At(t, "measured") /\ own[t] # AtEnd
  /\ disk' = [disk EXCEPT ![op[t]] = <<>>]
  /\ kept' = [kept EXCEPT ![op[t]] = {}]
  /\ disturbed' = [u \in Threads |-> IF u = t THEN Shared(t)
                                     ELSE disturbed[u] \/ u \in Open(t)]
  /\ Go(t, "opened") /\ UNCHANGED <<lock, call, bufVars>>

\* printf, before fputs, waits for the lock of stdout.
PutsLog(t) ==
  /\ At(t, "opened") /\ lock[ProcessOf[t]] \in {Nobody, t}
  /\ Go(t, "printed") /\ UNCHANGED <<diskVars, call, bufVars>>

Put(f, at, c) == [i \in 1 .. IF at < Len(f) THEN Len(f) ELSE at + 1 |->
                    IF i = at + 1 THEN c ELSE IF i <= Len(f) THEN f[i] ELSE Hole]

Write(t) ==
  /\ At(t, "printed") /\ rest[t] # <<>>
  /\ LET f == disk[op[t]] IN
     disk' = [disk EXCEPT ![op[t]] =
                Put(f, IF own[t] = AtEnd THEN Len(f) ELSE own[t], Head(rest[t]))]
  /\ own' = IF own[t] = AtEnd THEN own ELSE [own EXCEPT ![t] = @ + 1]
  /\ rest' = [rest EXCEPT ![t] = Tail(@)]
  /\ UNCHANGED <<lock, disturbed, kept, lpc, call, op>>

\* fclose and, in stack_trace, funlockfile.
Close(t) ==
  /\ At(t, "printed") /\ rest[t] = <<>>
  /\ kept' = IF disturbed[t] THEN kept
             ELSE [kept EXCEPT ![op[t]] = @ \cup {<<t, call[t]>>}]
  /\ lock' = IF lock[ProcessOf[t]] = t THEN [lock EXCEPT ![ProcessOf[t]] = Nobody] ELSE lock
  /\ disturbed' = [disturbed EXCEPT ![t] = FALSE]
  /\ op' = [op EXCEPT ![t] = "log_dbg_info"] /\ own' = [own EXCEPT ![t] = AtEnd]
  /\ Go(t, "idle") /\ UNCHANGED <<disk, call, rest>>

Dies(p) == lpc' = [t \in Threads |-> IF ProcessOf[t] = p THEN "dead" ELSE lpc[t]]

\* fclose(NULL), which follows a failed fopen, ends the process.
OpenFails(t) ==
  /\ At(t, "measured")
  /\ Dies(ProcessOf[t]) /\ UNCHANGED <<diskVars, call, bufVars>>

Kill(p) ==
  /\ \E t \in Threads : ProcessOf[t] = p /\ lpc[t] \in {"opened", "printed"}
  /\ Dies(p) /\ UNCHANGED <<diskVars, call, bufVars>>

DebugNext ==
  \/ \E t \in Threads : \/ \E o \in Ops, n \in 1 .. MaxRecord : Call(t, o, n)
                        \/ Lock(t) \/ Measure(t) \/ OpenAppend(t) \/ OpenEmptied(t)
                        \/ PutsLog(t) \/ Write(t) \/ Close(t) \/ OpenFails(t)
  \/ \E p \in Processes : Kill(p)

DebugSpec == DebugInit /\ [][DebugNext]_debugVars

-----------------------------------------------------------------------------
\* The size is checked before the file is opened, so calls at work at once may
\* all append to a file that was just below the limit: it passes the limit by
\* at most a record of each thread, and never by more.
LogIsBounded ==
  \A o \in Ops : file_size(o) < Kilobyte * LOG_FILE_MAX_SIZE + Cardinality(Threads) * MaxRecord

\* The places in file f of the cells of record r, a thread and one of its calls.
CellsOf(f, r) == { j \in DOMAIN f : f[j] # Hole /\ f[j][1] = r[1] /\ f[j][2] = r[2] }

\* f has the first d cells of record r, which has n, each of them once and in order.
Holds(f, r, d, n) ==
  /\ { f[j] : j \in CellsOf(f, r) } = { <<r[1], r[2], i, n>> : i \in 1 .. d }
  /\ \A j, k \in CellsOf(f, r) : j < k => f[j][3] < f[k][3]

\* A record is in its file, all of it and in order, until a later call empties
\* the file, whatever other calls append and whichever process is killed, if no
\* thread was between emptying and closing the file at the same time.
KeptAreComplete ==
  \A o \in Ops : \A r \in kept[o] : \E n \in 1 .. MaxRecord : Holds(disk[o], r, n, n)
=============================================================================
