------------------------------ MODULE LogFile ------------------------------
(***************************************************************************)
(* base/logFile.cpp and the AppendFile of base/fileUtil.cpp.  A log file   *)
(* is rolled when more than RollSize bytes are in it or a new period (a    *)
(* day) has begun, but never twice in a second, as its name has the second *)
(* in it.  What is appended is a chunk: a sequence of lines.               *)
(*                                                                         *)
(* The lock that a LogFile may have makes its operations atomic, as they   *)
(* are here; AsyncLogging uses it without, from one thread.  fopen always  *)
(* succeeds.                                                               *)
(***************************************************************************)
EXTENDS Integers, Sequences, FiniteSets

CONSTANTS RollSize,         \* rollSize_
          FlushInterval,    \* flushInterval_ of the file, in seconds
          CheckEveryN,      \* checkEveryN_
          Period            \* kRollPerSeconds_

ASSUME LogFileAssumption ==
    /\ RollSize \in Nat
    /\ FlushInterval \in Nat
    /\ {CheckEveryN, Period} \subseteq Nat \ {0}

VARIABLES
    now,            \* the clock, in seconds
    files,          \* logFilenames_ and what is in those files
    writtenBytes,   \* writtenBytes_ of file_, the last of them
    count,          \* count_
    startOfPeriod,  \* startOfPeriod_
    lastRoll,       \* lastRoll_
    lastFlush,      \* lastFlush_
    unflushed       \* the chunks that are still in the buffer of file_

fileVars == <<files, writtenBytes, count, startOfPeriod, lastRoll, lastFlush,
              unflushed>>

PeriodOf(t) == (t \div Period) * Period

(* The sum of the lengths of a chunk's lines.                              *)
Bytes(chunk) == LET sum[i \in 0 .. Len(chunk)] ==
                        IF i = 0 THEN 0 ELSE sum[i - 1] + chunk[i].len
                IN  sum[Len(chunk)]

(* A file: its name is the second of its creation; with each chunk that is *)
(* not empty it keeps when that was appended.                              *)
NewFile == [name |-> now, chunks |-> <<>>]

PutChunk(chunk) ==
    IF chunk = <<>> THEN files
    ELSE [files EXCEPT ![Len(files)].chunks =
                Append(@, [lines |-> chunk, at |-> now])]

LogFileInit ==
    /\ now = 1
    /\ files = <<>>
    /\ writtenBytes = 0 /\ count = 0
    /\ startOfPeriod = 0 /\ lastRoll = 0 /\ lastFlush = 0
    /\ unflushed = 0

MayRoll == now > lastRoll

(* rollFile(), after which soFar are the files: closing the old file       *)
(* writes out its buffer.  Nothing happens in the second of the last roll. *)
rollFile(soFar, bytes, left) ==
    IF MayRoll
    THEN /\ files' = Append(soFar, NewFile)
         /\ writtenBytes' = 0
         /\ lastRoll' = now /\ lastFlush' = now
         /\ startOfPeriod' = PeriodOf(now)
         /\ unflushed' = 0
    ELSE /\ files' = soFar
         /\ writtenBytes' = bytes
         /\ unflushed' = left
         /\ UNCHANGED <<lastRoll, lastFlush, startOfPeriod>>

flush == /\ unflushed' = 0
         /\ UNCHANGED <<files, writtenBytes, count, startOfPeriod, lastRoll,
                        lastFlush>>

NewPeriod == PeriodOf(now) # startOfPeriod

(* append_unlocked of a chunk of which AppendFile wrote the lines of       *)
(* prefix and counted counted bytes: fewer than all only after an error.   *)
AppendUnlocked(prefix, counted) ==
    LET soFar == PutChunk(prefix)
        bytes == writtenBytes + counted
        due   == count + 1 >= CheckEveryN
    IN  IF bytes > RollSize
        THEN rollFile(soFar, bytes, unflushed + 1) /\ UNCHANGED count
        ELSE /\ count' = IF due THEN 0 ELSE count + 1
             /\ IF due /\ NewPeriod
                THEN rollFile(soFar, bytes, unflushed + 1)
                ELSE /\ files' = soFar
                     /\ writtenBytes' = bytes
                     /\ UNCHANGED <<startOfPeriod, lastRoll>>
                     /\ IF due /\ now - lastFlush > FlushInterval
                        THEN lastFlush' = now /\ unflushed' = 0
                        ELSE unflushed' = unflushed + 1 /\ UNCHANGED lastFlush

append(chunk) == AppendUnlocked(chunk, Bytes(chunk))

LogFileTypeOK ==
    /\ now \in Nat
    /\ \A i \in DOMAIN files : files[i].name \in 1 .. now
    /\ {writtenBytes, count, startOfPeriod, lastRoll, lastFlush, unflushed}
            \subseteq Nat

(* Files have different names, in order; only the last one is written; and *)
(* at most CheckEveryN chunks of a later period follow in the file of an   *)
(* earlier one (logFile.cpp:48-63 and 73-94).                              *)
FilesInOrder ==
    /\ LogFileTypeOK
    /\ \A i, j \in DOMAIN files : i < j => files[i].name < files[j].name
    /\ \A i, j \in DOMAIN files : \A c \in DOMAIN files[i].chunks :
            i < j => files[i].chunks[c].at <= files[j].name
    /\ \A i \in DOMAIN files :
            Cardinality({c \in DOMAIN files[i].chunks :
                PeriodOf(files[i].chunks[c].at) # PeriodOf(files[i].name)})
                    <= CheckEveryN
=============================================================================
