---------------------------- MODULE AsyncLogging ----------------------------
(***************************************************************************)
(* base/asyncLogging.cpp.  Any thread appends lines to a buffer under the  *)
(* lock; the logging thread exchanges the buffers for empty ones, writes   *)
(* what it got to a LogFile without the lock, and recycles two buffers.    *)
(*                                                                         *)
(* The condition needs no model: its wait ends after flushInterval_        *)
(* seconds if nothing else ends it, and the thread goes on in any case.    *)
(***************************************************************************)
EXTENDS LogFile

CONSTANTS BufferSize,       \* kLargeBuffer
          MaxPending,       \* 25: more buffers than these are dropped
          Lengths,          \* the lengths of lines
          MaxLines,         \* bound: lines appended
          MaxTime,          \* bound of the clock
          MaxErrors         \* bound: writes that fail

ASSUME LoggingAssumption ==
    /\ BufferSize \in Nat \ {0}
    /\ MaxPending \in Nat /\ MaxPending >= 2
    /\ Lengths \subseteq Nat \ {0}
    /\ {MaxLines, MaxTime, MaxErrors} \subseteq Nat

VARIABLES
    logRunning,     \* running_
    owner,          \* where the owner is in start() and stop()
    logPc,          \* where threadFunc is
    current,        \* currentBuffer_: the lines in it
    next,           \* nextBuffer_, or NoBuffer
    buffers,        \* buffers_
    spare1, spare2, \* newBuffer1, newBuffer2
    toWrite,        \* buffersToWrite
    done,           \* how many of these have been written
    appended,       \* the number of lines appended
    lost,           \* lines dropped on the way
    errors          \* how many writes have failed

frontVars == <<current, next, buffers, appended>>
backVars  == <<spare1, spare2, toWrite, done>>
loggingVars == <<now, fileVars, logRunning, owner, logPc, frontVars, backVars,
                 lost, errors>>

NoBuffer == [none |-> TRUE]
Empty == [lines |-> <<>>]
Line(id, n) == [id |-> id, len |-> n]
Ids(lines) == {lines[i].id : i \in DOMAIN lines}

LoggingInit ==
    /\ LogFileInit
    /\ logRunning = FALSE
    /\ owner = "new" /\ logPc = "new"
    /\ current = Empty /\ next = Empty /\ buffers = <<>>
    /\ spare1 = NoBuffer /\ spare2 = NoBuffer
    /\ toWrite = <<>> /\ done = 0
    /\ appended = 0 /\ lost = {} /\ errors = 0

----------------------------------------------------------------------------
(* avail() > len; a line that does not fit FixedBuffer::append drops.      *)
Fits(buffer, n) == BufferSize - Bytes(buffer.lines) > n

AddTo(buffer, line) ==
    IF Fits(buffer, line.len) THEN [lines |-> Append(buffer.lines, line)]
    ELSE buffer

(* append() of any thread.                                                 *)
AppendLine(n) ==
    LET line == Line(appended + 1, n)
        full == ~Fits(current, n)
        into == IF ~full THEN current
                ELSE IF next # NoBuffer THEN next ELSE Empty
    IN  /\ appended < MaxLines
        /\ appended' = appended + 1
        /\ current' = AddTo(into, line)
        /\ buffers' = IF full THEN Append(buffers, current) ELSE buffers
        /\ next' = IF full THEN NoBuffer ELSE next
        /\ lost' = IF Fits(into, n) THEN lost ELSE lost \cup {line.id}
        /\ UNCHANGED <<now, fileVars, logRunning, owner, logPc, backVars, errors>>

----------------------------------------------------------------------------
(* start(): the latch is counted down when the thread runs.                *)
StartLogging ==
    /\ owner = "new"
    /\ logRunning' = TRUE
    /\ owner' = "starting" /\ logPc' = "start"
    /\ UNCHANGED <<now, fileVars, frontVars, backVars, lost, errors>>

Started ==
    /\ owner = "starting" /\ logPc # "start"
    /\ owner' = "started"
    /\ UNCHANGED <<now, fileVars, logRunning, logPc, frontVars, backVars, lost, errors>>

StopLogging ==
    /\ owner = "started"
    /\ logRunning' = FALSE
    /\ owner' = "stopping"
    /\ UNCHANGED <<now, fileVars, logPc, frontVars, backVars, lost, errors>>

Joined ==
    /\ owner = "stopping" /\ logPc = "ended"
    /\ owner' = "stopped"
    /\ UNCHANGED <<now, fileVars, logRunning, logPc, frontVars, backVars, lost, errors>>

----------------------------------------------------------------------------
(* threadFunc().                                                           *)

ThreadStarts ==
    /\ logPc = "start"
    /\ rollFile(files, writtenBytes, unflushed)
    /\ spare1' = Empty /\ spare2' = Empty
    /\ logPc' = "loop"
    /\ UNCHANGED <<now, count, logRunning, owner, frontVars, toWrite, done, lost, errors>>

TestLogRunning ==
    /\ logPc = "loop"
    /\ logPc' = IF logRunning THEN "lock" ELSE "last"
    /\ UNCHANGED <<now, fileVars, logRunning, owner, frontVars, backVars, lost, errors>>

(* Faulty variant (mutation runs only): the wait has no timeout, so that   *)
(* only a full buffer ends it.                                             *)
WaitForBuffer == FALSE

(* With nothing in buffers_ the thread waits for a time.                   *)
WaitFor ==
    /\ logPc = "lock" /\ buffers = <<>>
    /\ logPc' = "waited"
    /\ UNCHANGED <<now, fileVars, logRunning, owner, frontVars, backVars, lost, errors>>

(* Faulty variant (mutation runs only): a second buffer is given back only *)
(* when nothing was pushed.                                                *)
NextIfIdle == IF next = NoBuffer /\ buffers = <<>> THEN spare2 ELSE next

NextAfterSwap == IF next = NoBuffer THEN spare2 ELSE next

Swap ==
    /\ logPc = "waited" \/ (logPc = "lock" /\ buffers # <<>>)
    /\ toWrite' = Append(buffers, current)
    /\ buffers' = <<>>
    /\ current' = spare1 /\ spare1' = NoBuffer
    /\ next' = NextAfterSwap
    /\ spare2' = IF next = NoBuffer THEN NoBuffer ELSE spare2
    /\ done' = 0
    /\ logPc' = "check"
    /\ UNCHANGED <<now, fileVars, logRunning, owner, appended, lost, errors>>

LinesOf(bufs) == UNION {Ids(bufs[i].lines) : i \in DOMAIN bufs}

(* More than MaxPending buffers: all but two are dropped, and the file     *)
(* says so.                                                                *)
Notice == <<Line(0, 1)>>

CheckPending ==
    /\ logPc = "check"
    /\ logPc' = "write"
    /\ IF Len(toWrite) > MaxPending
       THEN /\ toWrite' = SubSeq(toWrite, 1, 2)
            /\ lost' = lost \cup LinesOf(SubSeq(toWrite, 3, Len(toWrite)))
            /\ append(Notice)
       ELSE UNCHANGED <<toWrite, lost, fileVars>>
    /\ UNCHANGED <<now, logRunning, owner, frontVars, spare1, spare2, done, errors>>

WriteBuffer ==
    /\ logPc = "write" /\ done < Len(toWrite)
    /\ append(toWrite[done + 1].lines)
    /\ done' = done + 1
    /\ UNCHANGED <<now, logRunning, owner, logPc, frontVars, spare1, spare2, toWrite,
                   lost, errors>>

(* AppendFile::append gives up after an error: part of the chunk is in the *)
(* file, though not counted.                                               *)
WriteFails ==
    /\ logPc = "write" /\ done < Len(toWrite)
    /\ errors < MaxErrors
    /\ errors' = errors + 1
    /\ LET chunk == toWrite[done + 1].lines
       IN  \E k \in 0 .. Len(chunk) :
            /\ k < Len(chunk)
            /\ AppendUnlocked(SubSeq(chunk, 1, k), 0)
            /\ lost' = lost \cup Ids(SubSeq(chunk, k + 1, Len(chunk)))
    /\ done' = done + 1
    /\ UNCHANGED <<now, logRunning, owner, logPc, frontVars, spare1, spare2, toWrite>>

Reset(buffer) == Empty

(* Recycle the last of at most two buffers, and flush.                     *)
Recycle ==
    LET kept == SubSeq(toWrite, 1, IF Len(toWrite) > 2 THEN 2 ELSE Len(toWrite))
        n    == Len(kept)
    IN  /\ logPc = "write" /\ done = Len(toWrite)
        /\ spare1' = Reset(kept[n])
        /\ spare2' = IF spare2 = NoBuffer THEN Reset(kept[n - 1]) ELSE spare2
        /\ toWrite' = <<>> /\ done' = 0
        /\ logPc' = "loop"
        /\ flush
        /\ UNCHANGED <<now, logRunning, owner, frontVars, lost, errors>>

ThreadEnds ==
    /\ logPc = "last"
    /\ flush
    /\ logPc' = "ended"
    /\ UNCHANGED <<now, logRunning, owner, frontVars, backVars, lost, errors>>

Tick == /\ now < MaxTime
        /\ now' = now + 1
        /\ UNCHANGED <<fileVars, logRunning, owner, logPc, frontVars, backVars, lost, errors>>

ThreadStep == ThreadStarts \/ TestLogRunning \/ WaitFor \/ Swap \/ CheckPending
                \/ WriteBuffer \/ Recycle \/ ThreadEnds

LoggingNext == \/ StartLogging \/ Started \/ StopLogging \/ Joined
               \/ ThreadStep \/ WriteFails \/ Tick
               \/ \E n \in Lengths : AppendLine(n)

(* The thread runs; its wait ends by the timeout at the latest.            *)
LoggingFairness == /\ WF_loggingVars(ThreadStep)
                   /\ WF_loggingVars(Started) /\ WF_loggingVars(Joined)

----------------------------------------------------------------------------
(* The lines of a chunk or a buffer that have been appended: a notice is   *)
(* none.                                                                   *)
LinesIn(chunk) == Ids(chunk.lines) \ {0}

Rising(lines) == \A i, j \in DOMAIN lines : i < j => lines[i].id < lines[j].id
Before(a, b)  == \A x \in LinesIn(a), y \in LinesIn(b) : x < y

(* What is still to be written: the rest of buffersToWrite, buffers_ and   *)
(* currentBuffer_.                                                         *)
Unwritten == SubSeq(toWrite, done + 1, Len(toWrite)) \o Append(buffers, current)

LinesWritten ==
    UNION {UNION {LinesIn(files[f].chunks[c]) : c \in DOMAIN files[f].chunks} : f \in DOMAIN files}
LinesUnwritten == UNION {LinesIn(Unwritten[i]) : i \in DOMAIN Unwritten}

WrittenInOrder ==
    \A f, g \in DOMAIN files :
        \A c \in DOMAIN files[f].chunks, d \in DOMAIN files[g].chunks :
            /\ f < g \/ (f = g /\ c < d) => Before(files[f].chunks[c], files[g].chunks[d])
            /\ Rising(files[f].chunks[c].lines)

UnwrittenInOrder ==
    \A i, j \in DOMAIN Unwritten :
        /\ i < j => Before(Unwritten[i], Unwritten[j])
        /\ Rising(Unwritten[i].lines)

(* Every line appended is in one place, or among the lost: in a file, or   *)
(* in a buffer behind all that is in the files, in the order of append().  *)
LinesAccounted ==
    /\ WrittenInOrder
    /\ UnwrittenInOrder
    /\ \A x \in LinesWritten, y \in LinesUnwritten : x < y
    /\ (LinesWritten \cup LinesUnwritten) \cap lost = {}
    /\ LinesWritten \cup LinesUnwritten \cup lost = 1 .. appended

(* The logging thread never lacks a buffer: what it asserts of newBuffer1, *)
(* newBuffer2 and buffersToWrite holds (asyncLogging.cpp:59-61, 76, 99 and *)
(* 106), and append() always has a current buffer.                         *)
BuffersSuffice ==
    /\ current # NoBuffer
    /\ logPc \in {"loop", "lock", "waited"} => spare1 = Empty /\ spare2 = Empty
    /\ logPc \in {"loop", "lock", "waited"} => toWrite = <<>>
    /\ logPc \in {"check", "write"} =>
            Len(toWrite) >= IF spare2 = NoBuffer THEN 2 ELSE 1
    /\ next = NoBuffer => buffers # <<>>

(* While the thread is not stopped a line appended gets into a file and    *)
(* out of its buffer, or is lost.                                          *)
LineIsWritten ==
    \A i \in 1 .. MaxLines :
        (appended >= i) ~> (i \in lost \/ ~logRunning
                              \/ (i \in LinesWritten /\ unflushed = 0))

(* stop() returns.                                                         *)
StopLoggingReturns == (owner = "stopping") ~> (owner = "stopped")
=============================================================================
