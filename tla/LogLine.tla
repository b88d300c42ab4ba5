------------------------------- MODULE LogLine -------------------------------
(***************************************************************************)
(* base/logging.cpp over the LogStream of base/logStream.h: the lines that *)
(* one thread logs.  A line has a header, what is streamed into it, and an *)
(* end; it is in a buffer of kSmallBuffer bytes, where what has no room is *)
(* left out.  While a line is built another one may be: what is streamed   *)
(* may come from a function that logs.                                     *)
(*                                                                         *)
(* A text is a kind and a length; that of the time also has its second.    *)
(* The second last formatted and its text are kept for the thread.         *)
(***************************************************************************)
EXTENDS Formatting

CONSTANTS kSmallBuffer,
          Levels,           \* the levels that are logged and set
          TextLengths,      \* of texts that are streamed
          Logged,           \* integers that are
          NameLength,       \* of the name of the source file, and of functions
          MaxLines, MaxNested, MaxStreamed, MaxSecond     \* bounds

ASSUME LogLineAssumption ==
    /\ kSmallBuffer \in Nat /\ kMaxNumericSize <= kSmallBuffer
    /\ Levels \subseteq 0 .. 5
    /\ TextLengths \subseteq Nat
    /\ {NameLength, MaxLines, MaxNested, MaxStreamed, MaxSecond} \subseteq Nat

VARIABLES
    g_logLevel,
    building,       \* the Loggers alive, the last one innermost
    output,         \* what g_output was given
    second,         \* the clock
    t_lastSecond, t_time,
    aborted         \* abort() was called

logVars == <<g_logLevel, building, output, second, t_lastSecond, t_time, aborted>>

ETRACE == 0
EDEBUG == 1
EINFO == 2
EWARN == 3
EERROR == 4
EFATAL == 5

Text(n) == [is |-> "text", len |-> n]
Number(v) == [is |-> "number", len |-> Len(convert(v))]
Time(s) == [is |-> "time", len |-> 17, second |-> s]
ErrorNumber == 10035
LineNumber == 120
Newline == [is |-> "newline", len |-> 1]

(* Integers have 64 bits, and the names in a header are short.             *)
ASSUME TextsFit ==
    /\ \A v \in Logged : v \in Int /\ InInt64(v)
    /\ 49 + NameLength + 2 * kMaxNumericSize <= kSmallBuffer

(* FixedBuffer::avail, and its condition.                                  *)
Used(parts) ==
    LET upTo[n \in 0 .. Len(parts)] == IF n = 0 THEN 0 ELSE upTo[n - 1] + parts[n].len
    IN  upTo[Len(parts)]
avail(parts) == kSmallBuffer - Used(parts)

(* Faulty variant (mutation runs only): fills the buffer to its last byte. *)
FitsExactly(parts, n) == avail(parts) >= n

Fits(parts, n) == avail(parts) > n

(* append of a text, and formatInteger, which asks for room for any number.*)
Streamed(parts, part) ==
    IF (IF part.is = "number" THEN avail(parts) >= kMaxNumericSize
        ELSE Fits(parts, part.len))
    THEN Append(parts, part) ELSE parts

AllStreamed(parts, more) ==
    LET upTo[n \in 0 .. Len(more)] == IF n = 0 THEN parts ELSE Streamed(upTo[n - 1], more[n])
    IN  upTo[Len(more)]

(* The header: the time and its microseconds, the thread, a blank and the  *)
(* level; then an error, its text and number, or the name of the function. *)
header(level, errno, s) ==
    <<Time(s), Text(9), Text(6), Text(1), Text(6)>>
        \o (IF errno THEN <<Text(NameLength), Text(8), Number(ErrorNumber), Text(2)>> ELSE <<>>)
        \o (IF level < EINFO THEN <<Text(NameLength), Text(1)>> ELSE <<>>)

finish == <<Text(3), Text(NameLength), Text(1), Number(LineNumber), Newline>>

----------------------------------------------------------------------------
(* initLogLevel() looks at two variables of the environment.               *)
LogInit ==
    /\ g_logLevel \in {ETRACE, EDEBUG, EINFO}
    /\ building = <<>> /\ output = <<>>
    /\ second = 1 /\ t_lastSecond = 0 /\ t_time = Time(0)
    /\ aborted = FALSE

setLogLevel(level) ==
    /\ g_logLevel' = level
    /\ UNCHANGED <<building, output, second, t_lastSecond, t_time, aborted>>

(* The macros: levels from EWARN on are logged whatever g_logLevel is.     *)
Enabled(level) == level >= EWARN \/ g_logLevel <= level

(* Logger(): LOG_SYSERR and LOG_SYSFATAL have errno, if it is not 0.       *)
Log(level, errno) ==
    /\ ~aborted /\ Enabled(level)
    /\ errno => level >= EERROR
    /\ Len(building) < MaxNested /\ Len(building) + Len(output) < MaxLines
    /\ t_lastSecond' = second
    /\ t_time' = IF second # t_lastSecond THEN Time(second) ELSE t_time
    /\ building' = Append(building,
            [level |-> level, since |-> second, streamed |-> 0,
             parts |-> AllStreamed(<<>>, header(level, errno, t_time'.second))])
    /\ UNCHANGED <<g_logLevel, output, second, aborted>>

Inner == Len(building)

Stream(part) ==
    /\ ~aborted /\ building # <<>>
    /\ building[Inner].streamed < MaxStreamed
    /\ building' = [building EXCEPT ![Inner].parts = Streamed(@, part),
                                    ![Inner].streamed = @ + 1]
    /\ UNCHANGED <<g_logLevel, output, second, t_lastSecond, t_time, aborted>>

(* ~Logger(): a fatal line is flushed and ends the process.                *)
Finish ==
    /\ ~aborted /\ building # <<>>
    /\ LET line == [building[Inner] EXCEPT !.parts = AllStreamed(@, finish)]
       IN  /\ output' = Append(output, line)
           /\ aborted' = (line.level = EFATAL)
    /\ building' = SubSeq(building, 1, Inner - 1)
    /\ UNCHANGED <<g_logLevel, second, t_lastSecond, t_time>>

Second ==
    /\ second < MaxSecond
    /\ second' = second + 1
    /\ UNCHANGED <<g_logLevel, building, output, t_lastSecond, t_time, aborted>>

LogNext ==
    \/ \E level \in Levels : setLogLevel(level) /\ building = <<>> /\ output = <<>>
    \/ \E level \in Levels, errno \in BOOLEAN : Log(level, errno)
    \/ \E n \in TextLengths : Stream(Text(n))
    \/ \E v \in Logged : Stream(Number(v))
    \/ Finish \/ Second

----------------------------------------------------------------------------
(* Whatever is streamed, of whatever length and however lines are nested,  *)
(* a line never fills its buffer, so that there is room for the byte that  *)
(* ends a string; it has its whole header, with the time of its second;    *)
(* it ends with a newline unless the one byte is all that is left; and     *)
(* after a fatal line there is no other (logging.cpp:115-164,              *)
(* logStream.h:23-29, logStream.cpp:169-182).                              *)
LineWhole ==
    /\ \A i \in DOMAIN building : Used(building[i].parts) < kSmallBuffer
    /\ \A i \in DOMAIN output :
        LET line == output[i]
            last == line.parts[Len(line.parts)]
        IN  /\ Used(line.parts) < kSmallBuffer
            /\ line.parts[1] = Time(line.since)
            /\ \E errno \in BOOLEAN :
                    IsPrefix(header(line.level, errno, line.since), line.parts)
            /\ last = Newline \/ avail(line.parts) = 1
            /\ line.level = EFATAL <=> i = Len(output) /\ aborted
=============================================================================
