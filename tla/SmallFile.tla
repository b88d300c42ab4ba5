------------------------------ MODULE SmallFile ------------------------------
(***************************************************************************)
(* ReadSmallFile of base/fileUtil.cpp, and readFile(): the beginning of a  *)
(* file that grows while it is read, such as a log file.  A byte of the    *)
(* file is its position, from 1 on.  A directory cannot be opened.         *)
(***************************************************************************)
EXTENDS Integers, SequencesExt

CONSTANTS kBufferSize,      \* of ReadSmallFile, 65536 in the code
          MaxFileSize,      \* bound: the bytes of the file
          MaxSizes          \* what is passed for maxSize

ASSUME SmallFileAssumption ==
    /\ kBufferSize \in Nat \ {0, 1}
    /\ MaxFileSize \in Nat
    /\ MaxSizes \subseteq Nat

VARIABLES
    size,       \* the bytes that the file has
    fp_,        \* "new", "open", "null" if it could not be opened, "closed",
                \* or "aborted" with the process
    offset,     \* how much of it has been read
    reading     \* the call under way or done last: what it is, maxSize, where
                \* it began, the content and the size that was found

smallFileVars == <<size, fp_, offset, reading>>

NotReading == [call |-> "none"]

SmallFileInit ==
    /\ size = 0
    /\ fp_ = "new"
    /\ offset = 0
    /\ reading = NotReading

Grows == /\ size < MaxFileSize
         /\ size' = size + 1
         /\ UNCHANGED <<fp_, offset, reading>>

OpenFile ==
    /\ fp_ = "new"
    /\ fp_' \in {"open", "null"}
    /\ UNCHANGED <<size, offset, reading>>

(* fread_s() of at most n bytes returns how many there are; a failure is   *)
(* taken for the end of the file, as n is never negative.                  *)
fread_s(n) == Min({n, size - offset})
Bytes(n) == [i \in 1 .. n |-> offset + i]

readToBuffer ==
    /\ fp_ = "open" /\ reading.call # "readToString"
    /\ LET n == fread_s(kBufferSize - 1)
       IN  /\ reading' = [call |-> "readToBuffer", from |-> offset, content |-> Bytes(n)]
           /\ offset' = offset + n
    /\ UNCHANGED <<size, fp_>>

(* readToString(), first the status of the file...                         *)
readToString(maxSize) ==
    /\ fp_ = "open" /\ reading.call # "readToString"
    /\ reading' = [call |-> "readToString", max |-> maxSize, from |-> offset,
                   content |-> <<>>, fileSize |-> size]
    /\ UNCHANGED <<size, fp_, offset>>

(* ... then as many buffers full as it takes.                              *)
toRead == Min({kBufferSize, reading.max - Len(reading.content)})

ReadOn ==
    /\ reading.call = "readToString"
    /\ LET n == fread_s(toRead)
       IN  /\ reading' = IF n > 0 THEN [reading EXCEPT !.content = @ \o Bytes(n)]
                                  ELSE [reading EXCEPT !.call = "read"]
           /\ offset' = offset + n
    /\ UNCHANGED <<size, fp_>>

(* The destructor tests fp_ >= 0, which holds of NULL: the C library ends  *)
(* the process when it is asked to close that.                             *)
CloseFile ==
    /\ fp_ \in {"open", "null"} /\ reading.call # "readToString"
    /\ fp_' = IF fp_ = "open" THEN "closed" ELSE "aborted"
    /\ UNCHANGED <<size, offset, reading>>

SmallFileNext == \/ Grows \/ OpenFile \/ readToBuffer
                 \/ \E maxSize \in MaxSizes : readToString(maxSize)
                 \/ ReadOn \/ CloseFile

----------------------------------------------------------------------------
(* What has been read is what follows what was read before, without gaps,  *)
(* and no more than was asked for; and all that readToString() could have  *)
(* returned when it found the size of the file is there                    *)
(* (fileUtil.cpp:19-89).                                                   *)
FileReadInOrder ==
    /\ offset <= size
    /\ reading.call # "none" =>
          /\ \A i \in DOMAIN reading.content : reading.content[i] = reading.from + i
          /\ offset = reading.from + Len(reading.content)
    /\ reading.call \in {"readToString", "read"} => Len(reading.content) <= reading.max
    /\ reading.call = "read" =>
          Len(reading.content) >= Min({reading.max, reading.fileSize - reading.from})
    /\ reading.call = "readToBuffer" => Len(reading.content) < kBufferSize
=============================================================================
