---------------------------- MODULE MCSequential ----------------------------
(***************************************************************************)
(* The parts that one thread uses by itself, each for itself: one of them  *)
(* goes its way while the others stay where they begin.                    *)
(***************************************************************************)
EXTENDS Buffer, Calendar, LogLine, StringPiece, OpenedFiles, SelectPoller, SocketPipe,
        SmallFile, Addresses

VARIABLE part

vars == <<part, bufferVars, calendarVars, number, logVars, pieces, filesVars,
          selectVars, pipeVars, smallFileVars, addressVars>>

(* Integers on both sides of zero and at both ends of 32 bits; quantities  *)
(* below a thousand units, across the units, and on both sides of every    *)
(* limit of formatSI and formatIEC up to a thousand millions.              *)
AroundZero == -120 .. 120 \cup {2147483647, -2147483647}
Limits == {9995, 99950, 999500, 9995000, 99950000,
           10234, 102348, 1048064, 10480517, 104805171}
AroundLimits == 0 .. 1100 \cup {977 * i : i \in 1 .. 1100}
                    \cup UNION {l - 3 .. l + 3 : l \in Limits}

(* Leap, common and century years, about 1970 and at the ends of 32 bits.  *)
LeapAndCommon == (1896 .. 1905) \cup (1968 .. 1972) \cup (1999 .. 2005)
                    \cup (2036 .. 2040) \cup (2099 .. 2101)

Wants == {{}, {"IN"}}

Init ==
    /\ part \in {"buffer", "calendar", "formatting", "log", "pieces", "files",
                 "select", "pipe", "smallfile", "address"}
    /\ IF part = "formatting" THEN TRUE ELSE number = [value |-> 0, quantity |-> FALSE]
    /\ IF part = "calendar" THEN TRUE ELSE today = [day |-> 1, month |-> 1, year |-> 1896]
    /\ IF part = "pieces" THEN TRUE ELSE pieces = <<<<>>, <<>>, <<>>>>
    /\ IF part = "log" THEN TRUE ELSE g_logLevel = EINFO
    /\ IF part = "files" THEN TRUE
       ELSE processes = <<>> /\ getNamedPipe = TRUE /\ fileTypeIndex = -1
    /\ BufferInit /\ CalendarInit /\ FormattingInit /\ LogInit /\ PiecesInit
    /\ FilesInit /\ SelectInit /\ PipeInit /\ SmallFileInit /\ AddressInit

Next ==
    /\ UNCHANGED part
    /\ IF part = "buffer"     THEN BufferNext     ELSE UNCHANGED bufferVars
    /\ IF part = "calendar"   THEN CalendarNext   ELSE UNCHANGED calendarVars
    /\ IF part = "formatting" THEN FormattingNext ELSE UNCHANGED number
    /\ IF part = "log"        THEN LogNext        ELSE UNCHANGED logVars
    /\ IF part = "pieces"     THEN PiecesNext     ELSE UNCHANGED pieces
    /\ IF part = "files"      THEN FilesNext      ELSE UNCHANGED filesVars
    /\ IF part = "select"     THEN SelectNext     ELSE UNCHANGED selectVars
    /\ IF part = "pipe"       THEN PipeNext       ELSE UNCHANGED pipeVars
    /\ IF part = "smallfile"  THEN SmallFileNext  ELSE UNCHANGED smallFileVars
    /\ IF part = "address"    THEN AddressNext    ELSE UNCHANGED addressVars

Spec == Init /\ [][Next]_vars

----------------------------------------------------------------------------
(* What is converted means what it meant: dates and times of the day there *)
(* and back, digits and rounded quantities, addresses and their text, and  *)
(* pieces of strings in the order of their bytes (Date.cpp:3-22,           *)
(* timezone.cpp:6-45, logStream.cpp:15-305, stringPiece.h:120-159,         *)
(* inetAddress.cpp:45-117).                                                *)
ConversionsRight == DatesRight /\ NumbersRight /\ PiecesOrdered /\ AddressesRight

(* Of what openedFiles() duplicates, exactly the pipes that it does not    *)
(* ask about and the handles of terminated threads stay open, and each     *)
(* file is listed once; pipe() leaves two sockets open or, when a call     *)
(* fails, none; and a file that is open is read without gaps               *)
(* (processInfo.cpp:172-298, socketsOps.cpp:260-313, fileUtil.cpp:19-89).  *)
HandlesAccounted == HandlesListed /\ PipeWholeOrNone /\ FileReadInOrder
=============================================================================
