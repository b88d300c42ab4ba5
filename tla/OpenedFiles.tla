----------------------------- MODULE OpenedFiles -----------------------------
(***************************************************************************)
(* openedFiles() of base/processInfo.cpp: the files that are open in every *)
(* process.  The name of a file is asked for in a thread of its own, as    *)
(* the question may never be answered; that thread is terminated after a   *)
(* time.  TerminateThread is taken to act at once.                         *)
(*                                                                         *)
(* A process has handles of these kinds: other than files; files that      *)
(* cannot be duplicated; pipes; files with a name, without one, about      *)
(* which the system refuses to answer, and about which it never does.      *)
(***************************************************************************)
EXTENDS Integers, SequencesExt

CONSTANTS Kinds,            \* the kinds of handles there are
          MaxProcesses, MaxHandles      \* bounds

Kind == {"other", "denied", "pipe", "named", "unnamed", "refused", "silent"}

ASSUME FilesAssumption ==
    /\ Kinds \subseteq Kind
    /\ {MaxProcesses, MaxHandles} \subseteq Nat

VARIABLES
    processes,      \* the snapshot: pid, whether it can be opened, handles
    getNamedPipe,
    fileTypeIndex,  \* -1 when the type of files was not found
    finfo,          \* the result: a list for each process
    at,             \* the process and the handle that is looked at
    query,          \* the thread: "none", "asked", "answered" or "ended"
    status,         \* its status: "unset", "success" or "error"
    duplicated,     \* handles of our own that are open
    terminated      \* handles whose thread was terminated before it closed
                    \* the duplicate

asked == <<processes, getNamedPipe, fileTypeIndex>>
filesVars == <<asked, finfo, at, query, status, duplicated, terminated>>

(* PID 0 is passed over by ProcessFirst and ProcessNext.                   *)
SystemProcess == 0
Skipped(p) == processes[p].pid = SystemProcess \/ ~processes[p].opens

(* The first of the types the system lists that has the name of files.     *)
getFileTypeIndex(types) ==
    LET named == {i \in DOMAIN types : types[i] = "File"}
    IN  IF named = {} THEN -1 ELSE Min(named)

FilesInit ==
    /\ \E n \in 0 .. MaxProcesses :
         processes \in [1 .. n -> [pid : 0 .. 1, opens : BOOLEAN,
                                   handles : BoundedSeq(Kinds, MaxHandles)]]
    /\ \A p \in DOMAIN processes : Skipped(p) => processes[p].handles = <<>>
    /\ getNamedPipe \in BOOLEAN
    /\ \E types \in {<<"Key">>, <<"Key", "File">>} : fileTypeIndex = getFileTypeIndex(types)
    /\ finfo = [p \in DOMAIN processes |-> <<>>]
    /\ at = [p |-> 1, i |-> 1]
    /\ query = "none" /\ status = "unset"
    /\ duplicated = {} /\ terminated = {}

Here == <<at.p, at.i>>
InProcess == fileTypeIndex # -1 /\ at.p <= Len(processes)
MoreHandles == InProcess /\ ~Skipped(at.p) /\ at.i <= Len(processes[at.p].handles)
HandleKind == processes[at.p].handles[at.i]

(* Entries: the number of the handle, or the name it has.                  *)
Entry(as) == [handle |-> at.i, as |-> as]

NextHandle == at' = [at EXCEPT !.i = @ + 1]

NextProcess ==
    /\ InProcess /\ ~MoreHandles
    /\ at' = [p |-> at.p + 1, i |-> 1]
    /\ UNCHANGED <<asked, finfo, query, status, duplicated, terminated>>

IsFile == HandleKind \notin {"other", "denied"}

(* Handles of another type, and those DuplicateHandle fails for.           *)
PassOver ==
    /\ MoreHandles /\ query = "none" /\ ~IsFile
    /\ NextHandle
    /\ UNCHANGED <<asked, finfo, query, status, duplicated, terminated>>

(* A pipe is not asked about, and its duplicate stays open.                *)
SkipPipe ==
    /\ MoreHandles /\ query = "none" /\ HandleKind = "pipe" /\ ~getNamedPipe
    /\ duplicated' = duplicated \cup {Here}
    /\ finfo' = [finfo EXCEPT ![at.p] = Append(@, Entry("number"))]
    /\ NextHandle
    /\ UNCHANGED <<asked, query, status, terminated>>

Ask ==
    /\ MoreHandles /\ query = "none" /\ IsFile
    /\ HandleKind = "pipe" => getNamedPipe
    /\ duplicated' = duplicated \cup {Here}
    /\ query' = "asked" /\ status' = "unset"
    /\ UNCHANGED <<asked, finfo, at, terminated>>

(* The thread.  A pipe may be answered about, or never.                    *)
Answer ==
    /\ query = "asked" /\ HandleKind # "silent"
    /\ query' = "answered"
    /\ status' = IF HandleKind = "refused" THEN "error" ELSE "success"
    /\ UNCHANGED <<asked, finfo, at, duplicated, terminated>>

CloseDuplicate ==
    /\ query = "answered"
    /\ query' = "ended"
    /\ duplicated' = duplicated \ {Here}
    /\ UNCHANGED <<asked, finfo, at, status, terminated>>

(* What is pushed for a status that counts as a success or not, when the   *)
(* name buffer was filled or is still zero.                                *)
Entries(success, answered) ==
    <<Entry(IF success /\ answered /\ HandleKind \in {"named", "pipe"}
            THEN "name" ELSE "number")>>

(* Faulty variant (mutation runs only): goes on to the name after an error.*)
ErrorAndName(success, answered) ==
    IF success THEN Entries(success, answered)
    ELSE <<Entry("number")>> \o Entries(TRUE, answered)

Pushed(success, answered) == Entries(success, answered)

(* The wait ends with the thread, or with the timeout, when the thread is  *)
(* terminated.  The status may not have been set: then it is anything.     *)
Collect ==
    /\ query \in {"asked", "answered", "ended"}
    /\ \E success \in BOOLEAN :
        /\ status # "unset" => success = (status = "success")
        /\ finfo' = [finfo EXCEPT ![at.p] = @ \o Pushed(success, query # "asked")]
    /\ terminated' = IF query = "ended" THEN terminated ELSE terminated \cup {Here}
    /\ query' = "none"
    /\ NextHandle
    /\ UNCHANGED <<asked, status, duplicated>>

FilesNext == NextProcess \/ PassOver \/ SkipPipe \/ Ask
                \/ Answer \/ CloseDuplicate \/ Collect

----------------------------------------------------------------------------
(* The handles of process p that are behind, and those of them that are    *)
(* files we may look at.                                                   *)
Behind(p) == CASE p < at.p -> DOMAIN processes[p].handles
               [] p = at.p -> 1 .. at.i - 1
               [] OTHER    -> {}
Files(p) == {k \in Behind(p) : processes[p].handles[k] \notin {"other", "denied"}}

(* The duplicates that nobody closes: of the pipes that are listed without *)
(* asking (the loop goes on to the next handle), and of the threads that   *)
(* are terminated before their CloseHandle.  A thread in between has one.  *)
Passed       == UNION {{p} \X Behind(p) : p \in DOMAIN processes}
UnaskedPipes == {h \in Passed : processes[h[1]].handles[h[2]] = "pipe" /\ ~getNamedPipe}
InHand       == IF query \in {"asked", "answered"} THEN {Here} ELSE {}

(* Every file handle that can be duplicated is listed, once and in order,  *)
(* whatever thread was terminated and whenever that was; a name is given   *)
(* only for a handle that was answered about.  Not all that is duplicated  *)
(* is closed: what stays open is exactly the duplicate of each pipe that   *)
(* is not asked about and of each thread that is terminated before it has  *)
(* closed its own (processInfo.cpp:203-298).                               *)
HandlesListed ==
    /\ \A p \in DOMAIN processes :
        /\ {finfo[p][k].handle : k \in DOMAIN finfo[p]} = Files(p)
        /\ \A k, l \in DOMAIN finfo[p] : k < l => finfo[p][k].handle < finfo[p][l].handle
        /\ \A k \in DOMAIN finfo[p] : finfo[p][k].as = "name" =>
                processes[p].handles[finfo[p][k].handle] \in {"named", "pipe"}
    /\ duplicated = terminated \cup UnaskedPipes \cup InHand
=============================================================================
